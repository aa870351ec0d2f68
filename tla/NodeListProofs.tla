---------------------------- MODULE NodeListProofs ----------------------------
(*****************************************************************************)
(* Two programs of problem 3: the invariants of those with a condition       *)
(* variable and with a mutex in every node; and the theorems on the four.    *)
(*****************************************************************************)
EXTENDS RwListProofs

\* The program with the condition variable: the flag is set while somebody works on the
\* list.  Main frees without a lock, but only when it adds no more lines.
CondTypeOK ==
  /\ mainpc \in {"read", "lock", "work", "unlock", "destroy", "free", "exit", "crash", "undefined"}
  /\ sortpc \in {"check", "lock", "pass", "compare", "unlock"}
  /\ m \in {"free", "main", "sort", "destroyed"} /\ cond_predicate \in {0, 1}
  /\ n \in 0 .. MaxNodes /\ freed \in SUBSET Node /\ list \in Ptr
  /\ next \in [Node -> Ptr] /\ prev \in [Node -> Ptr] /\ line \in [Node -> 0 .. MaxLine]
  /\ current \in Ptr /\ end \in Ptr /\ is_swapped \in BOOLEAN /\ rest \in Ptr

CondGuards ==
  /\ sortpc \in {"pass", "compare", "unlock"} => m \in {"sort", "destroyed"}
  /\ m = "sort" => sortpc \in {"pass", "compare", "unlock"}
  /\ m = "main" <=> mainpc \in {"work", "unlock"}
  /\ m = "destroyed" \/ freed # {} => mainpc \in {"free", "exit", "crash", "undefined"}
  /\ cond_predicate = 1 <=> m = "main" \/ sortpc \in {"pass", "compare", "unlock"}
  /\ sortpc \in {"lock", "pass", "compare", "unlock"} => n >= 2

CondList ==
  \E s \in Order :
    /\ Perm(s, n) /\ Linked(s, n, next, prev) /\ list = At(s, n, 1)
    /\ InSort(s, n, line, sortpc, current, end, is_swapped)

CondInv == CondTypeOK /\ CondGuards /\ Fresh /\ CondList

-------------------------------------------------------------------------------
\* The program with one mutex.

\* What it shares with the first program is the same there.
LEMMA CondShares ==
  /\ Cond!StartPass => StartPass
  /\ Cond!CompareLines => CompareLines
  /\ Cond!EndPass("unlock") => EndPass("unlock")
  /\ OneChain => Cond!OneChain
  /\ InnerLoopInside => Cond!InnerLoopInside
  /\ Sorted => Cond!Sorted
<1>1. Cond!StartPass => StartPass
  BY DEF Cond!StartPass, StartPass, Cond!GotoSort, GotoSort, Cond!listVars, listVars
<1>2. Cond!CompareLines => CompareLines
  BY DEF Cond!CompareLines, CompareLines, Cond!NullLine, NullLine, Cond!swap, swap, Cond!Node, Node
<1>3. Cond!EndPass("unlock") => EndPass("unlock")
  BY DEF Cond!EndPass, EndPass, Cond!listVars, listVars
<1>4. OneChain => Cond!OneChain
  BY DEF OneChain, Cond!OneChain, IsChain, Cond!IsChain, Allocated, Cond!Allocated, NULL, Cond!NULL
<1>5. InnerLoopInside => Cond!InnerLoopInside
  BY DEF InnerLoopInside, Cond!InnerLoopInside, NULL, Cond!NULL
<1>6. Sorted => Cond!Sorted
  BY DEF Sorted, Cond!Sorted, Allocated, Cond!Allocated, NULL, Cond!NULL
<1>. QED
  BY <1>1, <1>2, <1>3, <1>4, <1>5, <1>6

\* The list starts empty, and nobody works on it.
LEMMA InitCondInv == Cond!Init => CondInv
<1>. SUFFICES ASSUME Cond!Init PROVE CondInv
  OBVIOUS
<1>0. /\ MaxNodes \in Nat /\ MaxLine \in Nat
      /\ NULL \in Ptr /\ 0 \in 0 .. MaxNodes /\ 0 \in 0 .. MaxLine
  BY ListAssumption DEF Ptr, NULL
<1>1. /\ n = 0 /\ list = NULL /\ freed = {} /\ sortpc = "check" /\ mainpc = "read"
      /\ m = "free" /\ cond_predicate = 0 /\ current = NULL /\ end = NULL /\ is_swapped = FALSE
      /\ rest = NULL /\ next = [a \in Node |-> NULL] /\ prev = [a \in Node |-> NULL] /\ line = [a \in Node |-> 0]
  BY DEF Cond!Init, Cond!NodesInit, Cond!Node, Node, Cond!NULL, NULL
<1>2. CondTypeOK
  BY <1>0, <1>1, Zenon DEF CondTypeOK
<1>3. CondGuards /\ Fresh
  BY <1>1 DEF CondGuards, Fresh
<1>4. CondList
  <2>. DEFINE s == [k \in 1 .. 0 |-> k]
  <2>1. Perm(s, n) /\ Linked(s, n, next, prev) /\ At(s, n, 1) = NULL
    BY <1>1, EmptyChain
  <2>2. InSort(s, n, line, sortpc, current, end, is_swapped)
    BY <1>1 DEF InSort
  <2>3. s \in Order
    BY <1>1 DEF Order
  <2>. HIDE DEF s
  <2>. QED
    BY <1>1, <2>1, <2>2, <2>3 DEF CondList
<1>. QED
  BY <1>2, <1>3, <1>4 DEF CondInv

\* A step that leaves the list and the sort's variables as they are.
LEMMA CondQuietStep ==
  ASSUME CondInv, UNCHANGED <<n, list, next, prev, line, current, end, is_swapped>>,
         sortpc' = sortpc \/ sortpc' \in {"check", "lock"}
  PROVE  Fresh' /\ CondList'
<1>1. Fresh'
  BY DEF CondInv, Fresh
<1>2. PICK s \in Order :
        /\ Perm(s, n) /\ Linked(s, n, next, prev) /\ list = At(s, n, 1)
        /\ InSort(s, n, line, sortpc, current, end, is_swapped)
  BY DEF CondInv, CondList
<1>3. InSort(s, n', line', sortpc', current', end', is_swapped')
  BY <1>2 DEF InSort
<1>4. s \in Order'
  BY DEF Order
<1>. QED
  BY <1>1, <1>2, <1>3, <1>4 DEF CondList

\* add_to_tail walks to the last node and puts the new one behind it.
LEMMA CondAddStep ==
  ASSUME CondInv, Cond!add_to_tail
  PROVE  CondInv'
<1>0. /\ n \in 0 .. MaxNodes /\ n < MaxNodes /\ n \in Nat /\ MaxNodes \in Nat /\ n' = n + 1
      /\ n + 1 \in Node /\ n + 1 # NULL
  BY ListAssumption DEF CondInv, CondTypeOK, Cond!add_to_tail, Cond!NewLine, Cond!new_node, Node,
     NULL
<1>1. /\ mainpc = "work" /\ mainpc' = "unlock" /\ m = "main"
      /\ UNCHANGED <<sortpc, m, cond_predicate, freed, rest, current, end, is_swapped>>
  BY DEF CondInv, CondGuards, Cond!add_to_tail, Cond!GotoMain, Cond!sortVars
<1>2. sortpc \notin {"pass", "compare", "unlock"}
  BY <1>1 DEF CondInv, CondGuards
<1>3. PICK v \in 0 .. MaxLine : line' = [line EXCEPT ![n + 1] = v]
  BY Zenon DEF Cond!add_to_tail, Cond!NewLine, Cond!new_node
<1>4. PICK s \in Order : Perm(s, n) /\ Linked(s, n, next, prev) /\ list = At(s, n, 1)
  BY DEF CondInv, CondList
<1>5. /\ \A k \in Int : k \notin 1 .. n => At(s, n, k) = NULL
      /\ \A k \in 1 .. n : /\ s[k] \in 1 .. n /\ s[k] \in Node /\ s[k] # NULL /\ At(s, n, k) = s[k]
                           /\ next[s[k]] = At(s, n, k + 1)
  BY <1>0, <1>4, ChainFacts
<1>6. next[n + 1] = NULL /\ prev[n + 1] = NULL
  BY <1>0 DEF CondInv, Fresh
<1>7. CondGuards'
  BY <1>0, <1>1 DEF CondInv, CondGuards
<1>8. ASSUME NEW z, Perm(z, n + 1), Linked(z, n + 1, next', prev'), list' = At(z, n + 1, 1)
      PROVE  CondList'
  <2>1. z \in Order'
    BY <1>0, <1>8, Zenon DEF Order, Perm
  <2>2. InSort(z, n', line', sortpc', current', end', is_swapped')
    BY <1>1, <1>2 DEF InSort
  <2>. QED
    BY <1>0, <1>8, <2>1, <2>2 DEF CondList
<1>9. CASE list = NULL
  <2>1. list' = n + 1 /\ UNCHANGED <<next, prev>>
    BY <1>9 DEF Cond!add_to_tail, Cond!NULL, NULL
  <2>2. n = 0
    <3>1. 1 \notin 1 .. n
      BY <1>4, <1>5, <1>9
    <3>. QED
      BY <1>0, <3>1
  <2>3. CondTypeOK' /\ Fresh'
    <3>1. line' \in [Node -> 0 .. MaxLine] /\ n' \in 0 .. MaxNodes /\ list' \in Ptr
      BY <1>0, <1>3, <2>1 DEF CondInv, CondTypeOK, Ptr
    <3>2. Fresh'
      BY <2>1, <2>2 DEF CondInv, Fresh, Node
    <3>. QED
      BY <1>1, <2>1, <3>1, <3>2 DEF CondInv, CondTypeOK
  <2>4. CondList'
    <3>. DEFINE z == [k \in 1 .. 1 |-> 1]
    <3>1. 1 .. 1 = {1} /\ 0 \notin 1 .. 1 /\ 2 \notin 1 .. 1 /\ n + 1 = 1
      BY <2>2
    <3>2. Perm(z, 1) /\ At(z, 1, 1) = 1 /\ At(z, 1, 1 + 1) = NULL /\ At(z, 1, 1 - 1) = NULL
      BY DEF Perm, At
    <3>3. Linked(z, 1, next', prev')
      BY <1>6, <2>1, <3>1, <3>2 DEF Linked
    <3>. HIDE DEF z
    <3>. QED
      BY <1>8, <2>1, <3>1, <3>2, <3>3
  <2>. QED
    BY <1>7, <2>3, <2>4 DEF CondInv
<1>10. CASE list # NULL
  <2>1. n >= 1 /\ n \in 1 .. n
    <3>1. 1 \in 1 .. n
      BY <1>4, <1>5, <1>10
    <3>. QED
      BY <1>0, <3>1
  <2>2. Cond!Tail = s[n]
    <3>1. next[s[n]] = NULL /\ s[n] \in 1 .. n
      BY <1>0, <1>5, <2>1
    <3>2. ASSUME NEW a \in 1 .. n, next[a] = NULL PROVE a = s[n]
      <4>1. PICK k \in 1 .. n : s[k] = a
        BY <1>4 DEF Perm
      <4>2. k + 1 \notin 1 .. n
        BY <1>5, <3>2, <4>1
      <4>3. k = n
        BY <1>0, <4>2
      <4>. QED
        BY <4>1, <4>3
    <3>3. s[n] = CHOOSE a \in 1 .. n : next[a] = NULL
      BY <3>2
    <3>. QED
      BY <3>3 DEF Cond!Tail, Cond!Allocated, Cond!NULL, NULL
  <2>3. /\ next' = [next EXCEPT ![s[n]] = n + 1] /\ prev' = [prev EXCEPT ![n + 1] = s[n]]
        /\ list' = list
    BY <1>10, <2>2 DEF Cond!add_to_tail, Cond!NULL, NULL
  <2>4. CondTypeOK' /\ Fresh'
    <3>1. s[n] \in Node /\ s[n] \in 1 .. n
      BY <1>5, <2>1
    <3>2. next' \in [Node -> Ptr] /\ prev' \in [Node -> Ptr] /\ line' \in [Node -> 0 .. MaxLine]
      BY <1>0, <1>3, <2>3, <3>1 DEF CondInv, CondTypeOK, Ptr
    <3>3. n' \in 0 .. MaxNodes
      BY <1>0
    <3>4. ASSUME NEW a \in Node, a > n' PROVE next'[a] = NULL /\ prev'[a] = NULL
      <4>1. a > n /\ a # n + 1 /\ a \notin 1 .. n
        BY <1>0, <3>4 DEF Node
      <4>. QED
        BY <2>3, <3>1, <4>1 DEF CondInv, Fresh, CondTypeOK
    <3>5. Fresh'
      BY <3>4 DEF Fresh
    <3>. QED
      BY <1>1, <2>3, <3>2, <3>3, <3>5 DEF CondInv, CondTypeOK
  <2>5. CondList'
    <3>. DEFINE z == Extended(s, n)
    <3>1. Perm(z, n + 1) /\ Linked(z, n + 1, next', prev')
      BY <1>0, <1>4, <1>6, <2>1, <2>3, ExtendedChain, Zenon DEF CondInv, CondTypeOK
    <3>2. At(z, n + 1, 1) = At(s, n, 1)
      <4>1. 1 \in 1 .. n + 1 /\ 1 \in 1 .. n /\ 1 # n + 1
        BY <2>1
      <4>. QED
        BY <4>1 DEF Extended, At
    <3>. HIDE DEF z
    <3>. QED
      BY <1>4, <1>8, <2>3, <3>1, <3>2
  <2>. QED
    BY <1>7, <2>4, <2>5 DEF CondInv
<1>. QED
  BY <1>9, <1>10

\* Steps of the sort itself.
LEMMA CondSortStep ==
  ASSUME CondInv, Cond!Pass \/ Cond!Compare
  PROVE  CondInv'
<1>0. /\ StartPass \/ CompareLines \/ EndPass("unlock")
      /\ UNCHANGED <<mainpc, m, cond_predicate, rest>>
  BY CondShares DEF Cond!Pass, Cond!Compare
<1>1. sortpc \in {"pass", "compare"} /\ sortpc' \in {"pass", "compare", "unlock"}
  BY <1>0 DEF StartPass, CompareLines, EndPass, GotoSort
<1>2. n \in 0 .. MaxNodes /\ n >= 1 /\ n \in Nat /\ is_swapped \in BOOLEAN /\ Lines(line, n)
  <2>1. n \in Nat /\ \A a \in 1 .. n : a \in Node
    BY ListAssumption DEF CondInv, CondTypeOK, Node
  <2>2. n >= 2
    BY <1>1 DEF CondInv, CondGuards
  <2>. QED
    BY <2>1, <2>2 DEF CondInv, CondTypeOK, Lines
<1>3. PICK s \in Order : /\ Perm(s, n) /\ Linked(s, n, next, prev) /\ list = At(s, n, 1)
                         /\ InSort(s, n, line, sortpc, current, end, is_swapped)
  BY DEF CondInv, CondList
<1>4. /\ n' = n /\ line' = line /\ freed' = freed
      /\ \E z \in Order : /\ Perm(z, n) /\ Linked(z, n, next', prev') /\ list' = At(z, n, 1)
                          /\ InSort(z, n, line, sortpc', current', end', is_swapped')
  BY <1>0, <1>2, <1>3, SortStep
<1>5. CondList'
  <2>1. Order' = Order
    BY <1>4 DEF Order
  <2>. QED
    BY <1>4, <2>1 DEF CondList
<1>6. CondGuards'
  BY <1>0, <1>1, <1>4 DEF CondInv, CondGuards
<1>7. CondTypeOK' /\ Fresh'
  BY <1>0, <1>1, <1>2, <1>3, <1>4, SortTypes DEF CondInv, CondTypeOK
<1>. QED
  BY <1>5, <1>6, <1>7 DEF CondInv

\* Every step of the program preserves the invariant; also those of a sorter that finds
\* the mutex destroyed and the nodes freed.
LEMMA CondStep ==
  ASSUME CondInv, [Cond!Next]_(Cond!vars)
  PROVE  CondInv'
<1>. USE DEF Cond!listVars, Cond!sortVars
<1>0. /\ n \in 0 .. MaxNodes /\ n \in Nat /\ MaxNodes \in Nat
      /\ NULL \in Ptr
  BY ListAssumption DEF CondInv, CondTypeOK, Ptr, NULL
<1>1. ASSUME UNCHANGED <<n, list, next, prev, line, current, end, is_swapped>>,
             sortpc' = sortpc \/ sortpc' \in {"check", "lock"},
             CondGuards', mainpc' \in {"read", "lock", "work", "unlock", "destroy", "free", "exit",
                                       "crash", "undefined"},
             m' \in {"free", "main", "sort", "destroyed"}, cond_predicate' \in {0, 1},
             freed' \in SUBSET Node, rest' \in Ptr
      PROVE  CondInv'
  <2>1. Fresh' /\ CondList'
    BY <1>1, CondQuietStep
  <2>2. CondTypeOK'
    BY <1>1 DEF CondInv, CondTypeOK
  <2>. QED
    BY <1>1, <2>1, <2>2 DEF CondInv
<1>2. CASE Cond!ReadLine
  BY <1>1, <1>2 DEF Cond!ReadLine, Cond!GotoMain, CondInv, CondTypeOK, CondGuards
<1>3. CASE Cond!Lock
  BY <1>1, <1>3 DEF Cond!Lock, Cond!GotoMain, CondInv, CondTypeOK, CondGuards
<1>4. CASE Cond!print_list
  BY <1>1, <1>4 DEF Cond!print_list, Cond!GotoMain, CondInv, CondTypeOK, CondGuards
<1>5. CASE Cond!add_to_tail
  BY <1>5, CondAddStep
<1>6. CASE Cond!Unlock
  BY <1>1, <1>6 DEF Cond!Unlock, Cond!GotoMain, CondInv, CondTypeOK, CondGuards
<1>7. CASE Cond!Destroy
  BY <1>1, <1>7 DEF Cond!Destroy, Cond!GotoMain, CondInv, CondTypeOK, CondGuards
<1>8. CASE Cond!list_free
  <2>1. rest # NULL => rest \in Node /\ next[rest] \in Ptr
    BY DEF CondInv, CondTypeOK, Ptr
  <2>2. freed' \in SUBSET Node /\ rest' \in Ptr /\ mainpc' \in {"free", "exit"}
    BY <1>8, <2>1 DEF Cond!list_free, CondInv, CondTypeOK, Cond!NULL, NULL
  <2>. QED
    BY <1>1, <1>8, <2>2 DEF Cond!list_free, CondInv, CondTypeOK, CondGuards
<1>9. CASE Cond!UseAfterFree /\ Cond!Touched \intersect freed # {}
  BY <1>1, <1>9 DEF Cond!UseAfterFree, CondInv, CondTypeOK, CondGuards
<1>15. CASE Cond!Crash
  BY <1>1, <1>15 DEF Cond!Crash, Cond!NullLine, CondInv, CondTypeOK, CondGuards
<1>10. CASE Cond!SortCheck
  <2>1. n >= 2
    <3>1. PICK s \in Order : Perm(s, n) /\ Linked(s, n, next, prev) /\ list = At(s, n, 1)
      BY DEF CondInv, CondList
    <3>2. list # NULL /\ next[list] # NULL
      BY <1>10 DEF Cond!SortCheck, Cond!NULL, NULL
    <3>. QED
      BY <1>0, <3>1, <3>2, TwoNodes
  <2>. QED
    BY <1>1, <1>10, <2>1 DEF Cond!SortCheck, Cond!GotoSort, CondInv, CondTypeOK, CondGuards
<1>11. CASE Cond!SortLock
  <2>1. sortpc = "lock" /\ sortpc' = "pass" /\ end' = NULL /\ cond_predicate = 0
        /\ UNCHANGED <<mainpc, freed, rest, n, list, next, prev, line, current, is_swapped>>
        /\ m' \in {"sort", "destroyed"} /\ (m = "destroyed" <=> m' = "destroyed")
        /\ cond_predicate' = 1 /\ m # "main"
    BY <1>11 DEF Cond!SortLock, Cond!GotoSort, Cond!NULL, NULL
  <2>2. n >= 2
    BY <2>1 DEF CondInv, CondGuards
  <2>3. CondGuards'
    BY <2>1 DEF CondInv, CondGuards
  <2>4. CondTypeOK' /\ Fresh'
    BY <1>0, <2>1 DEF CondInv, CondTypeOK, Fresh
  <2>5. CondList'
    <3>1. PICK s \in Order : Perm(s, n) /\ Linked(s, n, next, prev) /\ list = At(s, n, 1)
      BY DEF CondInv, CondList
    <3>2. InSort(s, n, line, "pass", current, NULL, is_swapped)
      BY <1>0, <2>2, SortStart
    <3>3. s \in Order'
      BY <2>1 DEF Order
    <3>. QED
      BY <2>1, <3>1, <3>2, <3>3 DEF CondList
  <2>. QED
    BY <2>3, <2>4, <2>5 DEF CondInv
<1>12. CASE Cond!Pass \/ Cond!Compare
  BY <1>12, CondSortStep
<1>13. CASE Cond!SortUnlock
  BY <1>1, <1>13 DEF Cond!SortUnlock, Cond!GotoSort, CondInv, CondTypeOK, CondGuards
<1>14. CASE UNCHANGED Cond!vars
  BY <1>1, <1>14 DEF Cond!vars, CondInv, CondTypeOK, CondGuards
<1>. QED
  BY <1>2, <1>3, <1>4, <1>5, <1>6, <1>7, <1>8, <1>9, <1>10, <1>11, <1>12, <1>13, <1>14,
     <1>15 DEF Cond!Next, Cond!main, Cond!bubble_sort_mt

\* In every state of the invariant the list is one chain, and sorted at the unlock.
LEMMA CondInvHolds == CondInv => Cond!ListInv /\ SortedOnUnlock
<1>. SUFFICES ASSUME CondInv PROVE Cond!ListInv /\ SortedOnUnlock
  OBVIOUS
<1>0. n \in 0 .. MaxNodes
  BY DEF CondInv, CondTypeOK
<1>1. PICK s \in Order : /\ Perm(s, n) /\ Linked(s, n, next, prev) /\ list = At(s, n, 1)
                         /\ InSort(s, n, line, sortpc, current, end, is_swapped)
  BY DEF CondInv, CondList
<1>2. Cond!OneChain
  BY <1>0, <1>1, ChainIsOne, CondShares
<1>3. freed = {} => Cond!InnerLoopInside
  BY <1>0, <1>1, SortIsInside, CondShares
<1>4. sortpc = "unlock" => Sorted
  BY <1>0, <1>1, SortIsDone
<1>5. m = "free" => cond_predicate = 0
  BY DEF CondInv, CondGuards, CondTypeOK
<1>. QED
  BY <1>2, <1>3, <1>4, <1>5, CondShares DEF Cond!ListInv, SortedOnUnlock

-------------------------------------------------------------------------------
\* The program with a mutex in every node: the list is n, n - 1, ..., 1.
NodesTypeOK ==
  /\ mainpc \in {"read", "add", "link", "linked", "print", "walk", "stop", "join", "free", "exit",
                 "crash"}
  /\ sortpc \in {"test", "peek", "headlock", "check", "headunlock", "pass", "first", "compare",
                 "strcmp", "swapa", "swapb", "done"}
  /\ owner \in [Node -> {"free", "main", "sort"}] /\ n \in 0 .. MaxNodes
  /\ next \in [Node -> Ptr] /\ prev \in [Node -> Ptr]
  /\ list \in 0 .. n /\ cur \in 0 .. n /\ target \in 0 .. n /\ current \in 0 .. n

InputOrder ==
  /\ \A a \in 1 .. n : next[a] = a - 1 /\ prev[a] = IF a = n THEN NULL ELSE a + 1
  /\ \A a \in Node : a > n => prev[a] = NULL

\* list_free goes from n down to 1, when the sorter is done.
FreedSoFar ==
  /\ mainpc \notin {"free", "exit"} => list = n
  /\ mainpc \in {"free", "exit"} => sortpc = "done" /\ freed = list + 1 .. n
  /\ mainpc = "exit" => list = NULL
  /\ mainpc \notin {"free", "exit"} => freed = {}

\* Where the two threads are in the list.  No pass ends with a second one, so `end' is
\* NULL, and the sorter holds current and what it passes to swap.
Places ==
  /\ mainpc = "add" \/ mainpc = "link" => n < MaxNodes
  /\ mainpc = "linked" => n >= 1
  /\ mainpc = "print" => cur = n /\ cur >= 1
  /\ mainpc = "walk" => cur >= 1
  /\ sortpc = "headlock" => target >= 1
  /\ sortpc \in {"pass", "first", "compare", "strcmp", "swapa", "swapb"} => end = NULL /\ n >= 2
  /\ sortpc \in {"first", "compare", "strcmp", "swapa", "swapb"} => current >= 1
  /\ sortpc = "first" => prev_locked = NULL
  /\ sortpc \in {"compare", "strcmp", "swapa", "swapb"} => owner[current] = "sort"
  /\ sortpc \in {"strcmp", "swapa", "swapb"} => current >= 2 /\ owner[current - 1] = "sort"
  /\ sortpc \in {"compare", "strcmp"} /\ prev_locked # NULL =>
       prev_locked = current + 1 /\ current + 1 <= n /\ owner[current + 1] = "sort"

\* The node that main has locked.
MainHolds ==
  IF mainpc = "link" THEN list ELSE IF mainpc = "linked" THEN n - 1
  ELSE IF mainpc = "walk" THEN cur ELSE NULL

\* HeadUnlock gives back the mutex of a head that main has locked.  The sorter then takes
\* the mutex of a head, and asks for it a second time before it comes to a node that main
\* gives back once more.
Robbed(h) ==
  /\ h >= n - 1 /\ (mainpc \in {"walk", "link"} => h = n)
  /\ sortpc \in {"peek", "headlock", "check", "headunlock", "pass", "first", "compare"}
  /\ sortpc = "headlock" => target \in {h, n}
  /\ sortpc = "check" => target \in {h, n} /\ owner[target] = "sort"
  /\ sortpc \in {"pass", "first"} =>
       owner[h] = "sort" \/ (owner[n] = "sort" /\ (sortpc = "first" => current = n))
  /\ sortpc = "first" => current \in {h, n}
  /\ sortpc = "compare" => h # n /\ current = n /\ owner[h] = "sort"

HoldsOrRobbed == MainHolds # NULL => owner[MainHolds] = "main" \/ Robbed(MainHolds)

NodesInv == NodesTypeOK /\ InputOrder /\ FreedSoFar /\ Places /\ HoldsOrRobbed

\* No node, and nobody has begun.
LEMMA InitNodesInv == Nodes!Init => NodesInv
<1>. SUFFICES ASSUME Nodes!Init PROVE NodesInv
  OBVIOUS
<1>. USE DEF NULL, Nodes!NULL
<1>1. /\ n = 0 /\ list = 0 /\ freed = {} /\ sortpc = "test" /\ mainpc = "read"
      /\ current = 0 /\ cur = 0 /\ target = 0 /\ prev_locked = 0
      /\ next = [a \in Node |-> 0] /\ prev = [a \in Node |-> 0] /\ owner = [a \in Node |-> "free"]
  BY DEF Nodes!Init, Nodes!NodesInit, Nodes!Node, Node
<1>2. MaxNodes \in Nat /\ 0 \in Ptr /\ 0 \in 0 .. MaxNodes /\ 0 \in 0 .. 0 /\ 1 .. 0 = {} /\ 0 + 1 .. 0 = {}
  BY ListAssumption DEF Ptr
<1>3. NodesTypeOK
  BY <1>1, <1>2 DEF NodesTypeOK
<1>4. InputOrder /\ FreedSoFar
  BY <1>1 DEF InputOrder, FreedSoFar
<1>5. Places /\ HoldsOrRobbed
  BY <1>1 DEF Places, HoldsOrRobbed, MainHolds
<1>. QED
  BY <1>3, <1>4, <1>5 DEF NodesInv

\* A step that leaves the list as it is.
LEMMA NodesQuietStep ==
  ASSUME NodesInv, UNCHANGED <<freed, n, list, next, prev>>,
         mainpc \in {"free", "exit"} <=> mainpc' \in {"free", "exit"},
         mainpc' = "exit" <=> mainpc = "exit", sortpc = "done" => sortpc' = "done"
  PROVE  InputOrder' /\ FreedSoFar'
  BY DEF NodesInv, InputOrder, FreedSoFar

\* What main does with the mutexes.
LEMMA NodesMainStep ==
  ASSUME NodesInv, \/ Nodes!ReadLine \/ Nodes!AddLock \/ Nodes!AddUnlock \/ Nodes!PrintLock
                   \/ Nodes!PrintNext \/ Nodes!SetStop
  PROVE  NodesInv'
<1>. USE DEF NULL, Nodes!NULL, Nodes!listVars, Nodes!sortVars, Nodes!lockVars, Nodes!mainVars
<1>0. /\ n \in 0 .. MaxNodes /\ n \in Nat /\ MaxNodes \in Nat
      /\ \A a \in 1 .. n : a \in Node /\ a \in Nat
  BY ListAssumption DEF NodesInv, NodesTypeOK, Node
<1>. USE DEF Nodes!Node
<1>1. /\ UNCHANGED <<sortpc, freed, target, prev_locked, n, list, next, prev, current, end>>
      /\ mainpc \notin {"free", "exit"} /\ mainpc' \notin {"free", "exit"} /\ list = n
  BY DEF Nodes!ReadLine, Nodes!AddLock, Nodes!AddUnlock, Nodes!PrintLock,
         Nodes!PrintNext, Nodes!SetStop, Nodes!GotoMain, NodesInv, FreedSoFar, NodesTypeOK
<1>2. InputOrder' /\ FreedSoFar'
  BY <1>1, NodesQuietStep
<1>3. CASE Nodes!ReadLine
  <2>1. /\ owner' = owner /\ mainpc' \in {"add", "print", "stop"}
        /\ (mainpc' = "print" => cur' = n /\ cur' >= 1) /\ (mainpc' = "add" => n < MaxNodes)
        /\ cur' \in 0 .. n
    BY <1>0, <1>1, <1>3 DEF Nodes!ReadLine, Nodes!GotoMain, NodesInv, NodesTypeOK
  <2>2. NodesTypeOK' /\ Places'
    BY <1>1, <2>1 DEF NodesInv, NodesTypeOK, Places
  <2>3. HoldsOrRobbed'
    BY <2>1 DEF HoldsOrRobbed, MainHolds
  <2>. QED
    BY <1>2, <2>2, <2>3 DEF NodesInv
<1>4. CASE Nodes!AddLock
  <2>1. /\ mainpc = "add" /\ mainpc' = "link" /\ UNCHANGED cur /\ (list = 0 => owner' = owner)
        /\ list # 0 => owner[list] = "free" /\ owner' = [owner EXCEPT ![list] = "main"]
    BY <1>4 DEF Nodes!AddLock, Nodes!GotoMain, Nodes!LockNode
  <2>2. list # 0 => list \in Node
    BY <1>0, <1>1
  <2>3. NodesTypeOK'
    BY <1>1, <2>1 DEF NodesInv, NodesTypeOK
  <2>4. Places'
    BY <1>0, <1>1, <2>1 DEF NodesInv, NodesTypeOK, Places
  <2>5. HoldsOrRobbed'
    BY <1>1, <2>1, <2>2 DEF HoldsOrRobbed, MainHolds, NodesInv, NodesTypeOK
  <2>. QED
    BY <1>2, <2>3, <2>4, <2>5 DEF NodesInv
<1>5. CASE Nodes!AddUnlock
  <2>1. mainpc = "linked" /\ mainpc' = "read" /\ UNCHANGED cur
    BY <1>5 DEF Nodes!AddUnlock, Nodes!GotoMain
  <2>2. n >= 1 /\ next[list] = n - 1
    BY <1>0, <1>1, <2>1 DEF NodesInv, Places, InputOrder
  <2>3. owner' = [a \in Node |-> IF a = n - 1 THEN "free" ELSE owner[a]]
    BY <1>5, <2>2 DEF Nodes!AddUnlock, Nodes!UnlockNodes, Node
  <2>4. NodesTypeOK'
    BY <1>1, <2>1, <2>3 DEF NodesInv, NodesTypeOK
  <2>5. Places'
    <3>1. n >= 2 => owner[n - 1] = "main" \/ Robbed(n - 1)
      BY <1>0, <2>1 DEF NodesInv, HoldsOrRobbed, MainHolds
    <3>2. /\ sortpc \in {"compare", "strcmp", "swapa", "swapb"} => current # n - 1
          /\ sortpc \in {"strcmp", "swapa", "swapb"} => current - 1 # n - 1
          /\ sortpc \in {"compare", "strcmp"} /\ prev_locked # 0 => current + 1 # n - 1
      BY <1>0, <3>1 DEF NodesInv, Places, Robbed, NodesTypeOK
    <3>. QED
      BY <1>0, <1>1, <2>1, <2>3, <3>2 DEF NodesInv, NodesTypeOK, Places
  <2>6. HoldsOrRobbed'
    BY <2>1 DEF HoldsOrRobbed, MainHolds
  <2>. QED
    BY <1>2, <2>4, <2>5, <2>6 DEF NodesInv
<1>6. CASE Nodes!PrintLock
  <2>1. /\ mainpc = "print" /\ mainpc' = "walk" /\ UNCHANGED cur /\ cur = n /\ cur >= 1
        /\ owner[cur] = "free" /\ owner' = [owner EXCEPT ![cur] = "main"]
    BY <1>6 DEF Nodes!PrintLock, Nodes!GotoMain, Nodes!LockNode, NodesInv, Places
  <2>2. cur \in Node
    BY <1>0, <2>1
  <2>3. NodesTypeOK'
    BY <1>1, <2>1, Zenon DEF NodesInv, NodesTypeOK
  <2>4. Places'
    BY <1>0, <1>1, <2>1, <2>2 DEF NodesInv, NodesTypeOK, Places
  <2>5. HoldsOrRobbed'
    BY <2>1, <2>2 DEF HoldsOrRobbed, MainHolds, NodesInv, NodesTypeOK
  <2>. QED
    BY <1>2, <2>3, <2>4, <2>5 DEF NodesInv
<1>7. CASE Nodes!PrintNext
  <2>1. mainpc = "walk" /\ cur \in 1 .. n /\ cur' = cur - 1 /\ next[cur] = cur - 1
    BY <1>0, <1>7 DEF Nodes!PrintNext, NodesInv, Places, NodesTypeOK, InputOrder
  <2>2. /\ \A a \in Node : owner'[a] = IF a = cur THEN "free"
                                       ELSE IF a = cur - 1 THEN "main" ELSE owner[a]
        /\ cur > 1 => owner[cur - 1] = "free" /\ mainpc' = "walk"
        /\ cur = 1 => mainpc' = "read"
        /\ owner' \in [Node -> {"free", "main", "sort"}]
    <3>1. CASE cur = 1
      BY <1>7, <2>1, <3>1 DEF Nodes!PrintNext, Nodes!UnlockNodes, Node, NodesInv, NodesTypeOK
    <3>2. CASE cur > 1
      <4>1. next[cur] # 0 /\ cur - 1 \in Node
        BY <1>0, <2>1, <3>2
      <4>2. /\ owner[cur - 1] = "free" /\ mainpc' = "walk"
            /\ owner' = [owner EXCEPT ![cur - 1] = "main", ![cur] = "free"]
        BY <1>7, <2>1, <4>1 DEF Nodes!PrintNext
      <4>. QED
        BY <1>0, <2>1, <3>2, <4>2 DEF NodesInv, NodesTypeOK
    <3>. QED
      BY <2>1, <3>1, <3>2
  <2>3. owner[cur] = "main" \/ Robbed(cur)
    BY <1>0, <2>1 DEF NodesInv, HoldsOrRobbed, MainHolds
  <2>4. NodesTypeOK'
    BY <1>0, <1>1, <2>1, <2>2 DEF NodesInv, NodesTypeOK
  <2>5. Places'
    <3>1. /\ sortpc \in {"compare", "strcmp", "swapa", "swapb"} => current # cur /\ current # cur - 1
          /\ sortpc \in {"strcmp", "swapa", "swapb"} => current - 1 # cur /\ current - 1 # cur - 1
          /\ sortpc \in {"compare", "strcmp"} /\ prev_locked # 0 =>
               current + 1 # cur /\ current + 1 # cur - 1
      BY <1>0, <2>1, <2>2, <2>3 DEF NodesInv, Places, Robbed, NodesTypeOK
    <3>2. /\ sortpc \in {"compare", "strcmp", "swapa", "swapb"} => current \in Node
          /\ sortpc \in {"strcmp", "swapa", "swapb"} => current - 1 \in Node
          /\ sortpc \in {"compare", "strcmp"} /\ prev_locked # 0 => current + 1 \in Node
      BY <1>0 DEF NodesInv, Places, NodesTypeOK
    <3>3. /\ sortpc \in {"compare", "strcmp", "swapa", "swapb"} => owner'[current] = "sort"
          /\ sortpc \in {"strcmp", "swapa", "swapb"} => owner'[current - 1] = "sort"
          /\ sortpc \in {"compare", "strcmp"} /\ prev_locked # 0 => owner'[current + 1] = "sort"
      BY <2>2, <3>1, <3>2 DEF NodesInv, Places
    <3>. QED
      BY <1>0, <1>1, <2>1, <2>2, <3>3 DEF NodesInv, Places
  <2>6. HoldsOrRobbed'
    <3>1. CASE cur = 1
      BY <2>2, <3>1 DEF HoldsOrRobbed, MainHolds
    <3>2. CASE cur > 1
      <4>1. cur - 1 \in Node /\ cur - 1 # cur
        BY <1>0, <2>1, <3>2
      <4>2. owner'[cur'] = "main" /\ mainpc' = "walk"
        BY <2>1, <2>2, <3>2, <4>1
      <4>. QED
        BY <4>2 DEF HoldsOrRobbed, MainHolds
    <3>. QED
      BY <1>0, <2>1, <3>1, <3>2
  <2>. QED
    BY <1>2, <2>4, <2>5, <2>6 DEF NodesInv
<1>8. CASE Nodes!SetStop
  <2>1. mainpc' = "join" /\ UNCHANGED <<cur, owner>>
    BY <1>8 DEF Nodes!SetStop, Nodes!GotoMain
  <2>2. NodesTypeOK' /\ Places'
    BY <1>1, <2>1 DEF NodesInv, NodesTypeOK, Places
  <2>3. HoldsOrRobbed'
    BY <2>1 DEF HoldsOrRobbed, MainHolds
  <2>. QED
    BY <1>2, <2>2, <2>3 DEF NodesInv
<1>. QED
  BY <1>3, <1>4, <1>5, <1>6, <1>7, <1>8

\* add_to_head, with the head locked or robbed.
LEMMA NodesAddStep ==
  ASSUME NodesInv, Nodes!add_to_head
  PROVE  NodesInv'
<1>. USE DEF NULL, Nodes!NULL, Nodes!listVars, Nodes!sortVars, Nodes!lockVars, Nodes!mainVars
<1>0. /\ n \in 0 .. MaxNodes /\ n \in Nat /\ MaxNodes \in Nat /\ n < MaxNodes /\ n + 1 \in Node
      /\ \A a \in 1 .. n : a \in Node /\ a \in Nat /\ a # n + 1
  BY ListAssumption DEF NodesInv, NodesTypeOK, Node, Nodes!add_to_head, Nodes!new_node
<1>1. /\ mainpc = "link" /\ mainpc' = "linked" /\ n' = n + 1 /\ list = n /\ list' = n + 1
      /\ UNCHANGED <<cur, sortpc, owner, freed, target, prev_locked, current, end>>
      /\ next' = [next EXCEPT ![n + 1] = n]
      /\ prev' = IF n = 0 THEN prev ELSE [prev EXCEPT ![n] = n + 1]
  BY DEF Nodes!add_to_head, Nodes!new_node, Nodes!GotoMain, NodesInv, FreedSoFar
<1>2. NodesTypeOK'
  <2>1. n' \in 0 .. MaxNodes /\ n \in Ptr /\ n + 1 \in Ptr
    BY <1>0, <1>1 DEF Ptr, Node
  <2>2. next' \in [Node -> Ptr] /\ prev' \in [Node -> Ptr]
    BY <1>1, <2>1, Zenon DEF NodesInv, NodesTypeOK
  <2>3. list' \in 0 .. n' /\ cur' \in 0 .. n' /\ target' \in 0 .. n' /\ current' \in 0 .. n'
    BY <1>0, <1>1 DEF NodesInv, NodesTypeOK
  <2>. QED
    BY <1>1, <2>1, <2>3, Zenon DEF NodesInv, NodesTypeOK
<1>3. InputOrder'
  <2>1. ASSUME NEW a \in 1 .. n'
        PROVE  next'[a] = a - 1 /\ prev'[a] = IF a = n' THEN 0 ELSE a + 1
    <3>1. CASE a = n + 1
      <4>1. prev[n + 1] = 0 /\ n + 1 > n
        BY <1>0 DEF NodesInv, InputOrder
      <4>. QED
        BY <1>0, <1>1, <3>1, <4>1 DEF NodesInv, NodesTypeOK
    <3>2. CASE a # n + 1
      <4>1. a \in 1 .. n /\ a \in Node
        BY <1>0, <1>1, <3>2
      <4>2. next[a] = a - 1 /\ prev[a] = IF a = n THEN 0 ELSE a + 1
        BY <4>1 DEF NodesInv, InputOrder
      <4>3. n # 0 /\ n \in Node
        BY <1>0, <4>1
      <4>. QED
        BY <1>1, <3>2, <4>2, <4>3 DEF NodesInv, NodesTypeOK
    <3>. QED
      BY <3>1, <3>2
  <2>2. ASSUME NEW a \in Node, a > n' PROVE prev'[a] = 0
    <3>1. a > n /\ a # n
      BY <1>0, <1>1, <2>2 DEF Node
    <3>. QED
      BY <1>1, <3>1 DEF NodesInv, NodesTypeOK, InputOrder
  <2>. QED
    BY <2>1, <2>2 DEF InputOrder
<1>4. FreedSoFar' /\ Places'
  BY <1>0, <1>1 DEF NodesInv, FreedSoFar, Places, NodesTypeOK
<1>5. HoldsOrRobbed'
  <2>1. n # 0 => owner[n] = "main" \/ Robbed(n)
    BY <1>1 DEF NodesInv, HoldsOrRobbed, MainHolds
  <2>2. CASE n # 0 /\ owner[n] = "main"
    BY <1>0, <1>1, <2>2 DEF HoldsOrRobbed, MainHolds
  <2>3. CASE n # 0 /\ Robbed(n)
    <3>1. Robbed(n - 1)'
      BY <1>0, <1>1, <2>3 DEF Robbed
    <3>2. (MainHolds = n - 1)'
      BY <1>1 DEF MainHolds
    <3>. QED
      BY <3>1, <3>2 DEF HoldsOrRobbed
  <2>4. CASE n = 0
    BY <1>1, <2>4 DEF HoldsOrRobbed, MainHolds
  <2>. QED
    BY <2>1, <2>2, <2>3, <2>4
<1>. QED
  BY <1>2, <1>3, <1>4, <1>5 DEF NodesInv

\* The sorter before and after a pass.
LEMMA NodesSortOutside ==
  ASSUME NodesInv, \/ Nodes!SortTest \/ Nodes!Peek \/ Nodes!HeadLock \/ Nodes!Check
                   \/ Nodes!HeadUnlock \/ Nodes!Pass
  PROVE  NodesInv'
<1>. USE DEF NULL, Nodes!NULL, Nodes!listVars, Nodes!sortVars, Nodes!lockVars, Nodes!mainVars,
             Nodes!GotoSort
<1>0. /\ n \in 0 .. MaxNodes /\ n \in Nat /\ MaxNodes \in Nat
      /\ \A a \in 1 .. n : a \in Node /\ a \in Nat
  BY ListAssumption DEF NodesInv, NodesTypeOK, Node
<1>1. /\ UNCHANGED <<mainpc, cur, freed, n, list, next, prev>> /\ sortpc # "done"
      /\ mainpc \notin {"free", "exit"} /\ list = n
      /\ sortpc \in {"test", "peek", "headlock", "check", "headunlock", "pass"}
  BY DEF Nodes!SortTest, Nodes!Peek, Nodes!HeadLock, Nodes!Check, Nodes!HeadUnlock,
         Nodes!Pass, NodesInv, FreedSoFar
<1>2. InputOrder' /\ FreedSoFar'
  BY <1>1, NodesQuietStep
<1>3. /\ MainHolds' = MainHolds /\ (MainHolds # 0 => MainHolds \in 1 .. n /\ MainHolds \in Node)
      /\ HoldsOrRobbed
  BY <1>0, <1>1 DEF MainHolds, NodesInv, NodesTypeOK, Places
<1>4. CASE Nodes!SortTest
  <2>1. sortpc = "test" /\ sortpc' \in {"done", "peek"} /\ UNCHANGED <<owner, target, prev_locked,
                                                                       current>>
    BY <1>4 DEF Nodes!SortTest
  <2>2. NodesTypeOK' /\ Places'
    BY <1>1, <2>1 DEF NodesInv, NodesTypeOK, Places
  <2>3. HoldsOrRobbed'
    BY <1>3, <2>1 DEF HoldsOrRobbed, Robbed
  <2>. QED
    BY <1>2, <2>2, <2>3 DEF NodesInv
<1>5. CASE Nodes!Peek
  <2>1. /\ sortpc = "peek" /\ UNCHANGED <<owner, prev_locked, current>> /\ target' = n
        /\ sortpc' = IF n = 0 THEN "check" ELSE "headlock"
    BY <1>1, <1>5 DEF Nodes!Peek
  <2>2. NodesTypeOK' /\ Places'
    BY <1>0, <1>1, <2>1 DEF NodesInv, NodesTypeOK, Places
  <2>3. HoldsOrRobbed'
    <3>1. CASE MainHolds = 0
      BY <1>3, <3>1 DEF HoldsOrRobbed
    <3>2. CASE MainHolds # 0
      <4>1. owner[MainHolds] = "main" \/ Robbed(MainHolds)
        BY <3>2, <1>3 DEF HoldsOrRobbed
      <4>2. n # 0
        BY <1>3, <3>2
      <4>3. Robbed(MainHolds) => Robbed(MainHolds)'
        BY <1>1, <1>3, <2>1, <4>2 DEF Robbed
      <4>. QED
        BY <1>3, <2>1, <4>3 DEF HoldsOrRobbed
    <3>. QED
      BY <3>1, <3>2
  <2>. QED
    BY <1>2, <2>2, <2>3 DEF NodesInv
<1>6. CASE Nodes!HeadLock
  <2>1. /\ sortpc = "headlock" /\ sortpc' = "check" /\ UNCHANGED <<target, prev_locked, current>>
        /\ owner[target] = "free" /\ owner' = [owner EXCEPT ![target] = "sort"]
        /\ target \in Node
    BY <1>0, <1>6 DEF Nodes!HeadLock, Nodes!LockNode, NodesInv, NodesTypeOK, Places
  <2>2. NodesTypeOK' /\ Places'
    BY <1>0, <1>1, <2>1 DEF NodesInv, NodesTypeOK, Places
  <2>3. HoldsOrRobbed'
    <3>1. CASE MainHolds = 0
      BY <1>3, <3>1 DEF HoldsOrRobbed
    <3>2. CASE MainHolds # 0
      <4>1. owner[MainHolds] = "main" \/ Robbed(MainHolds)
        BY <3>2, <1>3 DEF HoldsOrRobbed
      <4>2. owner[MainHolds] = "main" => owner'[MainHolds] = "main"
        BY <1>3, <2>1 DEF NodesInv, NodesTypeOK
      <4>3. owner'[target'] = "sort"
        BY <2>1 DEF NodesInv, NodesTypeOK
      <4>4. Robbed(MainHolds) => Robbed(MainHolds)'
        BY <1>1, <1>3, <2>1, <4>3 DEF Robbed
      <4>. QED
        BY <1>3, <4>2, <4>4 DEF HoldsOrRobbed
    <3>. QED
      BY <3>1, <3>2
  <2>. QED
    BY <1>2, <2>2, <2>3 DEF NodesInv
<1>7. CASE Nodes!Check
  <2>1. /\ sortpc = "check" /\ UNCHANGED <<owner, target, prev_locked, current>>
        /\ \/ sortpc' = "headunlock"
           \/ sortpc' = "pass" /\ end' = 0 /\ list # 0 /\ next[list] # 0
    BY <1>7 DEF Nodes!Check
  <2>2. sortpc' = "pass" => n >= 2
    BY <1>0, <1>1, <2>1 DEF NodesInv, InputOrder
  <2>3. NodesTypeOK' /\ Places'
    BY <1>1, <2>1, <2>2 DEF NodesInv, NodesTypeOK, Places
  <2>4. HoldsOrRobbed'
    <3>1. CASE MainHolds = 0
      BY <1>3, <3>1 DEF HoldsOrRobbed
    <3>2. CASE MainHolds # 0
      <4>1. owner[MainHolds] = "main" \/ Robbed(MainHolds)
        BY <3>2, <1>3 DEF HoldsOrRobbed
      <4>2. Robbed(MainHolds) => Robbed(MainHolds)'
        BY <1>1, <1>3, <2>1 DEF Robbed
      <4>. QED
        BY <1>3, <2>1, <4>2 DEF HoldsOrRobbed
    <3>. QED
      BY <3>1, <3>2
  <2>. QED
    BY <1>2, <2>3, <2>4 DEF NodesInv
<1>8. CASE Nodes!HeadUnlock
  <2>1. /\ sortpc = "headunlock" /\ sortpc' = "peek" /\ UNCHANGED <<target, prev_locked, current>>
        /\ owner' = [a \in Node |-> IF a = n THEN "free" ELSE owner[a]]
    BY <1>1, <1>8 DEF Nodes!HeadUnlock, Nodes!UnlockNodes, Nodes!Node, Node
  <2>2. NodesTypeOK' /\ Places'
    BY <1>1, <2>1 DEF NodesInv, NodesTypeOK, Places
  <2>3. HoldsOrRobbed'
    <3>1. CASE MainHolds = 0
      BY <1>3, <3>1 DEF HoldsOrRobbed
    <3>2. CASE MainHolds # 0
      <4>1. owner[MainHolds] = "main" \/ Robbed(MainHolds)
        BY <3>2, <1>3 DEF HoldsOrRobbed
      <4>2. Robbed(MainHolds) => Robbed(MainHolds)'
        BY <1>1, <1>3, <2>1 DEF Robbed
      <4>3. CASE MainHolds = n
        BY <1>0, <1>1, <1>3, <2>1 DEF HoldsOrRobbed, Robbed
      <4>4. CASE MainHolds # n
        <5>1. owner'[MainHolds] = owner[MainHolds]
          BY <1>3, <2>1, <3>2, <4>4
        <5>. QED
          BY <1>3, <4>2, <5>1 DEF HoldsOrRobbed
      <4>. QED
        BY <4>3, <4>4
    <3>. QED
      BY <3>1, <3>2
  <2>. QED
    BY <1>2, <2>2, <2>3 DEF NodesInv
<1>9. CASE Nodes!Pass
  <2>1. /\ sortpc = "pass" /\ sortpc' = "first" /\ UNCHANGED <<owner, target, end>>
        /\ current' = n /\ prev_locked' = 0
    BY <1>1, <1>9 DEF Nodes!Pass
  <2>2. NodesTypeOK' /\ Places'
    BY <1>0, <1>1, <2>1 DEF NodesInv, NodesTypeOK, Places
  <2>3. HoldsOrRobbed'
    <3>1. CASE MainHolds = 0
      BY <1>3, <3>1 DEF HoldsOrRobbed
    <3>2. CASE MainHolds # 0
      <4>1. owner[MainHolds] = "main" \/ Robbed(MainHolds)
        BY <3>2, <1>3 DEF HoldsOrRobbed
      <4>2. Robbed(MainHolds) => Robbed(MainHolds)'
        BY <1>1, <1>3, <2>1 DEF Robbed
      <4>. QED
        BY <1>3, <2>1, <4>2 DEF HoldsOrRobbed
    <3>. QED
      BY <3>1, <3>2
  <2>. QED
    BY <1>2, <2>2, <2>3 DEF NodesInv
<1>. QED
  BY <1>4, <1>5, <1>6, <1>7, <1>8, <1>9

\* The sorter in a pass: it locks a node that is free, and gives back its own.
LEMMA NodesSortInside ==
  ASSUME NodesInv, \/ Nodes!LockFirst \/ Nodes!LockNext \/ Nodes!Strcmp \/ Nodes!SwapLockPrev
                   \/ Nodes!PassEnd
  PROVE  NodesInv'
<1>. USE DEF NULL, Nodes!NULL, Nodes!listVars, Nodes!sortVars, Nodes!lockVars, Nodes!mainVars,
             Nodes!GotoSort
<1>0. /\ n \in 0 .. MaxNodes /\ n \in Nat /\ MaxNodes \in Nat
      /\ \A a \in 1 .. n : a \in Node /\ a \in Nat
  BY ListAssumption DEF NodesInv, NodesTypeOK, Node
<1>1. /\ UNCHANGED <<mainpc, cur, freed, n, list, next, prev, target>> /\ sortpc # "done"
      /\ mainpc \notin {"free", "exit"} /\ list = n
      /\ sortpc \in {"first", "compare", "strcmp", "swapa", "swapb"} /\ current \in 1 .. n
      /\ current \in Node /\ next[current] = current - 1 /\ n >= 2
      /\ prev[current] = IF current = n THEN 0 ELSE current + 1
  BY <1>0 DEF Nodes!LockFirst, Nodes!LockNext, Nodes!Strcmp, Nodes!SwapLockPrev, Nodes!PassEnd,
              NodesInv, NodesTypeOK, FreedSoFar, Places, InputOrder
<1>2. InputOrder' /\ FreedSoFar'
  BY <1>1, NodesQuietStep
<1>3. /\ MainHolds' = MainHolds /\ (MainHolds # 0 => MainHolds \in 1 .. n /\ MainHolds \in Node)
      /\ MainHolds # 0 => owner[MainHolds] = "main" \/ Robbed(MainHolds)
  BY <1>0, <1>1 DEF MainHolds, NodesInv, NodesTypeOK, Places, HoldsOrRobbed
<1>4. ASSUME NEW a \in Node, owner[a] = "free", owner' = [owner EXCEPT ![a] = "sort"]
      PROVE  /\ owner' \in [Node -> {"free", "main", "sort"}] /\ owner'[a] = "sort"
             /\ \A b \in Node : owner[b] \in {"main", "sort"} => owner'[b] = owner[b]
  BY <1>4 DEF NodesInv, NodesTypeOK
<1>5. CASE Nodes!LockFirst
  <2>1. /\ sortpc = "first" /\ sortpc' = "compare" /\ UNCHANGED <<prev_locked, current, end>>
        /\ owner[current] = "free" /\ owner' = [owner EXCEPT ![current] = "sort"]
    BY <1>5 DEF Nodes!LockFirst, Nodes!LockNode
  <2>2. /\ owner' \in [Node -> {"free", "main", "sort"}] /\ owner'[current] = "sort"
        /\ \A b \in Node : owner[b] \in {"main", "sort"} => owner'[b] = owner[b]
    BY <1>1, <1>4, <2>1, ZenonT(30)
  <2>3. NodesTypeOK'
    BY <1>1, <2>1 DEF NodesInv, NodesTypeOK
  <2>4. Places'
    BY <1>1, <2>1, <2>2 DEF NodesInv, Places
  <2>5. HoldsOrRobbed'
    <3>1. ASSUME MainHolds # 0, Robbed(MainHolds) PROVE Robbed(MainHolds)'
      <4>1. n \in Node
        BY <1>0, <1>1
      <4>2. owner[MainHolds] = "sort" /\ current = n /\ MainHolds # n
        BY <2>1, <3>1 DEF Robbed
      <4>3. owner'[MainHolds] = "sort"
        BY <1>3, <2>2, <3>1, <4>2
      <4>. QED
        BY <1>1, <1>3, <2>1, <3>1 DEF Robbed
    <3>2. MainHolds # 0 /\ owner[MainHolds] = "main" => owner'[MainHolds] = "main"
      BY <1>3, <2>2
    <3>. QED
      BY <1>3, <3>1, <3>2 DEF HoldsOrRobbed
  <2>. QED
    BY <1>2, <2>3, <2>4, <2>5 DEF NodesInv
<1>6. CASE Nodes!LockNext
  <2>1. /\ sortpc = "compare" /\ sortpc' = "strcmp" /\ UNCHANGED <<prev_locked, current, end>>
        /\ current - 1 # 0 /\ owner[current - 1] = "free"
        /\ owner' = [owner EXCEPT ![current - 1] = "sort"]
    BY <1>1, <1>6 DEF Nodes!LockNext, Nodes!LockNode, NodesInv, Places
  <2>2. current - 1 \in Node /\ current >= 2
    BY <1>0, <1>1, <2>1
  <2>3. /\ owner' \in [Node -> {"free", "main", "sort"}] /\ owner'[current - 1] = "sort"
        /\ \A b \in Node : owner[b] \in {"main", "sort"} => owner'[b] = owner[b]
    BY <1>4, <2>1, <2>2, Zenon
  <2>4. NodesTypeOK'
    BY <1>1, <2>1, Zenon DEF NodesInv, NodesTypeOK
  <2>5. Places'
    <3>1. prev_locked # 0 => current + 1 \in Node
      BY <1>0, <1>1, <2>1 DEF NodesInv, Places
    <3>. QED
      BY <1>0, <1>1, <2>1, <2>2, <2>3 DEF NodesInv, Places
  <2>6. HoldsOrRobbed'
    <3>1. ASSUME MainHolds # 0 PROVE ~Robbed(MainHolds)
      <4>. SUFFICES ASSUME Robbed(MainHolds) PROVE FALSE
        OBVIOUS
      <4>1. /\ current = n /\ owner[MainHolds] = "sort" /\ MainHolds # n
            /\ MainHolds >= n - 1
        BY <2>1 DEF Robbed
      <4>2. MainHolds = current - 1
        BY <1>0, <1>3, <4>1
      <4>. QED
        BY <2>1, <4>1, <4>2
    <3>2. MainHolds # 0 => owner'[MainHolds] = "main"
      BY <1>3, <2>3, <3>1
    <3>. QED
      BY <1>3, <3>2 DEF HoldsOrRobbed
  <2>. QED
    BY <1>2, <2>4, <2>5, <2>6 DEF NodesInv
<1>7. CASE Nodes!Strcmp
  <2>1. /\ sortpc = "strcmp" /\ UNCHANGED end
        /\ owner' = [a \in Node |-> IF a = prev_locked THEN "free" ELSE owner[a]]
        /\ \/ sortpc' = "swapa" /\ UNCHANGED <<prev_locked, current>>
           \/ sortpc' = "compare" /\ prev_locked' = current /\ current' = current - 1
    BY <1>1, <1>7 DEF Nodes!Strcmp, Nodes!UnlockNodes, Nodes!Node, Node
  <2>2. /\ current >= 2 /\ current - 1 \in Node /\ owner[current] = "sort"
        /\ owner[current - 1] = "sort"
        /\ prev_locked # 0 => prev_locked = current + 1 /\ prev_locked \in Node
                              /\ owner[prev_locked] = "sort"
    BY <1>0, <1>1, <2>1 DEF NodesInv, Places
  <2>3. owner'[current] = "sort" /\ owner'[current - 1] = "sort"
    BY <1>1, <2>1, <2>2
  <2>4. NodesTypeOK'
    BY <1>0, <1>1, <2>1, <2>2 DEF NodesInv, NodesTypeOK
  <2>5. Places'
    BY <1>0, <1>1, <2>1, <2>2, <2>3 DEF NodesInv, Places
  <2>6. HoldsOrRobbed'
    <3>1. MainHolds # 0 => owner[MainHolds] = "main"
      BY <1>3, <2>1 DEF Robbed
    <3>2. MainHolds # 0 => owner'[MainHolds] = "main"
      BY <1>3, <2>1, <2>2, <3>1
    <3>. QED
      BY <1>3, <3>2 DEF HoldsOrRobbed
  <2>. QED
    BY <1>2, <2>4, <2>5, <2>6 DEF NodesInv
<1>8. CASE Nodes!SwapLockPrev
  <2>1. /\ sortpc = "swapa" /\ sortpc' = "swapb" /\ UNCHANGED <<prev_locked, current, end>>
        /\ \/ owner' = owner
           \/ /\ current # n /\ owner[current + 1] = "free"
              /\ owner' = [owner EXCEPT ![current + 1] = "sort"]
    BY <1>1, <1>8 DEF Nodes!SwapLockPrev, Nodes!LockNode
  <2>2. /\ owner' \in [Node -> {"free", "main", "sort"}]
        /\ \A b \in Node : owner[b] \in {"main", "sort"} => owner'[b] = owner[b]
    <3>1. current # n => current + 1 \in Node
      BY <1>0, <1>1
    <3>2. CASE owner' = owner
      BY <3>2 DEF NodesInv, NodesTypeOK
    <3>. QED
      BY <1>4, <2>1, <3>1, <3>2
  <2>3. NodesTypeOK'
    BY <1>1, <2>1 DEF NodesInv, NodesTypeOK
  <2>4. Places'
    <3>1. current >= 2 /\ current - 1 \in Node /\ owner[current] = "sort" /\ owner[current - 1] = "sort"
      BY <1>0, <1>1, <2>1 DEF NodesInv, Places
    <3>2. owner'[current] = "sort" /\ owner'[current - 1] = "sort"
      BY <1>1, <2>2, <3>1
    <3>. QED
      BY <1>1, <2>1, <3>2 DEF NodesInv, Places
  <2>5. HoldsOrRobbed'
    <3>1. MainHolds # 0 => owner[MainHolds] = "main"
      BY <1>3, <2>1 DEF Robbed
    <3>2. MainHolds # 0 => owner'[MainHolds] = "main"
      BY <1>3, <2>2, <3>1
    <3>. QED
      BY <1>3, <3>2 DEF HoldsOrRobbed
  <2>. QED
    BY <1>2, <2>3, <2>4, <2>5 DEF NodesInv
<1>9. CASE Nodes!PassEnd
  <2>1. /\ sortpc = "compare" /\ sortpc' = "test" /\ current - 1 = 0
        /\ UNCHANGED <<prev_locked, current>>
        /\ owner' = [a \in Node |-> IF a \in {current, prev_locked} THEN "free" ELSE owner[a]]
    BY <1>1, <1>9 DEF Nodes!PassEnd, Nodes!UnlockNodes, Nodes!Node, Node, NodesInv, Places
  <2>2. /\ owner[current] = "sort"
        /\ prev_locked # 0 => prev_locked \in Node /\ owner[prev_locked] = "sort"
    BY <1>0, <2>1 DEF NodesInv, Places
  <2>3. NodesTypeOK'
    BY <1>1, <2>1 DEF NodesInv, NodesTypeOK
  <2>4. Places'
    BY <1>1, <2>1 DEF NodesInv, Places
  <2>5. HoldsOrRobbed'
    <3>1. MainHolds # 0 => owner[MainHolds] = "main"
      BY <1>0, <1>3, <2>1 DEF Robbed
    <3>2. MainHolds # 0 => owner'[MainHolds] = "main"
      BY <1>3, <2>1, <2>2, <3>1
    <3>. QED
      BY <1>3, <3>2 DEF HoldsOrRobbed
  <2>. QED
    BY <1>2, <2>3, <2>4, <2>5 DEF NodesInv
<1>. QED
  BY <1>5, <1>6, <1>7, <1>8, <1>9

\* Every step of the program preserves the invariant.
LEMMA NodesStep ==
  ASSUME NodesInv, [Nodes!Next]_(Nodes!vars)
  PROVE  NodesInv'
<1>. USE DEF NULL, Nodes!NULL, Nodes!listVars, Nodes!sortVars, Nodes!lockVars, Nodes!mainVars
<1>0. /\ n \in 0 .. MaxNodes /\ n \in Nat /\ MaxNodes \in Nat /\ list \in 0 .. n
  BY ListAssumption DEF NodesInv, NodesTypeOK
<1>1. CASE Nodes!Join
  <2>1. /\ mainpc = "join" /\ mainpc' = "free" /\ sortpc = "done"
        /\ UNCHANGED <<cur, sortpc, owner, freed, target, prev_locked, n, list, next, prev,
                       current, end>>
    BY <1>1 DEF Nodes!Join, Nodes!GotoMain
  <2>2. list = n /\ freed = {} /\ list + 1 .. n = {}
    BY <1>0, <2>1 DEF NodesInv, FreedSoFar
  <2>3. NodesTypeOK' /\ InputOrder' /\ Places'
    BY <2>1 DEF NodesInv, NodesTypeOK, InputOrder, Places
  <2>4. FreedSoFar' /\ HoldsOrRobbed'
    BY <2>1, <2>2 DEF FreedSoFar, HoldsOrRobbed, MainHolds
  <2>. QED
    BY <2>3, <2>4 DEF NodesInv
<1>2. CASE Nodes!list_free
  <2>1. /\ mainpc = "free" /\ sortpc = "done"
        /\ UNCHANGED <<cur, sortpc, owner, target, prev_locked, n, next, prev, current, end>>
        /\ \/ list = 0 /\ mainpc' = "exit" /\ UNCHANGED <<freed, list>>
           \/ list # 0 /\ mainpc' = "free" /\ freed' = freed \union {list} /\ list' = list - 1
    BY <1>0, <1>2 DEF Nodes!list_free, NodesInv, FreedSoFar, InputOrder
  <2>2. list' \in 0 .. n /\ mainpc' \in {"free", "exit"} /\ (mainpc' = "exit" => list' = 0)
    BY <1>0, <2>1
  <2>3. freed' = list' + 1 .. n
    <3>1. freed = list + 1 .. n
      BY <2>1 DEF NodesInv, FreedSoFar
    <3>2. CASE list = 0
      BY <2>1, <3>1, <3>2
    <3>3. CASE list # 0
      <4>1. freed' = freed \union {list} /\ list' = list - 1
        BY <2>1, <3>3
      <4>2. list' + 1 .. n = (list + 1 .. n) \union {list}
        BY <1>0, <3>3, <4>1
      <4>. QED
        BY <3>1, <4>1, <4>2
    <3>. QED
      BY <3>2, <3>3
  <2>4. NodesTypeOK' /\ InputOrder' /\ Places'
    BY <2>1, <2>2 DEF NodesInv, NodesTypeOK, InputOrder, Places
  <2>5. FreedSoFar' /\ HoldsOrRobbed'
    BY <2>1, <2>3 DEF FreedSoFar, HoldsOrRobbed, MainHolds
  <2>. QED
    BY <2>4, <2>5 DEF NodesInv
<1>3. CASE Nodes!Crash
  <2>1. /\ mainpc' = "crash" /\ sortpc = "strcmp" /\ mainpc \notin {"free", "exit"}
        /\ UNCHANGED <<cur, sortpc, owner, freed, target, prev_locked, n, list, next, prev,
                       current, end>>
    BY <1>3 DEF Nodes!Crash, NodesInv, FreedSoFar
  <2>2. NodesTypeOK' /\ InputOrder'
    BY <2>1 DEF NodesInv, NodesTypeOK, InputOrder
  <2>3. Places'
    BY <2>1 DEF NodesInv, Places
  <2>4. FreedSoFar' /\ HoldsOrRobbed'
    BY <2>1 DEF NodesInv, FreedSoFar, HoldsOrRobbed, MainHolds
  <2>. QED
    BY <2>2, <2>3, <2>4 DEF NodesInv
<1>4. CASE UNCHANGED Nodes!vars
  <2>1. UNCHANGED <<mainpc, cur, sortpc, owner, freed, target, prev_locked, n, list, next, prev,
                    current, end>>
    BY <1>4 DEF Nodes!vars
  <2>2. NodesTypeOK' /\ InputOrder'
    BY <2>1 DEF NodesInv, NodesTypeOK, InputOrder
  <2>3. FreedSoFar'
    BY <2>1 DEF NodesInv, FreedSoFar
  <2>4. Places'
    BY <2>1 DEF NodesInv, Places
  <2>5. HoldsOrRobbed'
    BY <2>1 DEF NodesInv, HoldsOrRobbed, MainHolds, Robbed
  <2>. QED
    BY <2>2, <2>3, <2>4, <2>5 DEF NodesInv
<1>. QED
  BY <1>1, <1>2, <1>3, <1>4, NodesMainStep, NodesAddStep, NodesSortOutside, NodesSortInside
     DEF Nodes!Next, Nodes!main, Nodes!bubble_sort_mt

\* In every state of the invariant the list is in the order of the input.
LEMMA NodesInvHolds == NodesInv => Nodes!NeverSwaps /\ Nodes!AllFreed
<1>. SUFFICES ASSUME NodesInv PROVE Nodes!NeverSwaps /\ Nodes!AllFreed
  OBVIOUS
<1>. USE DEF NULL, Nodes!NULL
<1>0. n \in 0 .. MaxNodes /\ n \in Nat /\ current \in 0 .. n
  BY ListAssumption DEF NodesInv, NodesTypeOK
<1>1. sortpc \in {"swapa", "swapb"} => owner[current] = "sort" /\ owner[next[current]] = "sort"
  BY <1>0 DEF NodesInv, Places, InputOrder
<1>2. \A a \in 1 .. n : next[a] = a - 1
  BY DEF NodesInv, InputOrder
<1>3. ASSUME mainpc \notin {"free", "exit"} PROVE Nodes!OneChain
  <2>0. list = n
    BY <1>3 DEF NodesInv, FreedSoFar
  <2>1. CASE n = 0
    BY <2>0, <2>1 DEF Nodes!OneChain
  <2>2. CASE n > 0
    <3>. DEFINE s == [k \in 1 .. n |-> n + 1 - k]
    <3>1. \A k \in 1 .. n : s[k] = n + 1 - k /\ n + 1 - k \in 1 .. n
      BY <1>0
    <3>2. s \in [1 .. n -> 1 .. n]
      BY <1>0
    <3>. HIDE DEF s
    <3>3. 1 \in 1 .. n /\ n \in 1 .. n /\ s[1] = n /\ s[n] = 1
      BY <1>0, <2>2, <3>1
    <3>4. list = s[1] /\ prev[s[1]] = 0 /\ next[s[n]] = 0
      BY <1>2, <2>0, <3>3 DEF NodesInv, InputOrder
    <3>5. ASSUME NEW k \in 1 .. n - 1 PROVE next[s[k]] = s[k + 1] /\ prev[s[k + 1]] = s[k]
      <4>1. /\ k \in 1 .. n /\ k + 1 \in 1 .. n /\ s[k] = n + 1 - k /\ s[k + 1] = n + 1 - (k + 1)
            /\ n + 1 - k \in 1 .. n /\ n + 1 - (k + 1) \in 1 .. n
        BY <1>0, <3>1
      <4>2. /\ (n + 1 - k) - 1 = n + 1 - (k + 1) /\ n + 1 - (k + 1) # n
            /\ (n + 1 - (k + 1)) + 1 = n + 1 - k
        BY <1>0
      <4>3. next[n + 1 - k] = (n + 1 - k) - 1 /\ prev[n + 1 - (k + 1)] = (n + 1 - (k + 1)) + 1
        BY <4>1, <4>2 DEF NodesInv, InputOrder
      <4>. QED
        BY <4>1, <4>2, <4>3
    <3>6. {s[k] : k \in 1 .. n} = 1 .. n
      <4>1. ASSUME NEW a \in 1 .. n PROVE \E k \in 1 .. n : s[k] = a
        <5>1. n + 1 - a \in 1 .. n /\ s[n + 1 - a] = a
          BY <1>0, <3>1
        <5>. QED
          BY <5>1
      <4>. QED
        BY <3>1, <4>1
    <3>. QED
      BY <2>2, <3>2, <3>4, <3>5, <3>6, ZenonT(30) DEF Nodes!OneChain, Nodes!IsChain, Nodes!Allocated
  <2>. QED
    BY <1>0, <2>1, <2>2
<1>4. Nodes!NeverSwaps
  BY <1>1, <1>2, <1>3 DEF Nodes!NeverSwaps, Nodes!Allocated
<1>5. Nodes!AllFreed
  BY DEF NodesInv, FreedSoFar, Nodes!AllFreed, Nodes!Allocated
<1>. QED
  BY <1>4, <1>5

-------------------------------------------------------------------------------
\* The four programs side by side.
ListsInv ==
  /\ program \in {"mutex", "cond", "rw", "nodes"}
  /\ program = "mutex" => MutexInv
  /\ program = "cond" => CondInv
  /\ program = "rw" => RwInv
  /\ program = "nodes" => NodesInv

\* The invariant of the program that runs holds.
THEOREM ListsInvariant == MCSpec => []ListsInv
<1>1. MCInit => ListsInv
  BY InitMutexInv, InitCondInv, InitRwInv, InitNodesInv DEF MCInit, ListsInv
<1>2. ListsInv /\ [MCNext]_MCVars => ListsInv'
  <2>. SUFFICES ASSUME ListsInv, [MCNext]_MCVars PROVE ListsInv'
    OBVIOUS
  <2>1. program' = program
    BY DEF MCNext, MCVars
  <2>2. CASE program = "mutex"
    <3>1. [Next]_vars
      BY <2>2 DEF MCNext, MCVars
    <3>. QED
      BY <2>1, <2>2, <3>1, MutexStep DEF ListsInv
  <2>3. CASE program = "cond"
    <3>1. [Cond!Next]_(Cond!vars)
      BY <2>3 DEF MCNext, MCVars, vars, listVars, sortVars, condVars, Cond!vars, Cond!listVars,
         Cond!sortVars
    <3>. QED
      BY <2>1, <2>3, <3>1, CondStep DEF ListsInv
  <2>4. CASE program = "rw"
    <3>1. [Rw!Next]_(Rw!vars)
      BY <2>4 DEF MCNext, MCVars, vars, listVars, sortVars, rwVars, Rw!vars, Rw!listVars,
         Rw!sortVars
    <3>. QED
      BY <2>1, <2>4, <3>1, RwStep DEF ListsInv
  <2>5. CASE program = "nodes"
    <3>1. [Nodes!Next]_(Nodes!vars)
      BY <2>5 DEF MCNext, MCVars, vars, listVars, sortVars, nodeVars, Nodes!vars, Nodes!mainVars,
         Nodes!lockVars,
                   Nodes!listVars, Nodes!sortVars
    <3>. QED
      BY <2>1, <2>5, <3>1, NodesStep DEF ListsInv
  <2>. QED
    BY <2>2, <2>3, <2>4, <2>5 DEF ListsInv
<1>. QED
  BY <1>1, <1>2, PTL DEF MCSpec

\* For any number of lines: whatever the lock, bubble_sort_mt and the functions that add a
\* line keep the list one chain of all lines and the sort inside it, with the read-write
\* lock until an add_to_head overlaps a move of the head; with a mutex in every node no
\* line is ever moved.
THEOREM ListStaysAChain == MCSpec => []ChainKept
<1>1. ListsInv => ChainKept
  BY MutexInvHolds, CondInvHolds, RwInvHolds, NodesInvHolds DEF ListsInv, ChainKept
<1>. QED
  BY <1>1, ListsInvariant, PTL

\* For any number of lines: bubble_sort_mt returns the mutex with the lines in order.
THEOREM UnlockedListIsSorted == MCSpec => []SortedAtUnlock
<1>1. ListsInv => SortedAtUnlock
  BY MutexInvHolds, CondInvHolds DEF ListsInv, SortedAtUnlock
<1>. QED
  BY <1>1, ListsInvariant, PTL

\* For any number of lines: list_free gives back every node, except those that the race of
\* the read-write lock has lost.
THEOREM EveryNodeIsFreed == MCSpec => []AllFreedAtExit
<1>1. ListsInv => AllFreedAtExit
  BY MutexInvHolds, RwInvHolds, NodesInvHolds DEF ListsInv, AllFreedAtExit
<1>. QED
  BY <1>1, ListsInvariant, PTL
===============================================================================
