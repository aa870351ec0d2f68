----------------------------- MODULE RwListProofs -----------------------------
(*****************************************************************************)
(* The invariant of the program of problem 3 with the read-write lock.       *)
(*****************************************************************************)
EXTENDS MCSortedLists, ListWalkProofs

RwTypeOK ==
  /\ mainpc \in {"read", "lock", "work", "prev", "head", "unlock", "stop", "join", "free", "exit", "crash"}
  /\ sortpc \in {"test", "check", "pass", "compare", "sethead", "swap", "swaphead", "done"}
  /\ n \in 0 .. MaxNodes /\ list \in Ptr /\ next \in [Node -> Ptr]
  /\ prev \in [Node -> 0 .. n] /\ \A a \in Node : a > n => prev[a] = NULL
  /\ is_swapped \in BOOLEAN /\ raced \in BOOLEAN

\* The nodes that add_to_head is not working on.
Linkable == IF mainpc \in {"prev", "head"} THEN n - 1 ELSE n

RwGuards ==
  /\ mainpc \in {"work", "prev", "head"} => lock = "main"
  /\ mainpc = "prev" => list # NULL
  /\ mainpc \in {"prev", "head"} => n >= 1 /\ prev[n] = NULL
  /\ mainpc \in {"free", "exit"} => sortpc = "done"
  /\ mainpc \notin {"free", "exit"} => freed = {}
  /\ ~raced => ~(mainpc \in {"prev", "head"} /\ sortpc \in {"sethead", "swaphead"})
  /\ sortpc = "swaphead" => current \in 1 .. Linkable

\* The way from list, raced or not.
RwWay ==
  mainpc \notin {"free", "exit"} =>
    \E P \in SUBSET (1 .. Linkable), f \in Rank :
      Walk(P, f, list, next, prev, sortpc, current, end, next_node, is_swapped)

\* The node that becomes the head leads to the list, or, when the head is moved past
\* current meanwhile, goes a way of its own.
RwPending ==
  mainpc \in {"prev", "head"} =>
    IF sortpc = "swaphead"
      THEN /\ next[n] = list \/ list = next_node
           /\ \E P \in SUBSET (1 .. n), f \in Rank :
                Walk(P, f, n, next, prev, sortpc, current, end, next_node, is_swapped)
      ELSE next[n] = list /\ \A a \in 1 .. n - 1 : prev[a] = n => a = list

\* Until a race all nodes are linked in an order s; the head is ahead of a swap of it.
RwWhole ==
  ~raced /\ mainpc \notin {"free", "exit", "crash"} =>
    \E s \in [1 .. Linkable -> 1 .. Linkable] :
      /\ Perm(s, Linkable)
      /\ Linked(s, Linkable, next,
                IF mainpc = "head" /\ list # NULL THEN [prev EXCEPT ![list] = NULL] ELSE prev)
      /\ mainpc = "head" /\ list # NULL => prev[list] = n
      /\ list = At(s, Linkable, IF sortpc = "swaphead" THEN 2 ELSE 1)
      /\ sortpc \in {"sethead", "swaphead"} =>
           Linkable >= 2 /\ current = s[1] /\ next_node = s[2]

\* list_free, at place p.
RwFreeing ==
  mainpc \in {"free", "exit"} /\ ~raced =>
    \E s \in Order :
      /\ Perm(s, n) /\ Linked(s, n, next, prev)
      /\ \E p \in 1 .. n + 1 : /\ list = At(s, n, p) /\ freed = {s[k] : k \in 1 .. p - 1}
                               /\ mainpc = "exit" => p = n + 1

RwInv == RwTypeOK /\ RwGuards /\ RwWay /\ RwPending /\ RwWhole /\ RwFreeing

-------------------------------------------------------------------------------

\* No node, and nobody has begun.
LEMMA InitRwInv == Rw!Init => RwInv
<1>. SUFFICES ASSUME Rw!Init PROVE RwInv
  OBVIOUS
<1>1. /\ n = 0 /\ list = NULL /\ freed = {} /\ sortpc = "test" /\ mainpc = "read" /\ raced = FALSE
      /\ next = [a \in Node |-> NULL] /\ prev = [a \in Node |-> NULL] /\ is_swapped = FALSE
      /\ current = NULL /\ end = NULL /\ next_node = NULL
  BY DEF Rw!Init, Rw!NodesInit, Rw!Node, Node, Rw!NULL, NULL
<1>2. MaxNodes \in Nat /\ NULL \in Ptr /\ 0 \in 0 .. MaxNodes /\ NULL \in 0 .. 0
  BY ListAssumption DEF Ptr, NULL
<1>3. RwTypeOK
  BY <1>1, <1>2, Zenon DEF RwTypeOK
<1>4. RwGuards /\ RwPending /\ RwFreeing
  BY <1>1 DEF RwGuards, RwPending, RwFreeing
<1>5. RwWay
  <2>. DEFINE f == [a \in Node |-> 0]
  <2>1. {} \in SUBSET (1 .. Linkable) /\ f \in Rank
    BY DEF Rank
  <2>2. Walk({}, f, list, next, prev, sortpc, current, end, next_node, is_swapped)
    BY <1>1 DEF Walk, Way, Back, Sorting
  <2>. HIDE DEF f
  <2>. QED
    BY <2>1, <2>2 DEF RwWay
<1>6. RwWhole
  <2>. DEFINE s == [k \in 1 .. 0 |-> k]
  <2>1. Perm(s, 0) /\ Linked(s, 0, next, prev) /\ At(s, 0, 1) = NULL
    BY EmptyChain
  <2>2. Linkable = 0 /\ s \in [1 .. 0 -> 1 .. 0]
    BY <1>1 DEF Linkable
  <2>. HIDE DEF s
  <2>. QED
    BY <1>1, <2>1, <2>2, ZenonT(30) DEF RwWhole
<1>. QED
  BY <1>3, <1>4, <1>5, <1>6 DEF RwInv

\* Steps that leave the list and the sorter as they are.
LEMMA RwQuietStep ==
  ASSUME RwInv, UNCHANGED <<sortpc, freed, next_node, raced, n, list, next, prev, current, end,
                            is_swapped>>,
         mainpc \notin {"prev", "head", "free", "exit", "crash"},
         mainpc' \in {"read", "lock", "work", "unlock", "stop", "join"},
         mainpc' = "work" => lock' = "main"
  PROVE  RwInv'
<1>0. Linkable' = Linkable
  BY DEF Linkable
<1>1. RwTypeOK' /\ RwGuards'
  BY <1>0 DEF RwInv, RwTypeOK, RwGuards
<1>2. RwWay'
  BY <1>0 DEF RwInv, RwWay
<1>3. RwPending' /\ RwFreeing'
  BY DEF RwPending, RwFreeing
<1>4. RwWhole'
  BY <1>0 DEF RwInv, RwWhole
<1>. QED
  BY <1>1, <1>2, <1>3, <1>4 DEF RwInv

\* node->next = *list
LEMMA RwAddNext ==
  ASSUME RwInv, Rw!AddNext
  PROVE  RwInv'
<1>. USE DEF Rw!NULL, Rw!sortVars
<1>0. /\ n \in 0 .. MaxNodes /\ n \in Nat /\ MaxNodes \in Nat /\ n < MaxNodes
      /\ n + 1 \in Node /\ n + 1 # NULL /\ (n + 1) - 1 = n /\ n + 1 > n /\ n + 1 \notin 1 .. n
      /\ 1 .. n \subseteq Node /\ n + 1 \in 0 .. MaxNodes /\ 0 .. n \subseteq 0 .. n + 1
  BY ListAssumption DEF RwInv, RwTypeOK, Node, Rw!AddNext, Rw!new_node, NULL
<1>1. /\ mainpc = "work" /\ mainpc' = (IF list = NULL THEN "head" ELSE "prev") /\ n' = n + 1
      /\ next' = [next EXCEPT ![n + 1] = list]
      /\ raced' = (raced \/ sortpc \in {"sethead", "swaphead"})
      /\ UNCHANGED <<sortpc, lock, freed, next_node, list, prev, current, end, is_swapped>>
  BY DEF Rw!AddNext, Rw!GotoMain, Rw!new_node, Rw!MovingHead, NULL
<1>2. Linkable = n /\ Linkable' = n
  BY <1>0, <1>1 DEF Linkable
<1>3. next' \in [Node -> Ptr] /\ next'[n + 1] = list /\ \A b \in Node : b # n + 1 => next'[b] = next[b]
  BY <1>0, <1>1 DEF RwInv, RwTypeOK
<1>4. RwTypeOK'
  <2>1. prev' \in [Node -> 0 .. n'] /\ \A a \in Node : a > n' => prev'[a] = NULL
    BY <1>1 DEF RwInv, RwTypeOK, Node
  <2>. QED
    BY <1>0, <1>1, <2>1 DEF RwInv, RwTypeOK
<1>5. RwGuards'
  <2>1. prev[n + 1] = NULL
    BY <1>0 DEF RwInv, RwTypeOK
  <2>. QED
    <3>1. lock' = "main" /\ (mainpc' = "prev" => list' # NULL) /\ freed' = {} /\ n' >= 1
      BY <1>0, <1>1 DEF RwInv, RwGuards
    <3>2. prev'[n'] = NULL
      BY <1>1, <2>1
    <3>3. ~raced' => sortpc' \notin {"sethead", "swaphead"}
      BY <1>1, ZenonT(30)
    <3>4. sortpc' = "swaphead" => current' \in 1 .. Linkable'
      BY <1>1, <1>2 DEF RwInv, RwGuards
    <3>5. mainpc' \in {"prev", "head"}
      BY <1>1
    <3>. QED
      BY <3>1, <3>2, <3>3, <3>4, <3>5 DEF RwGuards
<1>6. PICK P \in SUBSET (1 .. n), f \in Rank :
        Walk(P, f, list, next, prev, sortpc, current, end, next_node, is_swapped)
  BY <1>1, <1>2 DEF RwInv, RwWay
<1>7. P \subseteq Node /\ n + 1 \notin P /\ (sortpc = "swaphead" => current \in 1 .. n /\ current \in Node)
  BY <1>0, <1>2 DEF RwInv, RwGuards
<1>8. RwWay'
  <2>1. \A b \in P : next'[b] = next[b]
    BY <1>3, <1>7
  <2>2. sortpc = "swaphead" => next'[current] = next[current]
    BY <1>0, <1>3, <1>7
  <2>3. Walk(P, f, list, next', prev, sortpc, current, end, next_node, is_swapped)
    BY <1>6, <2>1, <2>2, WalkSame, Zenon
  <2>. QED
    BY <1>1, <1>2, <2>3 DEF RwWay
<1>9. RwPending'
  <2>0. \A a \in Node : prev[a] # n + 1
    BY <1>0 DEF RwInv, RwTypeOK
  <2>1. CASE sortpc = "swaphead"
    <3>0. PICK a \in Node : a = n + 1
      BY <1>0
    <3>. DEFINE Q == P \union {a}
    <3>1. prev[a] = NULL /\ a \notin P
      BY <1>0, <3>0 DEF RwInv, RwTypeOK
    <3>2. \A b \in P : prev[b] = a => b = list
      BY <1>7, <2>0, <3>0
    <3>3. sortpc = "swaphead" => current # a /\ prev[current] # a
      BY <1>0, <1>7, <2>0, <2>1, <3>0
    <3>4. LinkedTo(next, next', a, list)
      BY <1>3, <3>0 DEF LinkedTo
    <3>5. \E g \in Rank : Walk(Q, g, a, next', prev, sortpc, current, end, next_node, is_swapped)
      BY <1>6, <1>7, <3>1, <3>2, <3>3, <3>4, WalkPushed, Zenon
    <3>6. Q \in SUBSET (1 .. n + 1)
      BY <1>0, <3>0
    <3>. HIDE DEF Q
    <3>. QED
      BY <1>1, <1>3, <2>1, <3>0, <3>5, <3>6 DEF RwPending
  <2>2. CASE sortpc # "swaphead"
    <3>1. \A a \in 1 .. n : prev[a] # n + 1
      BY <1>0, <2>0
    <3>. QED
      BY <1>0, <1>1, <1>3, <2>2, <3>1 DEF RwPending
  <2>. QED
    BY <2>1, <2>2
<1>10. RwWhole'
  <2>. SUFFICES ASSUME ~raced' PROVE RwWhole'
    BY Zenon DEF RwWhole
  <2>1. PICK s \in [1 .. n -> 1 .. n] :
          /\ Perm(s, n) /\ Linked(s, n, next, prev) /\ list = At(s, n, 1)
    BY <1>1, <1>2, Zenon DEF RwInv, RwWhole
  <2>2. Linked(s, n, next', prev)
    <3>1. \A k \in 1 .. n : next'[s[k]] = next[s[k]]
      BY <1>0, <1>3, <2>1 DEF Perm
    <3>. QED
      BY <2>1, <3>1 DEF Linked
  <2>. QED
    BY <1>1, <1>2, <2>1, <2>2, Zenon DEF RwWhole
<1>11. RwFreeing'
  BY <1>1 DEF RwFreeing
<1>. QED
  BY <1>4, <1>5, <1>8, <1>9, <1>10, <1>11 DEF RwInv

\* (*list)->prev = node
LEMMA RwAddPrev ==
  ASSUME RwInv, Rw!AddPrev
  PROVE  RwInv'
<1>. USE DEF Rw!NULL, Rw!sortVars
<1>0. /\ n \in 0 .. MaxNodes /\ n \in Nat /\ MaxNodes \in Nat /\ n >= 1 /\ mainpc = "prev"
      /\ n \in Node /\ n \notin 1 .. n - 1 /\ 1 .. n - 1 \subseteq Node /\ 1 .. n \subseteq Node /\ n # NULL
      /\ list # NULL
  BY ListAssumption DEF RwInv, RwTypeOK, RwGuards, Node, Rw!AddPrev, Rw!GotoMain, NULL
<1>1. /\ mainpc' = "head" /\ prev' = [prev EXCEPT ![list] = n]
      /\ UNCHANGED <<sortpc, lock, freed, next_node, raced, n, list, next, current, end,
                     is_swapped>>
  BY DEF Rw!AddPrev, Rw!GotoMain
<1>2. Linkable = n - 1 /\ Linkable' = n - 1
  BY <1>0, <1>1 DEF Linkable
<1>3. PICK P \in SUBSET (1 .. n - 1), f \in Rank :
        Walk(P, f, list, next, prev, sortpc, current, end, next_node, is_swapped)
  BY <1>0, <1>2 DEF RwInv, RwWay
<1>4. list \in P /\ list \in Node /\ list # n /\ n \notin P /\ P \subseteq Node
  BY <1>0, <1>3, Zenon DEF Walk, Way
<1>5. LinkedTo(prev, prev', list, n) /\ prev' \in [Node -> 0 .. n]
  BY <1>0, <1>1, <1>4 DEF LinkedTo, RwInv, RwTypeOK
<1>6. sortpc = "swaphead" => current \in 1 .. n - 1 /\ current # n
  BY <1>2 DEF RwInv, RwGuards
<1>7. RwTypeOK'
  <2>1. \A a \in Node : a > n => prev'[a] = NULL
    BY <1>3, <1>4, <1>5 DEF LinkedTo, RwInv, RwTypeOK, Node
  <2>. QED
    BY <1>1, <1>5, <2>1 DEF RwInv, RwTypeOK
<1>8. RwGuards'
  <2>1. prev'[n] = NULL
    BY <1>0, <1>4, <1>5 DEF LinkedTo, RwInv, RwGuards
  <2>. QED
    BY <1>0, <1>1, <1>2, <2>1 DEF RwInv, RwGuards
<1>9. ASSUME NEW Q, NEW g, NEW h, Q \subseteq Node,
             Walk(Q, g, h, next, prev, sortpc, current, end, next_node, is_swapped),
             sortpc = "swaphead" /\ current \notin Q => current # list,
             n \in Q => next[n] = list \/ list = Exempt(sortpc, next_node)
      PROVE  Walk(Q, g, h, next, prev', sortpc, current, end, next_node, is_swapped)
  <2>1. CASE sortpc = "swaphead"
    <3>1. n # current
      BY <1>6, <2>1
    <3>. QED
      BY <1>5, <1>9, <3>1, WalkBacked
  <2>2. CASE sortpc # "swaphead"
    <3>1. Back(Q, next, prev', Exempt(sortpc, next_node))
      BY <1>5, <1>9 DEF Walk, Back, LinkedTo
    <3>. QED
      BY <1>9, <2>2, <3>1 DEF Walk, Sorting
  <2>. QED
    BY <2>1, <2>2
<1>10. RwWay'
  <2>1. Walk(P, f, list, next, prev', sortpc, current, end, next_node, is_swapped)
    BY <1>3, <1>4, <1>9, ZenonT(30)
  <2>. QED
    BY <1>1, <1>2, <2>1 DEF RwWay
<1>11. RwPending'
  <2>1. CASE sortpc = "swaphead"
    <3>1. PICK Q \in SUBSET (1 .. n), g \in Rank :
            Walk(Q, g, n, next, prev, sortpc, current, end, next_node, is_swapped)
      BY <1>0, <2>1 DEF RwInv, RwPending
    <3>2. next[n] = list \/ list = next_node
      BY <1>0 DEF RwInv, RwPending
    <3>3. n \in Q /\ Q \subseteq Node
      BY <1>0, <3>1 DEF Walk, Way
    <3>4. current \notin Q => current # list
      <4>1. next[n] = list => list \in Q
        BY <1>0, <3>1 DEF Walk, Way
      <4>2. next_node \in Q
        BY <2>1, <3>1 DEF Walk, Sorting, Pair, Passed, Before
      <4>. QED
        BY <3>2, <4>1, <4>2
    <3>5. Walk(Q, g, n, next, prev', sortpc, current, end, next_node, is_swapped)
      BY <1>9, <2>1, <3>1, <3>2, <3>3, <3>4, Zenon DEF Exempt
    <3>. QED
      BY <1>1, <2>1, <3>2, <3>5 DEF RwPending
  <2>2. CASE sortpc # "swaphead"
    <3>1. next[n] = list /\ \A a \in 1 .. n - 1 : prev[a] = n => a = list
      BY <1>0, <2>2 DEF RwInv, RwPending
    <3>2. \A a \in 1 .. n - 1 : prev'[a] = n => a = list
      BY <1>0, <1>5, <3>1 DEF LinkedTo
    <3>. QED
      BY <1>1, <2>2, <3>1, <3>2 DEF RwPending
  <2>. QED
    BY <2>1, <2>2
<1>12. RwWhole'
  <2>. SUFFICES ASSUME ~raced PROVE RwWhole'
    BY <1>1, Zenon DEF RwWhole
  <2>0. sortpc \notin {"sethead", "swaphead"}
    BY <1>0 DEF RwInv, RwGuards
  <2>1. PICK s \in [1 .. n - 1 -> 1 .. n - 1] :
          /\ Perm(s, n - 1) /\ Linked(s, n - 1, next, prev) /\ list = At(s, n - 1, 1)
    BY <1>0, <1>2, <2>0 DEF RwInv, RwWhole
  <2>2. prev[list] = NULL
    <3>1. 1 \in 1 .. n - 1 /\ list = s[1] /\ 1 - 1 \notin 1 .. n - 1
      BY <1>0, <2>1 DEF At
    <3>. QED
      BY <2>1, <3>1 DEF Linked, At
  <2>3. [prev' EXCEPT ![list] = NULL] = prev /\ prev'[list] = n
    BY <1>1, <1>4, <2>2, Zenon DEF RwInv, RwTypeOK
  <2>. QED
    BY <1>0, <1>1, <1>2, <2>0, <2>1, <2>3, Zenon DEF RwWhole
<1>13. RwFreeing'
  BY <1>1 DEF RwFreeing
<1>. QED
  BY <1>7, <1>8, <1>10, <1>11, <1>12, <1>13 DEF RwInv

\* *list = node
LEMMA RwAddHead ==
  ASSUME RwInv, Rw!AddHead
  PROVE  RwInv'
<1>. USE DEF Rw!NULL, Rw!sortVars
<1>0. /\ n \in 0 .. MaxNodes /\ n \in Nat /\ MaxNodes \in Nat /\ n >= 1 /\ mainpc = "head"
      /\ n \in Node /\ n \notin 1 .. n - 1 /\ 1 .. n - 1 \subseteq Node /\ 1 .. n \subseteq Node /\ n # NULL
      /\ 1 .. n - 1 \subseteq 1 .. n /\ n \in 1 .. n /\ prev[n] = NULL
  BY ListAssumption DEF RwInv, RwTypeOK, RwGuards, Node, Rw!AddHead, Rw!GotoMain, NULL
<1>1. /\ mainpc' = "unlock" /\ list' = n
      /\ UNCHANGED <<sortpc, lock, freed, next_node, raced, n, prev, next, current, end,
                     is_swapped>>
  BY DEF Rw!AddHead, Rw!GotoMain
<1>2. Linkable = n - 1 /\ Linkable' = n
  BY <1>0, <1>1 DEF Linkable
<1>3. PICK P \in SUBSET (1 .. n - 1), f \in Rank :
        Walk(P, f, list, next, prev, sortpc, current, end, next_node, is_swapped)
  BY <1>0, <1>2 DEF RwInv, RwWay
<1>4. RwTypeOK' /\ RwGuards'
  <2>1. n \in Ptr
    BY <1>0 DEF Ptr
  <2>2. sortpc = "swaphead" => current \in 1 .. n
    BY <1>0, <1>2 DEF RwInv, RwGuards
  <2>. QED
    BY <1>0, <1>1, <1>2, <2>1, <2>2 DEF RwInv, RwTypeOK, RwGuards
<1>5. RwWay'
  <2>1. CASE sortpc = "swaphead"
    BY <1>0, <1>1, <1>2, <2>1 DEF RwInv, RwPending, RwWay
  <2>2. CASE sortpc # "swaphead"
    <3>. DEFINE Q == P \union {n}
    <3>1. LinkedTo(next, next, n, list) /\ n \notin P /\ P \subseteq Node
      BY <1>0, <2>2 DEF LinkedTo, RwInv, RwPending
    <3>2. \A b \in P : prev[b] = n => b = list
      BY <1>0, <2>2 DEF RwInv, RwPending
    <3>3. sortpc = "swaphead" => current # n /\ prev[current] # n
      BY <2>2
    <3>4. \E g \in Rank : Walk(Q, g, n, next, prev, sortpc, current, end, next_node, is_swapped)
      BY <1>0, <1>3, <3>1, <3>2, <3>3, WalkPushed, Zenon
    <3>5. Q \in SUBSET (1 .. n)
      BY <1>0
    <3>. HIDE DEF Q
    <3>. QED
      BY <1>1, <1>2, <3>4, <3>5 DEF RwWay
  <2>. QED
    BY <2>1, <2>2
<1>6. RwPending' /\ RwFreeing'
  BY <1>1 DEF RwPending, RwFreeing
<1>7. RwWhole'
  <2>. SUFFICES ASSUME ~raced PROVE RwWhole'
    BY <1>1 DEF RwWhole
  <2>0. sortpc \notin {"sethead", "swaphead"}
    BY <1>0 DEF RwInv, RwGuards
  <2>. DEFINE N == n - 1
              pv == IF list # NULL THEN [prev EXCEPT ![list] = NULL] ELSE prev
  <2>1. PICK s \in [1 .. N -> 1 .. N] :
          /\ Perm(s, N) /\ Linked(s, N, next, pv) /\ list = At(s, N, 1)
          /\ list # NULL => prev[list] = n
    BY <1>0, <1>2, <2>0, Zenon DEF RwInv, RwWhole
  <2>2. N \in 0 .. MaxNodes /\ N < MaxNodes /\ N + 1 = n
    BY <1>0
  <2>3. prev \in [Node -> Ptr] /\ next \in [Node -> Ptr] /\ NULL \in Ptr
    <3>1. 0 .. n \subseteq Ptr
      BY <1>0 DEF Ptr, NULL, Node
    <3>. QED
      BY <3>1 DEF RwInv, RwTypeOK, Ptr
  <2>4. list # NULL => list \in Node /\ list # n
    BY <1>0, <1>3, Zenon DEF Walk, Way
  <2>5. pv \in [Node -> Ptr] /\ pv[n] = NULL
    BY <1>0, <2>3, Zenon
  <2>6. prev = IF At(s, N, 1) = NULL THEN pv ELSE [pv EXCEPT ![At(s, N, 1)] = n]
    BY <2>1, <2>3, Zenon
  <2>7. next = [next EXCEPT ![n] = At(s, N, 1)]
    BY <1>0, <2>0, <2>1, <2>3 DEF RwInv, RwPending
  <2>. HIDE DEF N, pv
  <2>8. Perm(Pushed(s, N), N + 1) /\ Linked(Pushed(s, N), N + 1, next, prev)
    BY <2>1, <2>2, <2>3, <2>5, <2>6, <2>7, PushedChain, Zenon
  <2>9. At(Pushed(s, N), n, 1) = n
    BY <2>2 DEF Pushed, At
  <2>10. Pushed(s, N) \in [1 .. n -> 1 .. n]
    BY <2>2, <2>8 DEF Perm
  <2>. QED
    BY <1>1, <1>2, <2>0, <2>2, <2>8, <2>9, <2>10 DEF RwWhole
<1>. QED
  BY <1>4, <1>5, <1>6, <1>7 DEF RwInv

RwSortLabels == {"test", "check", "pass", "compare", "sethead", "swap", "swaphead", "done"}

\* bubble_sort_mt between two swaps: it has not changed the list.
LEMMA RwLookStep ==
  ASSUME RwInv, UNCHANGED <<mainpc, lock, freed, n, list, next, prev>>, mainpc \notin {"free", "exit", "crash"},
         sortpc \notin {"sethead", "swaphead"}, sortpc' \in RwSortLabels \ {"swaphead"},
         is_swapped' \in BOOLEAN, raced' \in BOOLEAN, ~raced' => ~raced,
         sortpc' = "sethead" /\ ~raced' =>
           /\ mainpc \notin {"prev", "head"}
           /\ list # NULL /\ current' = list /\ next_node' = next[list] /\ next[list] # NULL,
         \E P \in SUBSET (1 .. Linkable), f \in Rank :
           Walk(P, f, list, next, prev, sortpc', current', end', next_node', is_swapped')
  PROVE  RwInv'
<1>. USE DEF RwSortLabels
<1>0. /\ Linkable' = Linkable /\ n \in Nat /\ Linkable \in Int
      /\ UNCHANGED <<mainpc, lock, freed, n, list, next, prev>>
  BY ListAssumption DEF Linkable, RwInv, RwTypeOK
<1>1. RwTypeOK'
  BY DEF RwInv, RwTypeOK
<1>2. RwGuards'
  BY DEF RwInv, RwGuards
<1>3. RwWay'
  BY <1>0 DEF RwWay
<1>4. RwPending'
  <2>1. CASE mainpc \in {"prev", "head"}
    <3>1. next[n] = list /\ \A a \in 1 .. n - 1 : prev[a] = n => a = list
      BY <2>1 DEF RwInv, RwPending
    <3>2. sortpc' # "swaphead"
      OBVIOUS
    <3>. QED
      BY <3>1 DEF RwPending
  <2>2. CASE mainpc \notin {"prev", "head"}
    BY <2>2 DEF RwPending
  <2>. QED
    BY <2>1, <2>2
<1>5. RwWhole'
  <2>. SUFFICES ASSUME ~raced' PROVE RwWhole'
    BY Zenon DEF RwWhole
  <2>1. PICK s \in [1 .. Linkable -> 1 .. Linkable] :
          /\ Perm(s, Linkable)
          /\ Linked(s, Linkable, next,
                    IF mainpc = "head" /\ list # NULL THEN [prev EXCEPT ![list] = NULL] ELSE prev)
          /\ mainpc = "head" /\ list # NULL => prev[list] = n
          /\ list = At(s, Linkable, 1)
    BY Zenon DEF RwInv, RwWhole
  <2>2. sortpc' = "sethead" => Linkable >= 2 /\ current' = s[1] /\ next_node' = s[2]
    <3>. SUFFICES ASSUME sortpc' = "sethead" PROVE Linkable >= 2 /\ current' = s[1] /\ next_node' = s[2]
      OBVIOUS
    <3>1. 1 \in 1 .. Linkable /\ list = s[1] /\ 1 + 1 = 2
      BY <2>1 DEF At
    <3>2. next[list] = At(s, Linkable, 2)
      BY <2>1, <3>1 DEF Linked
    <3>3. 2 \in 1 .. Linkable /\ next[list] = s[2]
      BY <3>2 DEF At
    <3>. QED
      BY <1>0, <3>1, <3>3
  <2>3. sortpc' # "swaphead"
    OBVIOUS
  <2>. QED
    BY <1>0, <2>1, <2>2, <2>3 DEF RwWhole
<1>6. RwFreeing'
  BY DEF RwFreeing
<1>. QED
  BY <1>1, <1>2, <1>3, <1>4, <1>5, <1>6 DEF RwInv

\* The loops and the comparison.
LEMMA RwSortStep ==
  ASSUME RwInv, mainpc # "crash", Rw!SortTest \/ Rw!SortCheck \/ Rw!Pass \/ Rw!Compare
  PROVE  RwInv'
<1>. USE DEF Rw!sortVars, Rw!listVars
<1>0. /\ sortpc \in {"test", "check", "pass", "compare"}
      /\ UNCHANGED <<mainpc, lock, freed, n, list, next, prev>>
  BY DEF Rw!SortTest, Rw!SortCheck, Rw!Pass, Rw!Compare, Rw!GotoSort, Rw!StartPass, Rw!EndPass
<1>1. mainpc \notin {"free", "exit", "crash"} /\ is_swapped \in BOOLEAN /\ raced \in BOOLEAN /\ n \in Nat
  BY <1>0, ListAssumption DEF RwInv, RwGuards, RwTypeOK
<1>2. PICK P \in SUBSET (1 .. Linkable), f \in Rank :
        Walk(P, f, list, next, prev, sortpc, current, end, next_node, is_swapped)
  BY <1>1 DEF RwInv, RwWay
<1>3. P \subseteq Node /\ sortpc # "swaphead"
  BY <1>0, <1>1, ListAssumption DEF RwInv, RwTypeOK, RwGuards, Linkable, Node
<1>4. /\ \A cr2, en2, nn2, sw2 : \A pc2 \in {"test", "check", "done"} :
            Walk(P, f, list, next, prev, pc2, cr2, en2, nn2, sw2)
      /\ \A sw2 : list # NULL => Walk(P, f, list, next, prev, "pass", current, NULL, next_node, sw2)
      /\ sortpc = "pass" => list # NULL /\ Walk(P, f, list, next, prev, "compare", list, end, next_node, FALSE)
      /\ sortpc = "compare" => current \in P
      /\ sortpc = "compare" /\ next[current] # end =>
           /\ next[current] # NULL /\ next[current] \in P
           /\ Walk(P, f, list, next, prev, "compare", next[current], end, next_node, is_swapped)
           /\ Walk(P, f, list, next, prev, "sethead", current, end, next[current], is_swapped)
           /\ current # list => Walk(P, f, list, next, prev, "swap", current, end, next[current], is_swapped)
      /\ sortpc = "compare" /\ is_swapped =>
           Walk(P, f, list, next, prev, "pass", current, current, next_node, is_swapped)
  BY <1>2, <1>3, WalkOn, Zenon
<1>. USE DEF Rw!NULL, NULL
<1>5. ASSUME sortpc' \in RwSortLabels \ {"sethead", "swaphead"}, is_swapped' \in BOOLEAN,
             raced' = raced,
             Walk(P, f, list, next, prev, sortpc', current', end', next_node', is_swapped')
      PROVE  RwInv'
  <2>1. \E Q \in SUBSET (1 .. Linkable), g \in Rank :
          Walk(Q, g, list, next, prev, sortpc', current', end', next_node', is_swapped')
    BY <1>5
  <2>2. sortpc' \in RwSortLabels \ {"swaphead"} /\ sortpc' # "sethead" /\ raced' \in BOOLEAN /\ (~raced' => ~raced)
    BY <1>1, <1>5
  <2>. QED
    BY <1>0, <1>1, <1>5, <2>1, <2>2, RwLookStep
<1>6. CASE Rw!SortTest
  <2>1. sortpc' \in {"test", "check", "done"} /\ is_swapped' = is_swapped /\ raced' = raced
    BY <1>6 DEF Rw!SortTest, Rw!GotoSort
  <2>. QED
    BY <1>1, <1>4, <1>5, <2>1 DEF RwSortLabels
<1>7. CASE Rw!SortCheck
  <2>1. /\ sortpc' = "pass" /\ list # NULL /\ current' = current /\ end' = NULL /\ next_node' = next_node
        /\ is_swapped' = is_swapped /\ raced' = raced
    BY <1>7 DEF Rw!SortCheck, Rw!GotoSort
  <2>. QED
    BY <1>1, <1>4, <1>5, <2>1 DEF RwSortLabels
<1>8. CASE Rw!Pass /\ Rw!StartPass
  <2>1. /\ sortpc = "pass" /\ sortpc' = "compare" /\ current' = list /\ end' = end /\ next_node' = next_node
        /\ is_swapped' = FALSE /\ raced' = raced
    BY <1>8 DEF Rw!Pass, Rw!StartPass, Rw!GotoSort
  <2>. QED
    BY <1>4, <1>5, <2>1, Zenon DEF RwSortLabels
<1>9. CASE Rw!Pass /\ Rw!EndPass("test")
  <2>1. /\ sortpc = "compare" /\ sortpc' = (IF is_swapped THEN "pass" ELSE "test") /\ current' = current
        /\ end' = current /\ next_node' = next_node /\ is_swapped' = is_swapped /\ raced' = raced
    BY <1>9 DEF Rw!Pass, Rw!EndPass
  <2>2. sortpc' \in RwSortLabels \ {"sethead", "swaphead"}
    BY <2>1 DEF RwSortLabels
  <2>3. Walk(P, f, list, next, prev, sortpc', current', end', next_node', is_swapped')
    BY <1>4, <2>1
  <2>. QED
    BY <1>1, <1>5, <2>1, <2>2, <2>3
<1>10. CASE Rw!Compare
  <2>1. sortpc = "compare" /\ next[current] # end /\ end' = end /\ is_swapped' = is_swapped
    BY <1>10 DEF Rw!Compare
  <2>2. CASE /\ next_node' = next[current] /\ sortpc' = (IF current = list THEN "sethead" ELSE "swap")
             /\ raced' = (raced \/ (current = list /\ Rw!Adding)) /\ current' = current
    <3>1. Walk(P, f, list, next, prev, sortpc', current', end', next_node', is_swapped')
      BY <1>4, <2>1, <2>2
    <3>2. \E Q \in SUBSET (1 .. Linkable), g \in Rank :
            Walk(Q, g, list, next, prev, sortpc', current', end', next_node', is_swapped')
      BY <3>1
    <3>3. sortpc' \in RwSortLabels \ {"swaphead"} /\ raced' \in BOOLEAN /\ (~raced' => ~raced)
      BY <2>2, Zenon DEF RwSortLabels, Rw!Adding
    <3>4. current \in P /\ current # NULL
      <4>1. current \in P
        BY <1>2, <2>1 DEF Walk, Sorting, Before
      <4>. QED
        BY <4>1 DEF Node
    <3>5. sortpc' = "sethead" /\ ~raced' =>
            /\ mainpc \notin {"prev", "head"}
            /\ list # NULL /\ current' = list /\ next_node' = next[list] /\ next[list] # NULL
      <4>. SUFFICES ASSUME sortpc' = "sethead", ~raced'
                    PROVE  /\ mainpc \notin {"prev", "head"}
                           /\ list # NULL /\ current' = list /\ next_node' = next[list] /\ next[list] # NULL
        OBVIOUS
      <4>1. current = list
        BY <2>2
      <4>2. ~Rw!Adding
        BY <2>2, Zenon
      <4>. QED
        BY <1>4, <2>1, <2>2, <3>4, <4>1, <4>2 DEF Rw!Adding
    <3>. QED
      BY <1>0, <1>1, <2>1, <3>2, <3>3, <3>5, RwLookStep
  <2>3. CASE current' = next[current] /\ UNCHANGED <<sortpc, next_node, raced>>
    BY <1>1, <1>4, <1>5, <2>1, <2>3 DEF RwSortLabels
  <2>. QED
    BY <1>10, <2>2, <2>3 DEF Rw!Compare
<1>. QED
  BY <1>6, <1>7, <1>8, <1>9, <1>10 DEF Rw!Pass

\* *list = next_node
LEMMA RwSetHead ==
  ASSUME RwInv, Rw!SetHead
  PROVE  RwInv'
<1>. USE DEF Rw!NULL, Rw!sortVars
<1>0. /\ sortpc = "sethead" /\ sortpc' = "swaphead" /\ list' = next_node
      /\ UNCHANGED <<mainpc, lock, freed, next_node, raced, n, next, prev, current, end,
                     is_swapped>>
  BY DEF Rw!SetHead, Rw!GotoSort
<1>1. /\ mainpc \notin {"free", "exit"} /\ n \in Nat /\ 1 .. Linkable \subseteq Node /\ NULL \notin Node
      /\ Linkable' = Linkable
  BY <1>0, ListAssumption DEF RwInv, RwGuards, RwTypeOK, Linkable, Node, NULL
<1>2. PICK P \in SUBSET (1 .. Linkable), f \in Rank :
        Walk(P, f, list, next, prev, sortpc, current, end, next_node, is_swapped)
  BY <1>1 DEF RwInv, RwWay
<1>3. P \subseteq Node /\ current \in P /\ next_node \in P /\ next_node # NULL
  BY <1>0, <1>1, <1>2, Zenon DEF Walk, Sorting, Pair, Before
<1>4. RwTypeOK' /\ RwGuards' /\ RwFreeing'
  BY <1>0, <1>1, <1>3 DEF RwInv, RwTypeOK, RwGuards, RwFreeing, Ptr
<1>5. RwWay'
  <2>1. \E Q \in SUBSET P : Walk(Q, f, next_node, next, prev, "swaphead", current, end, next_node, is_swapped)
    BY <1>0, <1>2, <1>3, WalkPassed, Zenon
  <2>. QED
    BY <1>0, <1>1, <2>1 DEF RwWay
<1>6. RwPending'
  <2>. SUFFICES ASSUME mainpc \in {"prev", "head"} PROVE RwPending'
    BY <1>0 DEF RwPending
  <2>. DEFINE Q == P \union {n}
  <2>1. n >= 1 /\ prev[n] = NULL /\ n \in Node /\ Linkable = n - 1
    BY <1>1, ListAssumption DEF RwInv, RwGuards, RwTypeOK, Linkable, Node
  <2>2. next[n] = list /\ \A a \in 1 .. n - 1 : prev[a] = n => a = list
    BY <1>0 DEF RwInv, RwPending
  <2>3. n \notin P /\ LinkedTo(next, next, n, list) /\ \A b \in P : prev[b] = n => b = list
    BY <1>1, <2>1, <2>2 DEF LinkedTo
  <2>4. sortpc = "swaphead" => current # n /\ prev[current] # n
    BY <1>0
  <2>5. PICK g \in Rank : Walk(Q, g, n, next, prev, sortpc, current, end, next_node, is_swapped)
    BY <1>2, <1>3, <2>1, <2>3, <2>4, WalkPushed, ZenonT(30)
  <2>6. Q \in SUBSET (1 .. n) /\ current # n
    BY <1>1, <1>3, <2>1, <2>3
  <2>. HIDE DEF Q
  <2>7. Walk(Q, g, n, next, prev, "swaphead", current, end, next_node, is_swapped)
    <3>1. NULL \notin Q
      BY <1>1, <2>1, ZenonT(30) DEF Q
    <3>2. Back(Q, next, prev, next_node)
      BY <2>5, <3>1 DEF Walk, Back, Exempt
    <3>3. Way(Q, g, n, next) /\ Pair(Q, g, next, current, end, next_node)
      BY <1>0, <2>5 DEF Walk, Sorting
    <3>. QED
      BY <2>6, <3>2, <3>3 DEF Walk, Sorting, Exempt
  <2>. QED
    BY <1>0, <2>6, <2>7 DEF RwPending
<1>7. RwWhole'
  <2>. SUFFICES ASSUME ~raced, mainpc # "crash" PROVE RwWhole'
    BY <1>0, Zenon DEF RwWhole
  <2>1. mainpc \notin {"prev", "head"}
    BY <1>0 DEF RwInv, RwGuards
  <2>2. PICK s \in [1 .. Linkable -> 1 .. Linkable] :
          /\ Perm(s, Linkable) /\ Linked(s, Linkable, next, prev)
          /\ Linkable >= 2 /\ current = s[1] /\ next_node = s[2]
    BY <1>0, <1>1, <2>1 DEF RwInv, RwWhole
  <2>3. next_node = At(s, Linkable, 2)
    BY <1>1, <2>1, <2>2 DEF At, Linkable
  <2>. QED
    BY <1>0, <1>1, <2>1, <2>2, <2>3, Zenon DEF RwWhole
<1>. QED
  BY <1>4, <1>5, <1>6, <1>7 DEF RwInv

\* The swap under the lock: main is not in add_to_head.
LEMMA RwSwapStep ==
  ASSUME RwInv, Rw!SwapLocked
  PROVE  RwInv'
<1>0. /\ sortpc \in {"swap", "swaphead"} /\ lock = "free" /\ sortpc' = "compare" /\ is_swapped' = TRUE
      /\ UNCHANGED <<mainpc, lock, freed, next_node, raced, n, list, end>>
  BY DEF Rw!SwapLocked
<1>1. /\ mainpc \notin {"free", "exit", "prev", "head", "work"} /\ n \in Nat /\ Linkable = n /\ Linkable' = n
      /\ 1 .. n \subseteq Node /\ NULL \notin Node /\ n \in 0 .. MaxNodes
  BY <1>0, ListAssumption DEF RwInv, RwGuards, RwTypeOK, Linkable, Node, NULL
<1>2. PICK P, f : /\ P \in SUBSET (1 .. n) /\ f \in Rank
                  /\ Walk(P, f, list, next, prev, sortpc, current, end, next_node, is_swapped)
  BY <1>1, Zenon DEF RwInv, RwWay
<1>3. P \subseteq Node /\ next_node \in P /\ next_node = next[current]
  BY <1>0, <1>1, <1>2 DEF Walk, Sorting, Pair, Passed, Before
<1>4. current \in 1 .. n /\ current \in Node /\ next_node \in 1 .. n /\ next_node \in Node
      /\ (sortpc = "swap" => current # list)
  <2>1. current \in 1 .. n
    BY <1>0, <1>1, <1>2, Zenon DEF RwInv, RwGuards, Walk, Sorting, Pair
  <2>. QED
    BY <1>1, <1>2, <1>3, <2>1 DEF Walk, Sorting
<1>5. next' = NextSwapped(next, prev, current, next_node) /\ prev' = PrevSwapped(next, prev, current, next_node)
  BY <1>3 DEF Rw!SwapLocked, Rw!swap, NextSwapped, PrevSwapped, Rw!Node, Node
<1>6. current' = current
  <2>1. current' = next'[next_node]
    BY DEF Rw!SwapLocked
  <2>. QED
    BY <1>4, <1>5, <2>1 DEF NextSwapped
<1>7. RwTypeOK'
  <2>1. next \in [Node -> Ptr] /\ prev \in [Node -> 0 .. n] /\ \A a \in Node : a > n => prev[a] = NULL
    BY DEF RwInv, RwTypeOK
  <2>2. next' \in [Node -> Ptr]
    BY <1>4, <1>5, <2>1 DEF NextSwapped, Ptr
  <2>3. prev' \in [Node -> 0 .. n]
    BY <1>1, <1>4, <1>5, <2>1 DEF PrevSwapped
  <2>4. \A a \in Node : a > n => prev'[a] = NULL
    <3>. SUFFICES ASSUME NEW a \in Node, a > n PROVE prev'[a] = NULL
      OBVIOUS
    <3>1. next[next_node] # NULL => next[next_node] \in P
      BY <1>2, <1>3 DEF Walk, Way
    <3>2. a \notin 1 .. n /\ a # NULL
      BY <1>1 DEF Node
    <3>. QED
      BY <1>2, <1>4, <1>5, <2>1, <3>1, <3>2 DEF PrevSwapped
  <2>. QED
    BY <1>0, <2>2, <2>3, <2>4 DEF RwInv, RwTypeOK
<1>8. RwGuards' /\ RwPending' /\ RwFreeing'
  BY <1>0 DEF RwInv, RwGuards, RwPending, RwFreeing
<1>9. RwWay'
  <2>1. PICK Q, g : /\ Q \subseteq P \union {current} /\ g \in Rank /\ current # list
                    /\ Walk(Q, g, list, next', prev', "compare", current, end, next_node, is_swapped)
    <3>1. SwapOnWay(P, f, list, next, prev, sortpc, current, end, next_node, is_swapped, next', prev')
      BY <1>0, <1>2, <1>5 DEF SwapOnWay
    <3>2. P \subseteq Node /\ f \in Rank
      BY <1>2, <1>3
    <3>. QED
      BY <3>1, <3>2, WalkSwap
  <2>2. Walk(Q, g, list, next', prev', "compare", current, end, next_node, is_swapped')
    BY <2>1 DEF Walk, Sorting, Exempt
  <2>3. Q \in SUBSET (1 .. n)
    BY <1>2, <1>4, <2>1
  <2>. QED
    BY <1>0, <1>1, <1>6, <2>1, <2>2, <2>3, Zenon DEF RwWay
<1>10. RwWhole'
  <2>. SUFFICES ASSUME ~raced, mainpc # "crash" PROVE RwWhole'
    BY <1>0, Zenon DEF RwWhole
  <2>1. PICK s :
          /\ Perm(s, n) /\ Linked(s, n, next, prev)
          /\ list = At(s, n, IF sortpc = "swaphead" THEN 2 ELSE 1)
          /\ sortpc = "swaphead" => n >= 2 /\ current = s[1] /\ next_node = s[2]
    BY <1>1 DEF RwInv, RwWhole
  <2>2. \E z \in [1 .. n -> 1 .. n] : Perm(z, n) /\ Linked(z, n, next', prev') /\ list = At(z, n, 1)
    <3>1. SwapAhead(s, n, next, prev, current, next_node, list, next', prev')
      BY <1>0, <1>3, <1>4, <1>5, <2>1 DEF SwapAhead
    <3>2. Perm(s, n) /\ Linked(s, n, next, prev) /\ n \in 0 .. MaxNodes /\ current \in 1 .. n
      BY <1>1, <1>4, <2>1
    <3>. QED
      BY <3>1, <3>2, SwapKeepsChain
  <2>. QED
    BY <1>0, <1>1, <2>2 DEF RwWhole
<1>. QED
  BY <1>7, <1>8, <1>9, <1>10 DEF RwInv

\* pthread_join and list_free.
LEMMA RwFreeStep ==
  ASSUME RwInv, Rw!Join \/ Rw!list_free
  PROVE  RwInv'
<1>. USE DEF Rw!sortVars, Rw!listVars, Rw!NULL, NULL
<1>0. /\ UNCHANGED <<sortpc, lock, next_node, raced, n, next, prev, current, end, is_swapped>>
      /\ mainpc \in {"join", "free"} /\ mainpc' \in {"free", "exit"} /\ sortpc = "done"
      /\ n \in Nat /\ n \in 0 .. MaxNodes
  BY ListAssumption DEF Rw!Join, Rw!list_free, Rw!GotoMain, RwInv, RwGuards, RwTypeOK
<1>1. RwGuards' /\ RwWay' /\ RwPending' /\ RwWhole'
  BY <1>0 DEF RwInv, RwGuards, RwWay, RwPending, RwWhole
<1>2. RwTypeOK'
  <2>1. list' \in Ptr
    BY DEF RwInv, RwTypeOK, Rw!Join, Rw!list_free, Ptr
  <2>. QED
    BY <1>0, <2>1 DEF RwInv, RwTypeOK
<1>3. RwFreeing'
  <2>. SUFFICES ASSUME ~raced PROVE RwFreeing'
    BY <1>0 DEF RwFreeing
  <2>0. Order' = Order
    BY <1>0 DEF Order
  <2>1. CASE Rw!Join
    <3>1. mainpc = "join" /\ mainpc' = "free" /\ UNCHANGED <<freed, list>>
      BY <2>1 DEF Rw!Join, Rw!GotoMain
    <3>2. PICK s \in Order : Perm(s, n) /\ Linked(s, n, next, prev) /\ list = At(s, n, 1)
      BY <1>0, <3>1 DEF RwInv, RwWhole, Linkable, Order
    <3>3. freed = {s[k] : k \in 1 .. 1 - 1} /\ 1 \in 1 .. n + 1
      <4>1. freed = {} /\ 1 .. 1 - 1 = {}
        BY <3>1 DEF RwInv, RwGuards
      <4>. QED
        BY <1>0, <4>1
    <3>. QED
      BY <1>0, <2>0, <3>1, <3>2, <3>3 DEF RwFreeing
  <2>2. CASE Rw!list_free
    <3>0. mainpc = "free"
      BY <2>2 DEF Rw!list_free
    <3>1. PICK s \in Order : /\ Perm(s, n) /\ Linked(s, n, next, prev)
                             /\ \E p \in 1 .. n + 1 : list = At(s, n, p) /\ freed = {s[k] : k \in 1 .. p - 1}
      BY <3>0 DEF RwInv, RwFreeing
    <3>2. PICK p \in 1 .. n + 1 : list = At(s, n, p) /\ freed = {s[k] : k \in 1 .. p - 1}
      BY <3>1
    <3>3. \A k \in 1 .. n : s[k] # 0 /\ At(s, n, k) = s[k] /\ next[s[k]] = At(s, n, k + 1)
      BY <1>0, <3>1, ChainFacts
    <3>4. CASE list = 0
      <4>1. mainpc' = "exit" /\ UNCHANGED <<freed, list>>
        BY <2>2, <3>4 DEF Rw!list_free
      <4>2. p = n + 1
        <5>1. p \notin 1 .. n
          BY <3>2, <3>3, <3>4, Zenon
        <5>. QED
          BY <1>0, <5>1
      <4>. QED
        BY <1>0, <2>0, <3>1, <3>2, <4>1, <4>2 DEF RwFreeing
    <3>5. CASE list # 0
      <4>1. freed' = freed \union {list} /\ list' = next[list] /\ mainpc' = "free"
        BY <2>2, <3>5 DEF Rw!list_free
      <4>2. p \in 1 .. n /\ list = s[p] /\ list' = At(s, n, p + 1) /\ p + 1 \in 1 .. n + 1
        <5>1. p \in 1 .. n
          BY <3>2, <3>5 DEF At
        <5>. QED
          BY <1>0, <3>2, <3>3, <4>1, <5>1
      <4>3. freed' = {s[k] : k \in 1 .. (p + 1) - 1}
        <5>1. 1 .. (p + 1) - 1 = (1 .. p - 1) \union {p}
          OBVIOUS
        <5>. QED
          BY <3>2, <4>1, <4>2, <5>1
      <4>. QED
        BY <1>0, <2>0, <3>1, <4>1, <4>2, <4>3 DEF RwFreeing
    <3>. QED
      BY <3>4, <3>5
  <2>. QED
    BY <2>1, <2>2
<1>. QED
  BY <1>1, <1>2, <1>3 DEF RwInv

\* A comparison with a line that is NULL.
LEMMA RwCrash ==
  ASSUME RwInv, Rw!Crash
  PROVE  RwInv'
<1>0. /\ sortpc = "compare" /\ mainpc' = "crash"
      /\ UNCHANGED <<sortpc, lock, freed, next_node, raced, n, list, next, prev, current, end,
                     is_swapped>>
  BY DEF Rw!Crash, Rw!NullLine, Rw!listVars, Rw!sortVars
<1>1. mainpc \notin {"free", "exit"} /\ n \in Nat /\ Linkable' = n /\ 1 .. Linkable \subseteq 1 .. n
  BY <1>0, ListAssumption DEF RwInv, RwGuards, RwTypeOK, Linkable
<1>2. RwTypeOK' /\ RwGuards'
  BY <1>0 DEF RwInv, RwTypeOK, RwGuards
<1>3. RwPending' /\ RwWhole'
  BY <1>0 DEF RwInv, RwPending, RwWhole
<1>4. RwFreeing'
  BY <1>0 DEF RwInv, RwFreeing
<1>5. RwWay'
  BY <1>0, <1>1 DEF RwInv, RwWay
<1>. QED
  BY <1>2, <1>3, <1>4, <1>5 DEF RwInv

\* Every step of the program preserves the invariant.
LEMMA RwStep ==
  ASSUME RwInv, [Rw!Next]_(Rw!vars)
  PROVE  RwInv'
<1>1. CASE UNCHANGED Rw!vars
  <2>1. UNCHANGED <<mainpc, lock, sortpc, freed, next_node, raced, n, list, next, prev, current,
                    end, is_swapped>>
    BY <1>1 DEF Rw!vars, Rw!listVars, Rw!sortVars
  <2>2. Linkable' = Linkable /\ Order' = Order
    BY <2>1 DEF Linkable, Order
  <2>3. RwTypeOK' /\ RwGuards'
    BY <2>1, <2>2 DEF RwInv, RwTypeOK, RwGuards
  <2>4. RwWay' /\ RwPending'
    BY <2>1, <2>2 DEF RwInv, RwWay, RwPending
  <2>5. RwWhole' /\ RwFreeing'
    BY <2>1, <2>2, Zenon DEF RwInv, RwWhole, RwFreeing
  <2>. QED
    BY <2>3, <2>4, <2>5 DEF RwInv
<1>2. ASSUME Rw!ReadLine \/ Rw!Lock \/ Rw!print_list \/ Rw!Unlock \/ Rw!SetStop PROVE RwInv'
  <2>1. /\ UNCHANGED <<sortpc, freed, next_node, raced, n, list, next, prev, current, end,
                       is_swapped>>
        /\ mainpc \notin {"prev", "head", "free", "exit", "crash"}
        /\ mainpc' \in {"read", "lock", "work", "unlock", "stop", "join"}
        /\ mainpc' = "work" => lock' = "main"
    BY <1>2 DEF Rw!ReadLine, Rw!Lock, Rw!print_list, Rw!Unlock, Rw!SetStop, Rw!GotoMain,
                Rw!listVars, Rw!sortVars
  <2>. QED
    BY <2>1, RwQuietStep
<1>3. Rw!Next => mainpc # "crash"
  BY DEF Rw!Next, Rw!Alive
<1>. QED
  BY <1>1, <1>2, <1>3, RwAddNext, RwAddPrev, RwAddHead, RwFreeStep, RwSortStep, RwSetHead,
     RwSwapStep, RwCrash
     DEF Rw!Next, Rw!main, Rw!bubble_sort_mt

\* In every state of the invariant the list is one chain unless there was a race, and the
\* sort is inside what is left of it in any case.
LEMMA RwInvHolds == RwInv => Rw!ListInv /\ Rw!AllFreed
<1>. SUFFICES ASSUME RwInv PROVE Rw!ListInv /\ Rw!AllFreed
  OBVIOUS
<1>0. n \in 0 .. MaxNodes /\ n \in Nat /\ MaxNodes \in Nat
  BY ListAssumption DEF RwInv, RwTypeOK
<1>1. ASSUME ~raced, ~Rw!Adding, ~Rw!MovingHead, mainpc \notin {"free", "exit", "crash"} PROVE Rw!OneChain
  <2>1. PICK s \in Order : Perm(s, n) /\ Linked(s, n, next, prev) /\ list = At(s, n, 1)
    BY <1>1 DEF RwInv, RwWhole, Linkable, Order, Rw!Adding, Rw!MovingHead
  <2>2. OneChain
    BY <1>0, <2>1, ChainIsOne
  <2>. QED
    BY <2>2 DEF OneChain, IsChain, Allocated, NULL, Rw!OneChain, Rw!IsChain, Rw!Allocated, Rw!NULL
<1>2. Rw!InnerLoopInside
  <2>. SUFFICES ASSUME sortpc = "compare"
                PROVE  /\ current # NULL /\ current \notin freed
                       /\ next[current] # end => next[current] # NULL /\ next[current] \notin freed
    BY DEF Rw!InnerLoopInside, Rw!NULL, NULL
  <2>1. mainpc \notin {"free", "exit"} /\ freed = {}
    BY DEF RwInv, RwGuards
  <2>2. PICK P \in SUBSET (1 .. Linkable), f \in Rank :
          Walk(P, f, list, next, prev, sortpc, current, end, next_node, is_swapped)
    BY <2>1 DEF RwInv, RwWay
  <2>3. P \subseteq Node /\ NULL \notin P
    BY <1>0 DEF Linkable, Node, NULL
  <2>4. current \in P /\ (next[current] # end => next[current] # NULL)
    <3>1. current \in P /\ Before(P, f, current, end) /\ Way(P, f, list, next)
      BY <2>2 DEF Walk, Sorting, Before
    <3>. QED
      BY <2>3, <3>1, WayFacts, Zenon
  <2>. QED
    BY <2>1, <2>3, <2>4
<1>3. Rw!AllFreed
  <2>. SUFFICES ASSUME mainpc = "exit", ~raced PROVE freed = 1 .. n
    BY DEF Rw!AllFreed, Rw!Allocated
  <2>1. PICK s \in Order : Perm(s, n) /\ freed = {s[k] : k \in 1 .. (n + 1) - 1} /\ (n + 1) - 1 = n
    BY <1>0 DEF RwInv, RwFreeing
  <2>2. freed = {s[k] : k \in 1 .. n}
    BY <2>1
  <2>. QED
    BY <2>1 DEF Perm
<1>. QED
  BY <1>1, <1>2, <1>3 DEF Rw!ListInv
===============================================================================
