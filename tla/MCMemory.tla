------------------------------- MODULE MCMemory --------------------------------
(***************************************************************************)
(* Memory that is given back by hand: the nodes of the log's message queue *)
(* and the objects of SharedPtrs.  A behaviour is one of the program it    *)
(* starts with, the other one stays at its start.                          *)
(*                                                                         *)
(* The theorems at the end are on every number of pushers, nodes and       *)
(* messages and on all sets of pointers, objects and counters.  QueueInv   *)
(* is inductive; ListInv is the conjunct that takes work, since each step  *)
(* has to exhibit the list after it.                                       *)
(***************************************************************************)
EXTENDS LogMsgQueue, FiniteSetTheorems, TLAPS

CONSTANTS Ptr, Object, Counter, nullptr

ASSUME SharedAssumption ==
  /\ IsFiniteSet(Ptr)
  /\ nullptr \notin Object /\ nullptr \notin Counter

VARIABLES program, ptr_, obj_counter_, count, objects, counters

Shared == INSTANCE SharedPtr
sharedVars == <<ptr_, obj_counter_, count, objects, counters>>

MCInit == program \in {"queue", "shared_ptr"} /\ Init /\ Shared!Init

MCNext ==
  \/ program = "queue" /\ Next /\ UNCHANGED <<program, sharedVars>>
  \/ program = "shared_ptr" /\ Shared!Next /\ UNCHANGED <<program, vars>>

MCSpec ==
  /\ MCInit /\ [][MCNext]_<<program, vars, sharedVars>>
  /\ \/ program = "queue" /\ Fairness
     \/ program = "shared_ptr"

\* shared_ptr.cpp, see SharedPtr!CountsOwners: whatever the order of the calls, a counter
\* holds the number of its owners, and objects and counters are allocated exactly while
\* some SharedPtr leads to them.
CountsOwners == Shared!CountsOwners

-------------------------------------------------------------------------------
\* The queue.

\* The steps that leave the list, the nodes and what pushers have in hand alone.
ControlStep ==
  \/ \E p \in Pusher : PushLock(p) \/ Signal(p) \/ PushUnlock(p)
  \/ WriterTop \/ WriterStop \/ PopLock \/ PopCheck \/ PopUnlock \/ SpuriousWakeup
  \/ DestroyStart \/ DestroyEnd

\* The cases of a step.
LEMMA NextCases ==
  ASSUME Next
  PROVE  \/ ControlStep \/ Take \/ FreeNode
         \/ \E p \in Pusher : Add(p) \/ \E m \in Msg : new_node(p, m)
BY DEF Next, Push, Pop, destroy_log_queue, ControlStep

\* A control step changes only the mutex, where the threads are and, at its top,
\* the writer's buffer.
LEMMA ControlFrame ==
  ControlStep => UNCHANGED <<listVars, allocated, node>>
BY DEF ControlStep, PushLock, Signal, PushUnlock, WriterTop, WriterStop, PopLock, PopCheck,
       PopUnlock, SpuriousWakeup, DestroyStart, DestroyEnd, pushVars, listVars

\* In a queue that holds a message, the pointers delete_head and add_tail follow
\* lead to nodes.
LEMMA Ends ==
  ASSUME QueueInv, queue = "live", size # 0
  PROVE  head \in Node /\ tail \in Node /\ (head # tail => prev[head] \in Node)
<1>1. PICK s \in [1 .. size -> Node] : NextChain(s, size) /\ PrevChain(s, size)
  BY DEF QueueInv, ListInv, IsList
<1>2. size \in Nat
  BY DEF QueueInv, TypeOK
<1>3. head = s[1] /\ tail = s[size] /\ head \in Node /\ tail \in Node
  BY <1>1, <1>2 DEF NextChain, PrevChain
<1>4. CASE head # tail
  <2>1. size # 1 /\ prev[s[1]] = s[2] /\ s[2] \in Node
    BY <1>1, <1>2, <1>3, <1>4 DEF PrevChain
  <2>2. QED
    BY <1>3, <2>1
<1>5. QED
  BY <1>3, <1>4

\* Types.
LEMMA TypeStep == QueueInv /\ Next => TypeOK'
<1> SUFFICES ASSUME QueueInv, Next PROVE TypeOK'
  OBVIOUS
<1>0. TypeOK
  BY DEF QueueInv
<1> USE DEF TypeOK, Link, PushGoto, PopGoto, listVars, pushVars, popVars
<1>1. CASE ControlStep
  <2>1. CASE \E p \in Pusher : PushLock(p) \/ Signal(p) \/ PushUnlock(p)
    BY <1>0, <2>1 DEF PushLock, Signal, PushUnlock
  <2>2. CASE WriterTop \/ WriterStop \/ PopLock
    BY <1>0, <2>2 DEF WriterTop, WriterStop, PopLock
  <2>3. CASE PopCheck \/ PopUnlock \/ SpuriousWakeup
    BY <1>0, <2>3 DEF PopCheck, PopUnlock, SpuriousWakeup
  <2>4. CASE DestroyStart \/ DestroyEnd
    BY <1>0, <2>4 DEF DestroyStart, DestroyEnd
  <2>5. QED
    BY <1>1, <2>1, <2>2, <2>3, <2>4 DEF ControlStep
<1>2. CASE Take
  <2>1. head \in Node /\ (head # tail => prev[head] \in Node) /\ size \in Nat \ {0}
    BY <1>0, <1>2, Ends DEF Take, QueueInv, ControlInv
  <2>2. QED
    BY <1>0, <1>2, <2>1 DEF Take, delete_head
<1>3. CASE FreeNode
  BY <1>0, <1>3 DEF FreeNode
<1>4. ASSUME NEW p \in Pusher, Add(p) PROVE TypeOK'
  <2>1. node[p] # NULL /\ size # 0 => tail \in Node
    BY <1>4, Ends DEF Add, QueueInv, ControlInv
  <2>2. QED
    BY <1>0, <1>4, <2>1 DEF Add, add_tail
<1>5. ASSUME NEW p \in Pusher, NEW m \in Msg, new_node(p, m) PROVE TypeOK'
  BY <1>0, <1>5 DEF new_node
<1>6. QED
  BY NextCases, <1>1, <1>2, <1>3, <1>4, <1>5

\* Mutual exclusion, the wakeups, and the rest of the control.
LEMMA ControlInvStep == QueueInv /\ Next => ControlInv'
<1> SUFFICES ASSUME QueueInv, Next PROVE ControlInv'
  OBVIOUS
<1>0. QueueInv /\ TypeOK
  BY DEF QueueInv
<1> USE QueueAssumption
    DEF QueueInv, ControlInv, MutexHeld, NoLostWakeup, TypeOK, PushGoto, PopGoto, listVars,
        pushVars, popVars
<1>1. CASE ControlStep
  <2>1. ASSUME NEW p \in Pusher, PushLock(p) PROVE ControlInv'
    BY <1>0, <2>1 DEF PushLock
  <2>2. ASSUME NEW p \in Pusher, Signal(p) PROVE ControlInv'
    BY <1>0, <2>2 DEF Signal
  <2>3. ASSUME NEW p \in Pusher, PushUnlock(p) PROVE ControlInv'
    BY <1>0, <2>3 DEF PushUnlock
  <2>4. CASE WriterTop \/ WriterStop
    BY <1>0, <2>4 DEF WriterTop, WriterStop
  <2>5. CASE PopLock
    BY <1>0, <2>5 DEF PopLock
  <2>6. CASE PopCheck
    BY <1>0, <2>6 DEF PopCheck
  <2>7. CASE PopUnlock \/ SpuriousWakeup
    BY <1>0, <2>7 DEF PopUnlock, SpuriousWakeup
  <2>8. CASE DestroyStart \/ DestroyEnd
    BY <1>0, <2>8 DEF DestroyStart, DestroyEnd
  <2>9. QED
    BY <1>1, <2>1, <2>2, <2>3, <2>4, <2>5, <2>6, <2>7, <2>8 DEF ControlStep
<1>2. CASE Take
  BY <1>0, <1>2 DEF Take, delete_head
<1>3. CASE FreeNode
  BY <1>0, <1>3 DEF FreeNode
<1>4. ASSUME NEW p \in Pusher, Add(p) PROVE ControlInv'
  BY <1>0, <1>4 DEF Add, add_tail
<1>5. ASSUME NEW p \in Pusher, NEW m \in Msg, new_node(p, m) PROVE ControlInv'
  BY <1>0, <1>5 DEF new_node
<1>6. QED
  BY NextCases, <1>1, <1>2, <1>3, <1>4, <1>5

\* What the pushers have in hand.
LEMMA HeldStep == QueueInv /\ Next => HeldInv'
<1> SUFFICES ASSUME QueueInv, Next PROVE HeldInv'
  OBVIOUS
<1>0. TypeOK /\ HeldInv /\ MutexHeld
  BY DEF QueueInv, ControlInv
<1>a. PICK n \in 0 .. size : \E s \in [1 .. n -> Node] : IsList(s, n)
  BY DEF QueueInv, ListInv
<1>b. PICK s \in [1 .. n -> Node] : IsList(s, n)
  BY <1>a
<1> USE DEF HeldInv, TypeOK, PushGoto, PopGoto, listVars, pushVars, popVars
<1>1. CASE ControlStep
  <2>1. UNCHANGED <<next, prev, node>>
    BY <1>1, ControlFrame
  <2>2. \A p \in Pusher : ppc[p] \in {"lock", "add"} => ppc'[p] \in {"lock", "add"}
    BY <1>0, <1>1 DEF ControlStep, PushLock, Signal, PushUnlock, WriterTop, WriterStop, PopLock,
                PopCheck, PopUnlock, SpuriousWakeup, DestroyStart, DestroyEnd
  <2>3. QED
    BY <1>0, <2>1, <2>2
<1>2. CASE Take
  <2>1. ASSUME NEW p \in Pusher, node[p] # NULL PROVE next'[node[p]] = NULL
    <3>1. next[node[p]] = NULL
      BY <1>0, <2>1
    <3>2. QED
      BY <1>0, <1>2, <2>1, <3>1 DEF Take, delete_head, Link
  <2>2. QED
    BY <1>0, <1>2, <2>1 DEF Take, delete_head
<1>3. CASE FreeNode
  BY <1>0, <1>3 DEF FreeNode
<1>4. ASSUME NEW p \in Pusher, Add(p) PROVE HeldInv'
  <2>1. /\ node'[p] = NULL /\ ppc'[p] = "signal"
        /\ \A q \in Pusher \ {p} : node'[q] = node[q] /\ ppc'[q] = ppc[q]
    BY <1>0, <1>4 DEF Add
  <2>2. ASSUME NEW q \in Pusher \ {p}, node[q] # NULL
        PROVE  next'[node[q]] = NULL /\ prev'[node[q]] = NULL
    <3>1. node[q] # node[p] /\ next[node[q]] = NULL /\ prev[node[q]] = NULL /\ node[q] \in Held
      BY <1>0, <2>2 DEF Held
    <3>2. size # 0 => tail # node[q]
      <4>1. queue = "live"
        BY <1>4 DEF QueueInv, ControlInv, Add
      <4>2. size # 0 => tail = s[size] /\ s[size] \notin Held
        BY <1>0, <1>b, <4>1 DEF IsList, NextChain
      <4>3. QED
        BY <3>1, <4>2
    <3>3. QED
      BY <1>0, <1>4, <2>2, <3>1, <3>2 DEF Add, add_tail, Link
  <2>3. QED
    BY <1>0, <2>1, <2>2
<1>5. ASSUME NEW p \in Pusher, NEW m \in Msg, new_node(p, m) PROVE HeldInv'
  <2>1. \A q \in Pusher : node[q] # NULL => node[q] \in allocated
    BY <1>b DEF Held, IsList
  <2>2. QED
    BY <1>0, <1>5, <2>1 DEF new_node, Link
<1>6. QED
  BY NextCases, <1>1, <1>2, <1>3, <1>4, <1>5

\* A step that leaves the nodes alone, and does not bring the queue back to life.
LEMMA ListFrame ==
  ASSUME QueueInv, UNCHANGED <<listVars, allocated, node>>, queue' = "live" => queue = "live"
  PROVE  ListInv'
<1>1. PICK n \in 0 .. size : \E s \in [1 .. n -> Node] : IsList(s, n)
  BY DEF QueueInv, ListInv
<1>2. PICK s \in [1 .. n -> Node] : IsList(s, n)
  BY <1>1
<1>3. IsList(s, n)'
  BY <1>2 DEF IsList, NextChain, PrevChain, Held, listVars
<1>4. QED
  BY <1>3 DEF ListInv, listVars

\* add_tail puts the pusher's node at the newest end of the list.
LEMMA AddList ==
  ASSUME QueueInv, NEW p \in Pusher, Add(p), NEW x \in Node, node[p] = x,
         NEW n \in Nat, size = n, NEW s \in [1 .. n -> Node], IsList(s, n)
  PROVE  ListInv'
<1> DEFINE t == [k \in 1 .. n + 1 |-> IF k = n + 1 THEN x ELSE s[k]]
<1>0. TypeOK /\ HeldInv /\ queue = "live" /\ x # NULL
  BY QueueAssumption DEF QueueInv, ControlInv, TypeOK, Add, PushGoto
<1>1. x \in Held /\ Held' = Held \ {x}
  <2>1. node'[p] = NULL /\ \A q \in Pusher \ {p} : node'[q] = node[q]
    BY <1>0 DEF Add, TypeOK
  <2>2. \A q \in Pusher \ {p} : node[q] # x
    BY <1>0 DEF HeldInv
  <2>3. QED
    BY <1>0, <2>1, <2>2 DEF Held
<1>2. /\ next[x] = NULL /\ prev[x] = NULL
      /\ NextChain(s, n) /\ PrevChain(s, n)
      /\ allocated = {s[k] : k \in 1 .. n} \union Held
      /\ \A k \in 1 .. n : s[k] \notin Held
  BY <1>0 DEF HeldInv, IsList
<1>3. /\ t \in [1 .. n + 1 -> Node] /\ t[n + 1] = x
      /\ \A k \in 1 .. n : t[k] = s[k] /\ s[k] # x
  BY <1>0, <1>1, <1>2
<1>4. /\ tail' = x /\ size' = n + 1
      /\ UNCHANGED <<allocated, queue>>
      /\ n = 0 => head' = x /\ UNCHANGED <<next, prev>>
      /\ n # 0 => /\ next' = [next EXCEPT ![x] = tail] /\ prev' = [prev EXCEPT ![tail] = x]
                     /\ UNCHANGED head
  BY <1>0 DEF Add, add_tail
<1> HIDE DEF t
<1>5. NextChain(t, n + 1)'
  <2>1. \A j, k \in 1 .. n + 1 : t[j] = t[k] => j = k
    BY <1>0, <1>2, <1>3 DEF NextChain
  <2>2. \A k \in 1 .. n : next'[s[k]] = next[s[k]]
    BY <1>0, <1>3, <1>4 DEF TypeOK
  <2>3. n # 0 => next'[x] = s[n]
    BY <1>0, <1>2, <1>4 DEF TypeOK, NextChain
  <2>4. \A k \in 1 .. n + 1 : next'[t[k]] = IF k = 1 THEN NULL ELSE t[k - 1]
    BY <1>0, <1>2, <1>3, <1>4, <2>2, <2>3 DEF NextChain
  <2>5. QED
    BY <1>0, <1>3, <1>4, <2>1, <2>4 DEF NextChain
<1>6. PrevChain(t, n + 1)'
  <2>1. n # 0 => tail = s[n] /\ prev'[s[n]] = x /\ prev'[x] = NULL
    BY <1>0, <1>2, <1>3, <1>4 DEF TypeOK, NextChain
  <2>2. \A k \in 1 .. n : k # n => prev'[s[k]] = prev[s[k]]
    BY <1>0, <1>2, <1>4 DEF TypeOK, NextChain
  <2>3. \A k \in 1 .. n + 1 : prev'[t[k]] = IF k = n + 1 THEN NULL ELSE t[k + 1]
    BY <1>0, <1>2, <1>3, <1>4, <2>1, <2>2 DEF PrevChain
  <2>4. QED
    BY <1>0, <1>2, <1>3, <1>4, <2>3 DEF PrevChain
<1>7. allocated' = {t[k] : k \in 1 .. n + 1} \union Held'
  BY <1>0, <1>1, <1>2, <1>3, <1>4
<1>8. \A k \in 1 .. n + 1 : t[k] \notin Held'
  BY <1>0, <1>1, <1>2, <1>3
<1>9. IsList(t, n + 1)'
  BY <1>4, <1>5, <1>6, <1>7, <1>8 DEF IsList
<1>10. QED
  BY <1>0, <1>3, <1>4, <1>9 DEF ListInv

\* delete_head takes the oldest node away.
LEMMA TakeList ==
  ASSUME QueueInv, Take, NEW n \in Nat, size = n, NEW s \in [1 .. n -> Node], IsList(s, n)
  PROVE  ListInv'
<1> DEFINE t == [k \in 1 .. n - 1 |-> s[k + 1]]
<1>0. TypeOK /\ queue = "live" /\ n \in Nat \ {0}
  BY DEF QueueInv, ControlInv, TypeOK, Take, PopGoto
<1>1. /\ NextChain(s, n) /\ PrevChain(s, n)
      /\ allocated = {s[k] : k \in 1 .. n} \union Held
      /\ \A k \in 1 .. n : s[k] \notin Held
  BY <1>0 DEF IsList
<1>2. head = s[1] /\ tail = s[n] /\ (head = tail <=> n = 1)
  BY <1>0, <1>1 DEF NextChain, PrevChain
<1>3. n # 1 => prev[head] = s[2]
  BY <1>0, <1>1, <1>2 DEF PrevChain
<1>4. /\ size' = n - 1 /\ allocated' = allocated \ {s[1]} /\ Held' = Held
      /\ prev' = prev /\ queue' = queue
      /\ n = 1 => head' = NULL /\ tail' = NULL /\ next' = next
      /\ n # 1 => head' = s[2] /\ tail' = tail /\ next' = [next EXCEPT ![s[2]] = NULL]
  BY <1>2, <1>3 DEF Take, delete_head, Held, pushVars
<1>5. /\ t \in [1 .. n - 1 -> Node]
      /\ \A k \in 1 .. n - 1 : t[k] = s[k + 1] /\ k + 1 \in 1 .. n
  BY <1>0
<1> HIDE DEF t
<1>6. NextChain(t, n - 1)'
  <2>1. \A j, k \in 1 .. n - 1 : t[j] = t[k] => j = k
    BY <1>0, <1>1, <1>5 DEF NextChain
  <2>2. ASSUME NEW k \in 1 .. n - 1
        PROVE  next'[t[k]] = IF k = 1 THEN NULL ELSE t[k - 1]
    <3>1. n # 1
      BY <1>0
    <3>2. CASE k = 1
      BY <1>0, <1>4, <1>5, <3>1, <3>2 DEF TypeOK
    <3>3. CASE k # 1
      <4>1. s[k + 1] # s[2] /\ next[s[k + 1]] = s[k] /\ t[k - 1] = s[k]
        BY <1>0, <1>1, <1>5, <3>3 DEF NextChain
      <4>2. QED
        BY <1>0, <1>4, <1>5, <3>1, <3>3, <4>1 DEF TypeOK
    <3>4. QED
      BY <3>2, <3>3
  <2>3. tail' = IF n - 1 = 0 THEN NULL ELSE t[n - 1]
    BY <1>0, <1>2, <1>4, <1>5
  <2>4. QED
    BY <2>1, <2>2, <2>3 DEF NextChain
<1>7. PrevChain(t, n - 1)'
  <2>1. \A k \in 1 .. n - 1 : prev'[t[k]] = IF k = n - 1 THEN NULL ELSE t[k + 1]
    BY <1>0, <1>1, <1>4, <1>5 DEF PrevChain
  <2>2. head' = IF n - 1 = 0 THEN NULL ELSE t[1]
    BY <1>0, <1>4, <1>5
  <2>3. QED
    BY <2>1, <2>2 DEF PrevChain
<1>8. allocated' = {t[k] : k \in 1 .. n - 1} \union Held'
  <2>1. s[1] \notin Held /\ \A k \in 1 .. n - 1 : t[k] # s[1]
    BY <1>0, <1>1, <1>5 DEF NextChain
  <2>2. {s[k] : k \in 1 .. n} = {s[1]} \union {t[k] : k \in 1 .. n - 1}
    <3>1. \A k \in 1 .. n : k # 1 => k - 1 \in 1 .. n - 1 /\ t[k - 1] = s[k]
      BY <1>0, <1>5
    <3>2. 1 \in 1 .. n
      BY <1>0
    <3>3. QED
      BY <1>5, <3>1, <3>2
  <2>3. s[1] \notin {t[k] : k \in 1 .. n - 1}
    BY <2>1
  <2>4. QED
    BY <1>1, <1>4, <2>1, <2>2, <2>3
<1>9. \A k \in 1 .. n - 1 : t[k] \notin Held'
  BY <1>0, <1>1, <1>4, <1>5
<1>10. IsList(t, n - 1)'
  BY <1>4, <1>6, <1>7, <1>8, <1>9 DEF IsList
<1>11. QED
  BY <1>0, <1>4, <1>5, <1>10 DEF ListInv

\* new_node adds to what the pushers have in hand.
LEMMA NewNodeList ==
  ASSUME QueueInv, NEW p \in Pusher, NEW m \in Msg, new_node(p, m),
         NEW n \in 0 .. size, NEW s \in [1 .. n -> Node], IsList(s, n)
  PROVE  ListInv'
<1>0. TypeOK /\ node[p] = NULL
  BY DEF QueueInv, HeldInv, new_node, PushGoto
<1>1. UNCHANGED <<head, tail, size, queue>>
  BY DEF new_node
<1>2. ASSUME NEW x \in Node \ allocated, allocated' = allocated \union {x},
             node' = [node EXCEPT ![p] = x],
             next' = [next EXCEPT ![x] = NULL], prev' = [prev EXCEPT ![x] = NULL]
      PROVE  IsList(s, n)'
  <2>1. \A k \in 1 .. n : s[k] # x
    BY <1>2 DEF IsList
  <2>2. \A k \in 1 .. n : next'[s[k]] = next[s[k]] /\ prev'[s[k]] = prev[s[k]]
    BY <1>0, <1>2, <2>1 DEF TypeOK
  <2>3. Held' = Held \union {x}
    <3>1. node'[p] = x /\ \A q \in Pusher \ {p} : node'[q] = node[q]
      BY <1>0, <1>2 DEF TypeOK
    <3>2. x # NULL
      BY QueueAssumption
    <3>3. QED
      BY <1>0, <3>1, <3>2 DEF Held
  <2>4. NextChain(s, n)' /\ (queue' = "live" => n = size' /\ PrevChain(s, n)')
    BY <1>1, <2>2 DEF IsList, NextChain, PrevChain
  <2>5. QED
    BY <1>2, <2>1, <2>3, <2>4 DEF IsList
<1>3. CASE node' = [node EXCEPT ![p] = NULL] /\ UNCHANGED <<next, prev, msg, allocated>>
  <2>1. Held' = Held
    <3>1. \A q \in Pusher : node'[q] = node[q]
      BY <1>0, <1>3 DEF TypeOK
    <3>2. QED
      BY <3>1 DEF Held
  <2>2. QED
    BY <1>1, <1>3, <2>1 DEF IsList, NextChain, PrevChain, ListInv
<1>4. QED
  BY <1>1, <1>2, <1>3 DEF new_node, ListInv

\* The loop of destroy_log_queue takes the newest node away.
LEMMA FreeList ==
  ASSUME QueueInv, FreeNode,
         NEW n \in 0 .. size, NEW s \in [1 .. n -> Node], IsList(s, n)
  PROVE  ListInv'
<1> DEFINE t == [k \in 1 .. n - 1 |-> s[k]]
<1>0. size \in Nat /\ n # 0 /\ n - 1 \in 0 .. size /\ n \in Nat
  BY DEF QueueInv, TypeOK, FreeNode, IsList, NextChain
<1>1. /\ NextChain(s, n) /\ tail = s[n]
      /\ allocated = {s[k] : k \in 1 .. n} \union Held
      /\ \A k \in 1 .. n : s[k] \notin Held
  BY <1>0 DEF IsList, NextChain
<1>2. /\ tail' = next[s[n]] /\ allocated' = allocated \ {s[n]}
      /\ UNCHANGED <<size, next, queue>> /\ Held' = Held /\ queue # "live"
  BY <1>1 DEF FreeNode, Held, pushVars
<1>3. t \in [1 .. n - 1 -> Node] /\ \A k \in 1 .. n - 1 : t[k] = s[k] /\ k \in 1 .. n
  BY <1>0
<1> HIDE DEF t
<1>4. NextChain(t, n - 1)'
  <2>1. tail' = IF n - 1 = 0 THEN NULL ELSE t[n - 1]
    BY <1>0, <1>1, <1>2, <1>3 DEF NextChain
  <2>2. \A k \in 1 .. n - 1 : next'[t[k]] = IF k = 1 THEN NULL ELSE t[k - 1]
    BY <1>0, <1>1, <1>2, <1>3 DEF NextChain
  <2>3. \A j, k \in 1 .. n - 1 : t[j] = t[k] => j = k
    BY <1>0, <1>1, <1>3 DEF NextChain
  <2>4. QED
    BY <2>1, <2>2, <2>3 DEF NextChain
<1>5. allocated' = {t[k] : k \in 1 .. n - 1} \union Held'
  <2>1. s[n] \notin Held /\ \A k \in 1 .. n - 1 : t[k] # s[n]
    BY <1>0, <1>1, <1>3 DEF NextChain
  <2>2. {s[k] : k \in 1 .. n} = {s[n]} \union {t[k] : k \in 1 .. n - 1}
    <3>1. \A k \in 1 .. n : k # n => k \in 1 .. n - 1 /\ t[k] = s[k]
      BY <1>0, <1>3
    <3>2. n \in 1 .. n
      BY <1>0
    <3>3. QED
      BY <1>3, <3>1, <3>2
  <2>3. s[n] \notin {t[k] : k \in 1 .. n - 1}
    BY <2>1
  <2>4. QED
    BY <1>1, <1>2, <2>1, <2>2, <2>3
<1>6. \A k \in 1 .. n - 1 : t[k] \notin Held'
  BY <1>1, <1>2, <1>3
<1>7. IsList(t, n - 1)'
  BY <1>2, <1>4, <1>5, <1>6 DEF IsList
<1>8. QED
  BY <1>0, <1>2, <1>3, <1>7 DEF ListInv

\* The list.
LEMMA ListStep == QueueInv /\ Next => ListInv'
<1> SUFFICES ASSUME QueueInv, Next PROVE ListInv'
  OBVIOUS
<1>1. PICK n \in 0 .. size : \E s \in [1 .. n -> Node] : IsList(s, n)
  BY DEF QueueInv, ListInv
<1>2. PICK s \in [1 .. n -> Node] : IsList(s, n)
  BY <1>1
<1>3. size \in Nat /\ n \in Nat
  BY DEF QueueInv, TypeOK
<1>5. CASE ControlStep
  <2>1. queue' = "live" => queue = "live"
    BY <1>5 DEF ControlStep, PushLock, Signal, PushUnlock, WriterTop, WriterStop, PopLock,
                PopCheck, PopUnlock, SpuriousWakeup, DestroyStart, DestroyEnd
  <2>2. QED
    BY <1>5, <2>1, ControlFrame, ListFrame
<1>6. CASE Take
  <2>1. queue = "live"
    BY <1>6 DEF Take, PopGoto, QueueInv, ControlInv
  <2>2. size = n
    BY <1>2, <2>1 DEF IsList
  <2>3. QED
    BY <1>2, <1>3, <1>6, <2>2, TakeList
<1>7. CASE FreeNode
  BY <1>2, <1>7, FreeList
<1>8. ASSUME NEW p \in Pusher, Add(p) PROVE ListInv'
  <2>1. queue = "live" /\ node \in [Pusher -> Link]
    BY <1>8 DEF Add, PushGoto, QueueInv, ControlInv, TypeOK
  <2>2. size = n
    BY <1>2, <2>1 DEF IsList
  <2>3. CASE node[p] = NULL
    <3>1. UNCHANGED <<listVars, allocated, node, queue>>
      BY <1>8, <2>1, <2>3 DEF Add, add_tail
    <3>2. QED
      BY <3>1, ListFrame
  <2>4. CASE node[p] # NULL
    BY <1>2, <1>3, <1>8, <2>1, <2>2, <2>4, AddList DEF Link
  <2>5. QED
    BY <2>3, <2>4
<1>9. ASSUME NEW p \in Pusher, NEW m \in Msg, new_node(p, m) PROVE ListInv'
  BY <1>2, <1>9, NewNodeList
<1>10. QED
  BY NextCases, <1>5, <1>6, <1>7, <1>8, <1>9

-------------------------------------------------------------------------------

\* A new queue satisfies the invariant.
LEMMA QueueInit == Init => QueueInv
<1> SUFFICES ASSUME Init PROVE QueueInv
  OBVIOUS
<1>1. TypeOK /\ ControlInv /\ HeldInv
  BY DEF Init, TypeOK, Link, ControlInv, MutexHeld, NoLostWakeup, HeldInv
<1>2. ListInv
  <2> DEFINE s == [k \in 1 .. 0 |-> NULL]
  <2>1. s \in [1 .. 0 -> Node] /\ 0 \in 0 .. size
    BY DEF Init
  <2>2. Held = {}
    BY DEF Init, Held
  <2>3. IsList(s, 0)
    BY <2>2 DEF Init, IsList, NextChain, PrevChain
  <2>4. QED
    BY <2>1, <2>3 DEF ListInv
<1>3. QED
  BY <1>1, <1>2 DEF QueueInv

\* One step of the queue preserves the invariant.
LEMMA QueueStep == QueueInv /\ [Next]_vars => QueueInv'
<1> SUFFICES ASSUME QueueInv, [Next]_vars PROVE QueueInv'
  OBVIOUS
<1>1. CASE Next
  BY <1>1, TypeStep, ControlInvStep, HeldStep, ListStep DEF QueueInv
<1>2. CASE UNCHANGED vars
  <2> USE <1>2 DEF QueueInv, vars, listVars, pushVars, popVars
  <2>1. TypeOK' /\ ControlInv' /\ HeldInv'
    BY DEF TypeOK, ControlInv, MutexHeld, NoLostWakeup, HeldInv
  <2>2. ListInv'
    BY ListFrame
  <2>3. QED
    BY <2>1, <2>2
<1>3. QED
  BY <1>1, <1>2

\* The invariant holds in every reachable state.
THEOREM QueueInvariant == Spec => []QueueInv
BY QueueInit, QueueStep, PTL DEF Spec

\* The list is well formed and accounts for every node, however the pushes, the
\* pops and the destruction interleave.
THEOREM ListIsWellFormed == Spec => []ListInv
<1>1. QueueInv => ListInv
  BY DEF QueueInv
<1>2. QED
  BY QueueInvariant, <1>1, PTL

\* The writer never sleeps through a message.
THEOREM WakeupsAreNotLost == Spec => []NoLostWakeup
<1>1. QueueInv => NoLostWakeup
  BY DEF QueueInv, ControlInv
<1>2. QED
  BY QueueInvariant, <1>1, PTL

\* When the queue is destroyed the list is empty, and no pusher holds a node.
LEMMA DestroyedIsEmpty == QueueInv => AllFreed
<1> SUFFICES ASSUME QueueInv, queue = "destroyed" PROVE allocated = {}
  BY DEF AllFreed
<1>1. Held = {}
  BY DEF QueueInv, ControlInv, HeldInv, Held
<1>2. PICK n \in 0 .. size : \E s \in [1 .. n -> Node] : IsList(s, n)
  BY DEF QueueInv, ListInv
<1>3. PICK s \in [1 .. n -> Node] : IsList(s, n)
  BY <1>2
<1>4. n = 0
  <2>1. tail = NULL /\ size \in Nat
    BY DEF QueueInv, ControlInv, TypeOK
  <2>2. n # 0 => s[n] \in Node
    BY <2>1
  <2>3. QED
    BY <1>3, <2>1, <2>2, QueueAssumption DEF IsList, NextChain
<1>5. {s[k] : k \in 1 .. n} = {}
  <2>1. 1 .. n = {}
    BY <1>4
  <2>2. QED
    BY <2>1, Zenon
<1>6. QED
  BY <1>1, <1>3, <1>5 DEF IsList

\* destroy_log_queue leaves no node allocated.
THEOREM DestroyFreesAll == Spec => []AllFreed
BY QueueInvariant, DestroyedIsEmpty, PTL

-------------------------------------------------------------------------------
\* SharedPtr.

\* CountsOwners and SameObject, element by element.
Reached ==
  /\ \A p \in Ptr : Shared!Constructed(p) => obj_counter_[p] \in counters
  /\ \A c \in counters : \E p \in Ptr : obj_counter_[p] = c
  /\ \A p \in Ptr : ptr_[p] # nullptr => ptr_[p] \in objects
  /\ \A o \in objects : \E p \in Ptr : ptr_[p] = o

CountersReached == counters = {obj_counter_[p] : p \in Ptr} \ {nullptr}
ObjectsReached == objects = {ptr_[p] : p \in Ptr} \ {nullptr}

Counted == \A c \in counters : count[c] = Cardinality(Shared!Owners(c))

IInv == Shared!TypeOK /\ Shared!SameObject /\ Reached /\ Counted

\* How the number of owners of c changes when pointer p goes over to counter d.
Moves(p, d, c) ==
  Cardinality(Shared!Owners(c)') =
    Cardinality(Shared!Owners(c))
      + (IF c = d THEN 1 ELSE 0) - (IF c = obj_counter_[p] THEN 1 ELSE 0)

USE SharedAssumption DEF SharedAssumption

\* The owners of a counter are finitely many.
LEMMA OwnersFinite ==
  ASSUME NEW c
  PROVE  IsFiniteSet(Shared!Owners(c)) /\ Cardinality(Shared!Owners(c)) \in Nat
BY FS_Subset, FS_CardinalityType DEF Shared!Owners

\* When pointer p goes over to counter d, it leaves the owners of its old counter and
\* joins those of d; the other counters keep their owners.
LEMMA OwnersMove ==
  ASSUME Shared!TypeOK, NEW p \in Ptr, NEW d \in Counter \union {nullptr},
         obj_counter_' = [obj_counter_ EXCEPT ![p] = d], NEW c \in Counter
  PROVE  Moves(p, d, c)
<1>1. IsFiniteSet(Shared!Owners(c))
  BY OwnersFinite
<1>2. Shared!Owners(c)' = IF c = d THEN Shared!Owners(c) \union {p} ELSE Shared!Owners(c) \ {p}
  BY DEF Shared!Owners, Shared!TypeOK
<1>3. p \in Shared!Owners(c) <=> obj_counter_[p] = c
  BY DEF Shared!Owners
<1>4. /\ p \in Shared!Owners(c) => Shared!Owners(c) \union {p} = Shared!Owners(c)
      /\ p \notin Shared!Owners(c) => Shared!Owners(c) \ {p} = Shared!Owners(c)
  OBVIOUS
<1>5. p \notin Shared!Owners(c) =>
        Cardinality(Shared!Owners(c) \union {p}) = Cardinality(Shared!Owners(c)) + 1
  BY <1>1, FS_AddElement
<1>6. p \in Shared!Owners(c) =>
        Cardinality(Shared!Owners(c) \ {p}) = Cardinality(Shared!Owners(c)) - 1
  BY <1>1, FS_RemoveElement
<1>7. Cardinality(Shared!Owners(c)) \in Nat
  BY OwnersFinite
<1>8. CASE c = d
  BY <1>2, <1>3, <1>4, <1>5, <1>7, <1>8 DEF Moves
<1>9. CASE c # d
  <2>1. Shared!Owners(c)' = Shared!Owners(c) \ {p}
    BY <1>2, <1>9
  <2>2. CASE p \in Shared!Owners(c)
    BY <1>3, <1>6, <1>7, <1>9, <2>1, <2>2 DEF Moves
  <2>3. CASE p \notin Shared!Owners(c)
    <3>1. Shared!Owners(c)' = Shared!Owners(c)
      BY <1>4, <2>1, <2>3
    <3>2. c # obj_counter_[p]
      BY <1>3, <2>3
    <3> QED
      BY <1>7, <1>9, <3>1, <3>2 DEF Moves
  <2> QED
    BY <2>2, <2>3
<1> QED
  BY <1>8, <1>9

\* The counter of p comes down to 0 exactly when p is its only owner.
LEMMA LastOwner ==
  ASSUME IInv, NEW p \in Ptr, Shared!Constructed(p)
  PROVE  /\ Shared!Dropped(p) \in Nat
         /\ Shared!Dropped(p) = 0 <=> \A q \in Ptr : obj_counter_[q] = obj_counter_[p] => q = p
<1> DEFINE S == Shared!Owners(obj_counter_[p])
<1>1. IsFiniteSet(S) /\ Cardinality(S) \in Nat
  BY OwnersFinite DEF IInv
<1>2. p \in S
  BY DEF Shared!Owners
<1>3. count[obj_counter_[p]] = Cardinality(S)
  BY DEF IInv, Counted, Reached
<1>4. IsFiniteSet(S \ {p}) /\ Cardinality(S \ {p}) = Cardinality(S) - 1
  BY <1>1, <1>2, FS_RemoveElement
<1>5. Cardinality(S \ {p}) \in Nat /\ (Cardinality(S \ {p}) = 0 <=> S \ {p} = {})
  BY <1>4, FS_CardinalityType, FS_EmptySet
<1>6. S \ {p} = {} <=> \A q \in Ptr : obj_counter_[q] = obj_counter_[p] => q = p
  BY DEF Shared!Owners
<1> QED
  BY <1>1, <1>4, <1>5, <1>6, <1>3 DEF Shared!Dropped

\* No pointer, no counter, no object.
LEMMA SharedInit == Shared!Init => IInv
BY DEF Shared!Init, IInv, Shared!TypeOK, Shared!SameObject, Reached, Counted, Shared!Constructed

\* SharedPtr(ptr) starts a counter at its first owner.
LEMMA ConstructInv ==
  ASSUME IInv, NEW p \in Ptr, NEW o \in Object \union {nullptr}, NEW c \in Counter,
         Shared!Construct(p, o, c)
  PROVE  IInv'
<1>1. Shared!TypeOK'
  BY DEF IInv, Shared!TypeOK, Shared!Construct
<1>2. Shared!SameObject'
  BY DEF IInv, Shared!TypeOK, Shared!Construct, Shared!SameObject, Reached, Shared!Constructed
<1>3. Reached'
  BY DEF IInv, Shared!TypeOK, Shared!Construct, Reached, Shared!SameObject, Shared!Constructed
<1>4. Shared!Owners(c) = {}
  BY DEF IInv, Reached, Shared!Construct, Shared!Constructed, Shared!Owners, Shared!TypeOK
<1>5. Cardinality(Shared!Owners(c)) = 0
  BY <1>4, FS_EmptySet
<1>6. Counted'
  <2> SUFFICES ASSUME NEW x \in counters' PROVE count'[x] = Cardinality(Shared!Owners(x)')
    BY DEF Counted
  <2>1. /\ x \in Counter /\ obj_counter_' = [obj_counter_ EXCEPT ![p] = c]
        /\ c \in Counter \union {nullptr}
    BY <1>1 DEF IInv, Shared!TypeOK, Shared!Construct, Shared!Constructed
  <2>2. Moves(p, c, x)
    BY <2>1, OwnersMove DEF IInv
  <2>3. Cardinality(Shared!Owners(x)) \in Nat
    BY OwnersFinite DEF IInv
  <2> QED
    BY <1>5, <2>1, <2>2, <2>3 DEF Moves, IInv, Counted, Reached, Shared!TypeOK, Shared!Construct,
       Shared!Constructed
<1> QED
  BY <1>1, <1>2, <1>3, <1>6 DEF IInv

\* The copy constructor adds an owner and counts it.
LEMMA CopyInv ==
  ASSUME IInv, NEW p \in Ptr, NEW q \in Ptr, Shared!Copy(p, q)
  PROVE  IInv'
<1>1. Shared!TypeOK'
  BY DEF IInv, Shared!TypeOK, Shared!Copy, Shared!Constructed
<1>2. Shared!SameObject'
  BY DEF IInv, Shared!TypeOK, Shared!Copy, Shared!SameObject, Shared!Constructed
<1>3. Reached'
  BY DEF IInv, Shared!TypeOK, Shared!Copy, Reached, Shared!SameObject, Shared!Constructed
<1>4. Counted'
  <2> SUFFICES ASSUME NEW x \in counters' PROVE count'[x] = Cardinality(Shared!Owners(x)')
    BY DEF Counted
  <2>1. /\ x \in Counter /\ obj_counter_' = [obj_counter_ EXCEPT ![p] = obj_counter_[q]]
        /\ obj_counter_[q] \in Counter \union {nullptr}
    BY <1>1 DEF IInv, Shared!TypeOK, Shared!Copy, Shared!Constructed
  <2>2. Moves(p, obj_counter_[q], x)
    BY <2>1, OwnersMove DEF IInv
  <2>3. Cardinality(Shared!Owners(x)) \in Nat
    BY OwnersFinite DEF IInv
  <2> QED
    BY <2>1, <2>2, <2>3 DEF Moves, IInv, Counted, Reached, Shared!TypeOK, Shared!Copy,
       Shared!Constructed
<1> QED
  BY <1>1, <1>2, <1>3, <1>4 DEF IInv

\* The destructor deletes object and counter with their last owner.
LEMMA DestroyInv ==
  ASSUME IInv, NEW p \in Ptr, Shared!Destroy(p)
  PROVE  IInv'
<1>1. /\ Shared!Dropped(p) \in Nat
      /\ Shared!Dropped(p) = 0 <=> \A q \in Ptr : obj_counter_[q] = obj_counter_[p] => q = p
  BY LastOwner DEF Shared!Destroy
<1>2. Shared!TypeOK'
  BY <1>1 DEF IInv, Shared!TypeOK, Shared!Destroy, Shared!ObjectsLeft, Shared!CountersLeft
<1>3. Shared!SameObject'
  BY DEF IInv, Shared!TypeOK, Shared!Destroy, Shared!SameObject, Shared!Constructed
<1>4. Reached'
  BY <1>1 DEF IInv, Shared!TypeOK, Shared!Destroy, Reached, Shared!SameObject, Shared!Constructed,
     Shared!ObjectsLeft, Shared!CountersLeft
<1>5. Counted'
  <2> SUFFICES ASSUME NEW x \in counters' PROVE count'[x] = Cardinality(Shared!Owners(x)')
    BY DEF Counted
  <2>1. /\ x \in Counter /\ obj_counter_' = [obj_counter_ EXCEPT ![p] = nullptr]
        /\ nullptr \in Counter \union {nullptr}
    BY <1>2 DEF IInv, Shared!TypeOK, Shared!Destroy, Shared!Constructed
  <2>2. Moves(p, nullptr, x)
    BY <2>1, OwnersMove DEF IInv
  <2>3. Cardinality(Shared!Owners(x)) \in Nat
    BY OwnersFinite DEF IInv
  <2> QED
    BY <1>1, <2>1, <2>2, <2>3 DEF Moves, IInv, Counted, Reached, Shared!TypeOK, Shared!Destroy,
       Shared!Constructed, Shared!Dropped, Shared!CountersLeft
<1> QED
  BY <1>2, <1>3, <1>4, <1>5 DEF IInv

\* reset gives up one counter and starts another.
LEMMA ResetInv ==
  ASSUME IInv, NEW p \in Ptr, NEW o \in Object \union {nullptr}, NEW c \in Counter,
         Shared!reset(p, o, c)
  PROVE  IInv'
<1>1. /\ Shared!Dropped(p) \in Nat
      /\ Shared!Dropped(p) = 0 <=> \A q \in Ptr : obj_counter_[q] = obj_counter_[p] => q = p
  BY LastOwner DEF Shared!reset
<1>2. Shared!TypeOK'
  BY <1>1 DEF IInv, Shared!TypeOK, Shared!reset, Shared!ObjectsLeft, Shared!CountersLeft
<1>3. Shared!SameObject'
  BY <1>1 DEF IInv, Shared!TypeOK, Shared!reset, Shared!SameObject, Reached, Shared!Constructed,
     Shared!CountersLeft
<1>4. Reached'
  BY <1>1 DEF IInv, Shared!TypeOK, Shared!reset, Reached, Shared!SameObject, Shared!Constructed,
     Shared!ObjectsLeft, Shared!CountersLeft
<1>5. c # obj_counter_[p] => Shared!Owners(c) = {}
  BY DEF IInv, Reached, Shared!reset, Shared!Constructed, Shared!Owners, Shared!TypeOK,
     Shared!CountersLeft
<1>6. c # obj_counter_[p] => Cardinality(Shared!Owners(c)) = 0
  BY <1>5, FS_EmptySet
<1>7. c = obj_counter_[p] => Cardinality(Shared!Owners(c)) = 1
  BY OwnersFinite DEF IInv, Reached, Counted, Shared!reset, Shared!Constructed, Shared!Dropped,
     Shared!CountersLeft, Shared!TypeOK
<1>8. Counted'
  <2> SUFFICES ASSUME NEW x \in counters' PROVE count'[x] = Cardinality(Shared!Owners(x)')
    BY DEF Counted
  <2>1. /\ x \in Counter /\ obj_counter_' = [obj_counter_ EXCEPT ![p] = c]
        /\ c \in Counter \union {nullptr}
    BY <1>2 DEF IInv, Shared!TypeOK, Shared!reset, Shared!Constructed
  <2>2. Moves(p, c, x)
    BY <2>1, OwnersMove DEF IInv
  <2>3. Cardinality(Shared!Owners(x)) \in Nat
    BY OwnersFinite DEF IInv
  <2> QED
    BY <1>1, <1>6, <1>7, <2>1, <2>2, <2>3 DEF Moves, IInv, Counted, Reached, Shared!TypeOK,
       Shared!reset, Shared!Constructed, Shared!Dropped, Shared!CountersLeft
<1> QED
  BY <1>2, <1>3, <1>4, <1>8 DEF IInv

\* operator= gives up one counter and counts at another, or at the same.
LEMMA AssignInv ==
  ASSUME IInv, NEW p \in Ptr, NEW q \in Ptr, Shared!Assign(p, q)
  PROVE  IInv'
<1>1. /\ Shared!Dropped(p) \in Nat
      /\ Shared!Dropped(p) = 0 <=> \A r \in Ptr : obj_counter_[r] = obj_counter_[p] => r = p
  BY LastOwner DEF Shared!Assign
<1>2. Shared!TypeOK'
  BY <1>1 DEF IInv, Shared!TypeOK, Shared!Assign, Shared!ObjectsLeft, Shared!CountersLeft,
     Shared!Constructed
<1>3. Shared!SameObject'
  BY DEF IInv, Shared!TypeOK, Shared!Assign, Shared!SameObject, Shared!Constructed
<1>4. Reached'
  BY <1>1 DEF IInv, Shared!TypeOK, Shared!Assign, Reached, Shared!SameObject, Shared!Constructed,
     Shared!ObjectsLeft, Shared!CountersLeft
<1>5. Counted'
  <2> SUFFICES ASSUME NEW x \in counters' PROVE count'[x] = Cardinality(Shared!Owners(x)')
    BY DEF Counted
  <2>1. /\ x \in Counter /\ obj_counter_' = [obj_counter_ EXCEPT ![p] = obj_counter_[q]]
        /\ obj_counter_[q] \in Counter \union {nullptr}
    BY <1>2 DEF IInv, Shared!TypeOK, Shared!Assign, Shared!Constructed
  <2>2. Moves(p, obj_counter_[q], x)
    BY <2>1, OwnersMove DEF IInv
  <2>3. Cardinality(Shared!Owners(x)) \in Nat
    BY OwnersFinite DEF IInv
  <2> QED
    BY <1>1, <2>1, <2>2, <2>3 DEF Moves, IInv, Counted, Reached, Shared!TypeOK, Shared!Assign,
       Shared!Constructed, Shared!Dropped, Shared!CountersLeft
<1> QED
  BY <1>2, <1>3, <1>4, <1>5 DEF IInv

\* The instance's own copy of Cardinality is Cardinality.
LEMMA SameCardinality == \A S : Shared!Cardinality(S) = Cardinality(S)
  BY Zenon DEF Shared!Cardinality, Cardinality

\* What the run checks follows from the invariant.
LEMMA OwnersAreCounted == IInv => Shared!CountsOwners
<1> SUFFICES ASSUME IInv PROVE Shared!CountsOwners
  OBVIOUS
<1>1. CountersReached
  BY DEF IInv, Reached, Shared!TypeOK, Shared!Constructed, CountersReached
<1>2. ObjectsReached
  BY DEF IInv, Reached, Shared!TypeOK, ObjectsReached
<1>3. Counted
  BY DEF IInv
<1>4. Counted /\ CountersReached /\ ObjectsReached => Shared!CountsOwners
  BY SameCardinality, Zenon DEF Counted, CountersReached, ObjectsReached, Shared!CountsOwners
<1> QED
  BY <1>1, <1>2, <1>3, <1>4

\* Every call preserves the invariant.
LEMMA SharedStep == IInv /\ [Shared!Next]_(Shared!vars) => IInv'
<1> SUFFICES ASSUME IInv, [Shared!Next]_(Shared!vars) PROVE IInv'
  OBVIOUS
<1>1. CASE Shared!Next
  BY <1>1, ConstructInv, CopyInv, DestroyInv, ResetInv, AssignInv DEF Shared!Next
<1>2. CASE UNCHANGED Shared!vars
  BY <1>2
  DEF Shared!vars, IInv, Shared!TypeOK, Shared!SameObject, Reached, Counted, Shared!Constructed,
      Shared!Owners
<1> QED
  BY <1>1, <1>2

\* For every number of pointers, objects and counters: SharedPtr's counters hold the
\* number of their owners, and objects and counters are allocated exactly while some
\* SharedPtr leads to them.
THEOREM SharedPtrCounts == Shared!Spec => []CountsOwners
<1>1. IInv => CountsOwners
  BY OwnersAreCounted DEF CountsOwners
<1> QED
  BY SharedInit, SharedStep, <1>1, PTL DEF Shared!Spec

-------------------------------------------------------------------------------
\* The two programs side by side: the invariants hold of the one that runs and of the one
\* that stays at its start.
THEOREM MemoryKept == MCSpec => [](ListInv /\ AllFreed /\ NoLostWakeup /\ CountsOwners)
<1>1. MCInit => QueueInv /\ IInv
  BY QueueInit, SharedInit DEF MCInit
<1>2. [MCNext]_<<program, vars, sharedVars>> => [Next]_vars /\ [Shared!Next]_(Shared!vars)
  BY DEF MCNext, sharedVars, Shared!vars
<1>3. QueueInv /\ IInv /\ [MCNext]_<<program, vars, sharedVars>> => (QueueInv /\ IInv)'
  BY <1>2, QueueStep, SharedStep
<1>4. QueueInv /\ IInv => ListInv /\ AllFreed /\ NoLostWakeup /\ CountsOwners
  BY DestroyedIsEmpty, OwnersAreCounted DEF QueueInv, ControlInv, CountsOwners
<1> QED
  BY <1>1, <1>3, <1>4, PTL DEF MCSpec
===============================================================================
