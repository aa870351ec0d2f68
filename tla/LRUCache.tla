-------------------------------- MODULE LRUCache -------------------------------
(***************************************************************************)
(* src/c++/LRUCache: a map from keys to the nodes of a doubly linked list, *)
(* where tail is the node to evict and head the one used last.  Every set  *)
(* makes a node, numbered by the calls; the number of the call is also the *)
(* value that is set.  Node 0 is NULL.                                     *)
(***************************************************************************)
EXTENDS Integers, Sequences, SequencesExt, TLC

CONSTANTS Key, Capacities, MaxSets

VARIABLES
  cp, mp, head, tail, act_size,
  node,         \* what each node holds: next, prev, key, value
  freed,        \* nodes that were deleted
  corrupt,      \* a deleted node was used; what follows depends on the heap
  order, last,  \* the keys in the order of their use, the value each was set to last
  atEnd         \* a hit was on the node at the head or at the tail

vars == <<cp, mp, head, tail, act_size, node, freed, corrupt, order, last, atEnd>>

Init ==
  /\ cp \in Capacities /\ mp = <<>> /\ head = 0 /\ tail = 0 /\ act_size = 0
  /\ node = <<>> /\ freed = {} /\ corrupt = FALSE
  /\ order = <<>> /\ last = <<>> /\ atEnd = FALSE

Known(key) == key \in DOMAIN mp

Sets == Len(node)

NewNode(key) == [next |-> 0, prev |-> 0, key |-> key, value |-> Sets + 1]

-------------------------------------------------------------------------------

SetNext(nodes, n, m) == [nodes EXCEPT ![n].next = m]
SetPrev(nodes, n, m) == [nodes EXCEPT ![n].prev = m]

\* The assignments of moveToHead, in their order.
moveToHead(nodes, n) ==
  LET next == nodes[n].next
      ns1 == IF next # 0 THEN SetPrev(nodes, next, nodes[n].prev) ELSE nodes
      prev == ns1[n].prev
      ns2 == IF prev # 0 THEN SetNext(ns1, prev, next) ELSE ns1
      ns3 == SetNext(ns2, head, n)
  IN  SetPrev(SetNext(ns3, n, 0), n, head)

\* The history, which ends with a hit at an end of the list.
Record(keys, values) ==
  /\ order' = IF atEnd' THEN <<>> ELSE keys
  /\ last' = IF atEnd' THEN <<>> ELSE values

\* A call uses the nodes in S; if one of them was deleted, nothing more can be said.
Uses(S) == S \intersect freed = {}

Corrupted(S) ==
  /\ ~Uses(S) /\ corrupt' = TRUE
  /\ UNCHANGED <<cp, mp, head, tail, act_size, node, freed, order, last>>

AtEnd(key) == atEnd \/ mp[key] \in {head, tail}

Used(key) == Append(Remove(order, key), key)

HitUses(n) == {n, node[n].next, node[n].prev, head}

Hit(key, nodes) ==
  /\ node' = moveToHead(nodes, mp[key]) /\ head' = mp[key]
  /\ UNCHANGED <<cp, mp, tail, act_size, freed, corrupt>>

get(key) ==
  /\ ~corrupt /\ Known(key) /\ atEnd' = AtEnd(key)
  /\ \/ Uses(HitUses(mp[key])) /\ Hit(key, node) /\ Record(Used(key), last)
     \/ Corrupted(HitUses(mp[key]))

\* set of a key that is there; the node it has made at its start is lost.
SetHit(key) ==
  /\ ~corrupt /\ Known(key) /\ Sets < MaxSets /\ atEnd' = AtEnd(key)
  /\ \/ /\ Uses(HitUses(mp[key]))
        /\ Hit(key, [Append(node, NewNode(key)) EXCEPT ![mp[key]].value = Sets + 1])
        /\ Record(Used(key), [last EXCEPT ![key] = Sets + 1])
     \/ Corrupted(HitUses(mp[key]))

SetFirst(key) ==
  /\ ~Known(key) /\ tail = 0 /\ Sets < MaxSets
  /\ node' = <<NewNode(key)>> /\ head' = 1 /\ tail' = 1 /\ act_size' = 1 /\ mp' = key :> 1
  /\ order' = <<key>> /\ last' = key :> 1
  /\ UNCHANGED <<cp, freed, corrupt, atEnd>>

Linked(key) ==
  LET n == Sets + 1 IN Append(SetNext(node, head, n), [NewNode(key) EXCEPT !.prev = head])

Inserted(key) ==
  /\ node' = Linked(key) /\ head' = Sets + 1 /\ UNCHANGED <<cp, corrupt, atEnd>>

\* Nothing was deleted as long as there is room.
SetNew(key) ==
  /\ ~Known(key) /\ tail # 0 /\ act_size < cp /\ Sets < MaxSets
  /\ Inserted(key)
  /\ act_size' = act_size + 1 /\ mp' = (key :> Sets + 1) @@ mp
  /\ Record(Append(order, key), (key :> Sets + 1) @@ last)
  /\ UNCHANGED <<tail, freed>>

\* The key of the deleted node is read once more, before anything is allocated.
SetEvict(key) ==
  /\ ~corrupt /\ ~Known(key) /\ tail # 0 /\ act_size >= cp /\ Sets < MaxSets
  /\ \/ /\ Uses({head, tail}) /\ Inserted(key)
        /\ tail' = IF node'[tail].next # 0 THEN node'[tail].next ELSE tail
        /\ freed' = freed \union {tail}
        /\ mp' = (key :> Sets + 1) @@ [k \in (DOMAIN mp) \ {node[tail].key} |-> mp[k]]
        /\ Record(Append(Tail(order), key), (key :> Sets + 1) @@ last)
        /\ UNCHANGED act_size
     \/ Corrupted({head, tail}) /\ UNCHANGED atEnd

Next ==
  \E key \in Key :
    get(key) \/ SetHit(key) \/ SetFirst(key) \/ SetNew(key) \/ SetEvict(key)

-------------------------------------------------------------------------------

\* The keys of the list from the tail on, as far as there are nodes.
ListFrom[n \in 0..MaxSets] ==
  IF n = 0 THEN <<>> ELSE <<node[n].key>> \o ListFrom[node[n].next]

\* As long as no hit is on the first or the last node, the list has the keys in the order
\* of their use, the map leads to them and to the values set last, and no deleted node is
\* used.  Whatever the hits, the map leads to no deleted node until one is used, and
\* none is deleted while there is room.
LruKept ==
  /\ ~atEnd =>
       /\ ~corrupt /\ ListFrom[tail] = order /\ DOMAIN mp = Range(order)
       /\ \A key \in DOMAIN mp : node[mp[key]].key = key /\ node[mp[key]].value = last[key]
  /\ ~corrupt => Range(mp) \intersect freed = {}
  /\ act_size < cp => freed = {}
===============================================================================
