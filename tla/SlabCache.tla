------------------------------- MODULE SlabCache -------------------------------
(***************************************************************************)
(* src/mem/mem_cache: objects of one size cut out of slabs, which move     *)
(* between a free, a partial and a full list.  A client allocates, frees   *)
(* what it was given, shrinks and releases the cache.                      *)
(*                                                                         *)
(* The sizes are constants, so that a small page gives small slabs: the    *)
(* code has PAGE_SIZE 4096, a slab header of 64 bytes, a block header of   *)
(* 24, DEFAULT_SIZE 10 and at most order 10.                               *)
(*                                                                         *)
(* alloc_slab gets less memory than a slab with blocks takes up.  The      *)
(* bytes past it are nobody's while the cache has this one slab and the    *)
(* client no memory but the cache's: the program then goes on, or ends in  *)
(* the C library.  A second slab would lie in the first: the model records *)
(* that and stops.                                                         *)
(***************************************************************************)
EXTENDS Integers, Sequences, FiniteSets

CONSTANTS
  PAGE_SIZE, SlabHeader, BlockHeader, DEFAULT_SIZE, MaxOrder,
  ObjectSizes,  \* what cache_setup may be called with
  MaxSlabs      \* memory for so many slabs

Slab == 1 .. MaxSlabs
List == {"free", "partial", "full"}
NULL == 0

VARIABLES
  object_size,
  live,       \* the slabs allocated
  lists,      \* slab_list: head and size of each list; prev_slab, next_slab, list_ptr of each slab
  size,       \* slab->size
  first,      \* slab->first_block: blocks are numbered within their slab
  next_block, \* block->next_block
  used,       \* the blocks the client has
  pc, cur     \* "run", the list slab_list_free is in, "overlap", "crash"; and its current_slab

vars == <<object_size, live, lists, size, first, next_block, used, pc, cur>>

-------------------------------------------------------------------------------
\* The geometry of a slab.

calculate_slab_size(order) == 2 ^ order * PAGE_SIZE

\* The smallest order that holds DEFAULT_SIZE objects, or the largest there is.
get_slab_order(os) ==
  LET total == (os + BlockHeader) * DEFAULT_SIZE + SlabHeader
  IN  CHOOSE order \in 0 .. MaxOrder :
        /\ calculate_slab_size(order) >= total \/ order = MaxOrder
        /\ \A o \in 0 .. order - 1 : calculate_slab_size(o) < total

calculate_object_cnt(slab_size, os) == (slab_size - SlabHeader) \div (os + BlockHeader)

slab_size == calculate_slab_size(get_slab_order(object_size))
slab_objects == calculate_object_cnt(slab_size, object_size)

\* The bytes alloc_slab asks for.
alloc_slab(order) == PAGE_SIZE * order

\* create_slab and the clients write past them: a slab without blocks still has the header
\* of its first one.
Overruns ==
  LET blocks == IF slab_objects = 0 THEN BlockHeader ELSE slab_objects * (object_size + BlockHeader)
  IN  SlabHeader + blocks > alloc_slab(get_slab_order(object_size))

-------------------------------------------------------------------------------
\* slab_list.

add_to_list(ls, l, s) ==
  LET h == ls.head[l] IN
  IF ls.size[l] = 0 \/ h = NULL
    THEN [ls EXCEPT !.head[l] = s, !.prev[s] = NULL, !.next[s] = NULL,
                    !.size[l] = @ + 1, !.list_ptr[s] = l]
    ELSE [ls EXCEPT !.prev[s] = h, !.next[h] = s, !.head[l] = s,
                    !.size[l] = @ + 1, !.list_ptr[s] = l]

\* A pointer of slab a, unless a is NULL.
Set(f, a, v) == IF a = NULL THEN f ELSE [f EXCEPT ![a] = v]

delete_from_list(ls, l, s) ==
  LET p == ls.prev[s]
      q == ls.next[s]
      unlinked ==
        IF ls.head[l] = s \/ ls.size[l] = 0
          THEN [ls EXCEPT !.head[l] = ls.prev[@], !.next = Set(@, ls.prev[ls.head[l]], NULL)]
          ELSE [ls EXCEPT !.next = Set(@, p, q), !.prev = Set(@, q, p)]
  IN  [unlinked EXCEPT !.next[s] = NULL, !.prev[s] = NULL, !.size[l] = @ - 1]

slab_reposition(src, dest, s) == add_to_list(delete_from_list(lists, src, s), dest, s)

-------------------------------------------------------------------------------
\* The cache.

Init ==
  /\ object_size \in ObjectSizes
  /\ live = {} /\ used = {} /\ pc = "run" /\ cur = NULL
  /\ lists = [head |-> [l \in List |-> NULL], size |-> [l \in List |-> 0],
              prev |-> [s \in Slab |-> NULL], next |-> [s \in Slab |-> NULL],
              list_ptr |-> [s \in Slab |-> "none"]]
  /\ size = [s \in Slab |-> 0] /\ first = [s \in Slab |-> NULL]
  /\ next_block = [s \in Slab |-> <<>>]

\* init_block_list: block k leads to block k + 1.
init_block_list == [k \in 1 .. slab_objects |-> IF k < slab_objects THEN k + 1 ELSE NULL]

\* alloc_block(s) in a slab of size n whose blocks are chained from f by nb.
alloc_block(s, n, f, nb) ==
  IF n >= slab_objects
    THEN /\ size' = [size EXCEPT ![s] = n] /\ first' = [first EXCEPT ![s] = f]
         /\ next_block' = [next_block EXCEPT ![s] = nb] /\ UNCHANGED used
    ELSE /\ size' = [size EXCEPT ![s] = n + 1] /\ first' = [first EXCEPT ![s] = nb[f]]
         /\ next_block' = [next_block EXCEPT ![s] = [nb EXCEPT ![f] = NULL]]
         /\ used' = used \union {<<s, f>>}

\* slab_is_full, after the allocation.
slab_is_full(s) == size'[s] >= slab_objects

AllocFromFree ==
  /\ pc = "run" /\ lists.size["free"] > 0
  /\ LET s == lists.head["free"]
     IN  /\ alloc_block(s, size[s], first[s], next_block[s])
         /\ lists' = slab_reposition("free", IF slab_is_full(s) THEN "full" ELSE "partial", s)
  /\ UNCHANGED <<object_size, live, pc, cur>>

AllocFromPartial ==
  /\ pc = "run" /\ lists.size["free"] = 0 /\ lists.size["partial"] > 0
  /\ LET s == lists.head["partial"]
     IN  /\ alloc_block(s, size[s], first[s], next_block[s])
         /\ lists' = IF slab_is_full(s) THEN slab_reposition("partial", "full", s) ELSE lists
  /\ UNCHANGED <<object_size, live, pc, cur>>

\* create_slab; the slab passes through the partial list.
AllocFromNew ==
  /\ pc = "run" /\ lists.size["free"] = 0 /\ lists.size["partial"] = 0
  /\ Overruns => live = {}
  /\ \E s \in Slab \ live :
       /\ live' = live \union {s}
       /\ alloc_block(s, 0, 1, init_block_list)
       /\ lists' = LET cleared == [lists EXCEPT !.prev[s] = NULL, !.next[s] = NULL]
                       added == add_to_list(cleared, "partial", s)
                   IN  IF slab_is_full(s)
                         THEN add_to_list(delete_from_list(added, "partial", s), "full", s)
                         ELSE added
  /\ UNCHANGED <<object_size, pc, cur>>

\* The memory of the new slab is some that an earlier one has written to.
SlabsOverlap ==
  /\ pc = "run" /\ lists.size["free"] = 0 /\ lists.size["partial"] = 0
  /\ Overruns /\ live # {} /\ pc' = "overlap"
  /\ UNCHANGED <<object_size, live, lists, size, first, next_block, used, cur>>

\* No memory for a slab: create_slab returns NULL and alloc_block follows it; or malloc, or
\* a write past the end, ends the program.
AllocFails ==
  /\ pc = "run" /\ lists.size["free"] = 0 /\ lists.size["partial"] = 0
  /\ pc' = "crash"
  /\ UNCHANGED <<object_size, live, lists, size, first, next_block, used, cur>>

cache_alloc == AllocFromFree \/ AllocFromPartial \/ AllocFromNew \/ SlabsOverlap \/ AllocFails

\* free_block puts block b at the front of the free chain of its slab s.
FreeBlock(s, b) ==
  IF size[s] = 0 \/ first[s] = b THEN UNCHANGED <<next_block, first, size>>
  ELSE /\ next_block' = [next_block EXCEPT ![s][b] = first[s]]
       /\ first' = [first EXCEPT ![s] = b]
       /\ size' = [size EXCEPT ![s] = @ - 1]

\* The client frees a block that it has, and the slab goes to the list it now belongs to.
cache_free ==
  /\ pc = "run"
  /\ \E b \in used :
       LET s == b[1] IN
       /\ FreeBlock(s, b[2]) /\ used' = used \ {b}
       /\ lists' = slab_reposition(lists.list_ptr[s], IF size'[s] = 0 THEN "free" ELSE "partial", s)
  /\ UNCHANGED <<object_size, live, pc, cur>>

\* cache_shrink frees the slabs of the free list, cache_release those of all lists; the
\* client has no use for its blocks then.
cache_shrink ==
  /\ pc = "run" /\ pc' = "free" /\ cur' = lists.head["free"]
  /\ UNCHANGED <<object_size, live, lists, size, first, next_block, used>>

cache_release ==
  /\ pc = "run" /\ pc' = "release free" /\ cur' = lists.head["free"] /\ used' = {}
  /\ UNCHANGED <<object_size, live, lists, size, first, next_block>>

Freed == CASE pc \in {"free", "release free"} -> "free" [] pc = "partial" -> "partial"
           [] OTHER -> "full"

\* One turn of the loop of slab_list_free, and the step to the next list.
slab_list_free ==
  /\ pc \in {"free", "release free", "partial", "full"}
  /\ IF cur # NULL /\ lists.size[Freed] > 0
       THEN /\ cur' = lists.prev[cur]
            /\ lists' = delete_from_list(lists, Freed, cur) /\ live' = live \ {cur}
            /\ UNCHANGED pc
       ELSE /\ pc' = CASE pc = "release free" -> "partial" [] pc = "partial" -> "full"
                       [] OTHER -> "run"
            /\ cur' = IF pc' = "run" THEN NULL ELSE lists.head[pc']
            /\ UNCHANGED <<lists, live>>
  /\ UNCHANGED <<object_size, size, first, next_block, used>>

\* free finds the heap overwritten.
FreeAborts ==
  /\ pc \in {"free", "release free", "partial", "full"} /\ Overruns
  /\ cur # NULL /\ lists.size[Freed] > 0 /\ pc' = "crash"
  /\ UNCHANGED <<object_size, live, lists, size, first, next_block, used, cur>>

Next == cache_alloc \/ cache_free \/ cache_shrink \/ cache_release \/ slab_list_free \/ FreeAborts

Spec == Init /\ [][Next]_vars

-------------------------------------------------------------------------------

\* p goes through the slabs of list l from its head on, and next_slab is the way back.
IsList(l, p) ==
  LET n == lists.size[l] IN
  /\ n > 0 => lists.head[l] = p[1] /\ lists.next[p[1]] = NULL /\ lists.prev[p[n]] = NULL
  /\ \A k \in 1 .. n - 1 : lists.prev[p[k]] = p[k + 1] /\ lists.next[p[k + 1]] = p[k]
  /\ {p[k] : k \in 1 .. n} = {s \in live : lists.list_ptr[s] = l}

\* p goes through the free blocks of slab s.
IsFreeChain(s, p) ==
  LET n == slab_objects - size[s] IN
  /\ IF n = 0 THEN first[s] = NULL \/ slab_objects = 0 ELSE first[s] = p[1]
  /\ \A k \in 1 .. n : next_block[s][p[k]] = IF k < n THEN p[k + 1] ELSE NULL
  /\ {p[k] : k \in 1 .. n} = {k \in 1 .. slab_objects : <<s, k>> \notin used}

\* Every slab is in exactly one list, the one its size calls for, and its blocks are
\* free or with the client, never both: whatever cache_alloc, cache_free, cache_shrink
\* and cache_release have done before, no block is handed out twice and none is lost.  A
\* cache with blocks has one slab then; it is where a second one is needed that its memory
\* runs into another's, and no more is claimed.
CacheInv ==
  /\ \A l \in List :
       lists.size[l] = Cardinality({s \in live : lists.list_ptr[s] = l})
         /\ \E p \in [1 .. lists.size[l] -> Slab] : IsList(l, p)
  /\ \A s \in live :
       /\ lists.list_ptr[s] = CASE size[s] >= slab_objects -> "full" [] size[s] = 0 -> "free"
                                [] OTHER -> "partial"
       /\ pc \in {"run", "free"} =>
            \E p \in [1 .. slab_objects - size[s] -> 1 .. slab_objects] : IsFreeChain(s, p)

\* slab_list_free stops when its list is empty, not before, so that nothing is left of a
\* cache that was released.
Releasing ==
  /\ pc \in {"free", "release free", "partial", "full"} /\ cur = NULL => lists.size[Freed] = 0
  /\ pc \in {"partial", "full"} => lists.size["free"] = 0
  /\ pc = "full" => lists.size["partial"] = 0

\* slab_objects blocks fit into slab_size, and there are DEFAULT_SIZE of them unless the
\* order has reached its limit; then there may be none, and cache_alloc returns NULL.  They
\* never fit into what alloc_slab asks for.
Geometry ==
  /\ SlabHeader + slab_objects * (object_size + BlockHeader) <= slab_size
  /\ slab_objects < DEFAULT_SIZE => get_slab_order(object_size) = MaxOrder
  /\ Overruns <=> slab_objects > 0
===============================================================================
