------------------------------- MODULE Allocator -------------------------------
(***************************************************************************)
(* src/mem/allocator: one arena cut into chunks, first fit, with border    *)
(* markers; the C++ version in c++version is the same program.  Memory is  *)
(* an array of words.  A chunk is the index of its first word; the four    *)
(* words before it are its size in bytes, the next and the previous chunk  *)
(* and the left marker, and the word after its size is the right marker.   *)
(* A word has Word bytes, 8 in the code, and requests are whole words, as  *)
(* main's are.  find_chunk does not ask whether a chunk is free: when a    *)
(* client's chunk is cut a second time its end has two owners, what is     *)
(* written there is no longer the allocator's, and the model stops.        *)
(***************************************************************************)
EXTENDS Integers, FiniteSets

CONSTANTS
  Word,      \* sizeof(size_t)
  Arena,     \* bytes given to mysetup, a multiple of Word
  Requests   \* bytes asked for, multiples of Word

FREE == 1
ALLOCATED == 0
NULL == 0
HEADER_SIZE == 4
METAINFO_SIZE == 5 * Word
Index == 0 .. Arena \div Word - 1

VARIABLES
  mem,     \* the words of the arena
  used,    \* the client's chunks, with the size each was asked for
  shared   \* a chunk of the client has been cut

vars == <<mem, used, shared>>

-------------------------------------------------------------------------------
\* alloc_utils, on a memory m.

get_size(m, c) == m[c - 4]
get_next_chunk_ptr(m, c) == m[c - 3]
get_prev_chunk_ptr(m, c) == m[c - 2]
get_left_border_marker(m, c) == m[c - 1]
get_right_border_marker(m, c) == m[c + get_size(m, c) \div Word]

set_right_border_marker(m, c, size, flag) == [m EXCEPT ![c + size \div Word] = flag]

\* The chunk made is at + HEADER_SIZE.
make_chunk(m, at, size, status) ==
  set_right_border_marker(
    [m EXCEPT ![at] = size, ![at + 1] = NULL, ![at + 2] = NULL, ![at + 3] = status],
    at + HEADER_SIZE, size, status)

head == HEADER_SIZE

\* The k-th chunk of the list, from 0.
Chunk[k \in Nat] ==
  IF k = 0 THEN head
  ELSE IF Chunk[k - 1] = NULL THEN NULL ELSE get_next_chunk_ptr(mem, Chunk[k - 1])

\* The first chunk larger than size, whatever its markers say.
find_chunk(size) ==
  LET Stop(k) == Chunk[k] = NULL \/ get_size(mem, Chunk[k]) > size
  IN  Chunk[CHOOSE k \in Index : Stop(k) /\ \A j \in 0 .. k - 1 : ~Stop(j)]

\* The previous chunk of c, unless c is NULL.
SetPrev(m, c, p) == IF c = NULL THEN m ELSE [m EXCEPT ![c - 2] = p]

add_next(m, l, r) ==
  LET next == get_next_chunk_ptr(m, l)
  IN  [SetPrev(m, next, r) EXCEPT ![r - 3] = next, ![r - 2] = l, ![l - 3] = r]

\* Mutant: the chunk after the two still leads back to r.
MutantMergeChunks(m, l, r) ==
  LET next == get_next_chunk_ptr(m, r)
      freed == set_right_border_marker(m, r, get_size(m, r), FREE)
  IN  [freed EXCEPT ![l - 1] = FREE, ![l - 3] = next,
                    ![l - 4] = @ + get_size(m, r) + METAINFO_SIZE]

merge_chunks(m, l, r) ==
  LET next == get_next_chunk_ptr(m, r)
      freed == set_right_border_marker(m, r, get_size(m, r), FREE)
  IN  [SetPrev(freed, next, l) EXCEPT ![l - 1] = FREE, ![l - 3] = next,
                                      ![l - 4] = @ + get_size(m, r) + METAINFO_SIZE]

free_chunk(m, c) ==
  set_right_border_marker([m EXCEPT ![c - 1] = FREE], c, get_size(m, c), FREE)

-------------------------------------------------------------------------------

\* mysetup, on memory that mmap has zeroed.
Init ==
  /\ mem = make_chunk([i \in Index |-> 0], 0, Arena - METAINFO_SIZE, FREE)
  /\ used = {} /\ shared = FALSE

\* The words of chunk c, all of which mycalloc clears.
setzero(m, c, size) == [i \in Index |-> IF i \in c .. c + size \div Word - 1 THEN 0 ELSE m[i]]

\* The new chunk is the end of chunk c, which keeps the rest.
Split(c, size, clear) ==
  LET rest == get_size(mem, c) - (size + METAINFO_SIZE)
      cut == set_right_border_marker([mem EXCEPT ![c - 4] = rest], c, rest, FREE)
      at == c + rest \div Word + 1
      new == at + HEADER_SIZE
      linked == add_next(make_chunk(cut, at, size, ALLOCATED), c, new)
  IN  /\ mem' = IF clear THEN setzero(linked, new, size) ELSE linked
      /\ used' = used \union {<<new, size>>}
      /\ shared' = \E u \in used : u[1] = c

\* Nothing happens when no chunk is large enough.
myalloc ==
  /\ ~shared
  /\ \E size \in Requests :
       LET c == find_chunk(size + METAINFO_SIZE) IN c # NULL /\ Split(c, size, FALSE)

mycalloc ==
  /\ ~shared
  /\ \E size \in Requests :
       LET c == find_chunk(size + METAINFO_SIZE) IN c # NULL /\ Split(c, size, TRUE)

\* What becomes of memory m when chunk c is freed.
myfree(m, c) ==
  LET prev == get_prev_chunk_ptr(m, c)
      next == get_next_chunk_ptr(m, c)
      prev_free == prev # NULL /\ get_left_border_marker(m, prev) = FREE
      next_free == next # NULL /\ get_left_border_marker(m, next) = FREE
  IN  CASE FREE \in {get_right_border_marker(m, c), get_left_border_marker(m, c)} -> m
        [] next = NULL /\ prev # NULL ->
             IF get_right_border_marker(m, prev) = FREE THEN merge_chunks(m, prev, c)
             ELSE free_chunk(m, c)
        [] next # NULL /\ prev_free /\ next_free -> merge_chunks(merge_chunks(m, c, next), prev, c)
        [] next # NULL /\ prev_free /\ ~next_free -> merge_chunks(m, prev, c)
        [] next # NULL /\ ~prev_free /\ next_free -> merge_chunks(m, c, next)
        [] OTHER -> free_chunk(m, c)

Free ==
  /\ ~shared
  /\ \E u \in used : used' = used \ {u} /\ mem' = myfree(mem, u[1])
  /\ UNCHANGED shared

Next == myalloc \/ mycalloc \/ Free

Spec == Init /\ [][Next]_vars

-------------------------------------------------------------------------------

Chunks == {Chunk[k] : k \in Index} \ {NULL}

Right(c) == c + get_size(mem, c) \div Word

\* myalloc, mycalloc and myfree, in any order, keep the arena cut into chunks without gaps:
\* the list goes through it from left to right, prev leads back, the two markers of a chunk
\* agree, and the chunks marked ALLOCATED are the client's, with the sizes it asked for.
ChunksTile ==
  ~shared =>
    /\ \A c \in Chunks :
         LET next == get_next_chunk_ptr(mem, c) IN
         /\ get_left_border_marker(mem, c) = get_right_border_marker(mem, c)
         /\ IF next = NULL THEN Right(c) = Arena \div Word - 1
            ELSE Right(c) + 1 + HEADER_SIZE = next /\ get_prev_chunk_ptr(mem, next) = c
    /\ {<<c, get_size(mem, c)>> : c \in {d \in Chunks : get_left_border_marker(mem, d) = ALLOCATED}}
         = used

\* myfree leaves no two free chunks side by side; with nothing in use the arena is one.
Coalesced ==
  ~shared =>
    /\ \A c \in Chunks :
         LET next == get_next_chunk_ptr(mem, c) IN
         next # NULL =>
           ALLOCATED \in {get_left_border_marker(mem, c), get_left_border_marker(mem, next)}
    /\ used = {} => get_size(mem, head) = Arena - METAINFO_SIZE

\* A chunk in use is cut only to serve a request smaller than it by more than the metadata.
CutOnlyLarge ==
  shared => \E u, v \in used : u[2] > v[2] + METAINFO_SIZE
===============================================================================
