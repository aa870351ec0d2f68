------------------------------- MODULE ConnPool -------------------------------
(***************************************************************************)
(* The connection pool of the TCP file server                              *)
(* (src/net/tcp/server/fileserver/conn_pool.c): a table of `size'          *)
(* connection descriptors and a 64-bit word whose 1 bits mark the slots    *)
(* that are free.  Every operation below runs with the pool's mutex held   *)
(* (the callers in server.c take it), so each one is a single step here;   *)
(* module FileServer adds the threads, the mutex and the condition         *)
(* variables.                                                              *)
(*                                                                         *)
(* The word is modelled by the set of its 1 bits.  Its two widths matter:  *)
(* the word has WordBits = 64 bits, but book_pos looks for a 1 with        *)
(* __builtin_ctz, which sees the low IntBits = 32 bits only, and builds    *)
(* its mask in an int, which is sign-extended when it meets the word.      *)
(***************************************************************************)
EXTENDS Integers

CONSTANTS
  Size,      \* pool->size; main passes 16
  IntBits,   \* width of int, 32
  WordBits,  \* width of int64_t, 64
  Sock       \* socket descriptors accept can return (never 0)

ASSUME PoolAssumption ==
  /\ Size \in Nat /\ IntBits \in Nat /\ WordBits \in Nat
  /\ 0 < Size /\ Size < IntBits /\ IntBits < WordBits - 1
  /\ Sock \subseteq Nat \ {0}

NOT_OK == -1

Slots   == 0 .. Size - 1
Bits    == 0 .. WordBits - 1
LowWord == 0 .. IntBits - 1

\* The bits of INT64_MAX: all but the sign bit.
INT64_MAX == 0 .. WordBits - 2

\* Bits a store_connection that returns NOT_OK can clear; no slot owns them.
Overflow == INT64_MAX \ Slots

\* A ConnectionDesc.  store_connection copies a local whose thread_id was never
\* set ("garbage"); pthread_create writes it later.
ConnectionDesc == [thread_id : {"zero", "garbage", "valid"},
                   connection_sock : Sock \union {0},
                   offset : Slots]

ZeroDesc == [thread_id |-> "zero", connection_sock |-> 0, offset |-> 0]

VARIABLES
  free_space_bitmap,  \* the 1 bits of pool->free_space_bitmap
  connections         \* pool->connections

poolVars == <<free_space_bitmap, connections>>

PoolTypeOK ==
  /\ free_space_bitmap \in SUBSET Bits
  /\ connections \in [Slots -> ConnectionDesc]

-------------------------------------------------------------------------------

create_conn_pool ==
  /\ free_space_bitmap = INT64_MAX
  /\ connections = [o \in Slots |-> ZeroDesc]

pool_is_free == free_space_bitmap = INT64_MAX

\* The values pool_is_full can return.  It compares the word with an
\* uninitialised one whose low `size' bits have been shifted out, so the answer
\* is 0 while a slot is free and arbitrary once none is.
pool_is_full ==
  IF free_space_bitmap \intersect Slots # {} THEN {FALSE} ELSE BOOLEAN

\* What __builtin_ctz can return: the lowest 1 of the low word, anything when
\* the low word is 0.
builtin_ctz(word) ==
  LET low == word \intersect LowWord
  IN  {b \in 0 .. IntBits : low = {} \/ (b \in low /\ \A c \in low : b <= c)}

\* Mutant: a mask built in the word's own width.
MutantMask(o) == {o}

\* The bits of (int64_t)(1 << o) for an int 1: bit 31 is the sign of the int and
\* fills the high half of the word; a shift by 32 is a shift by 0 on x86.
Mask(o) == IF o = IntBits - 1 THEN o .. WordBits - 1 ELSE {o % IntBits}

\* Mutant: the bit that was found is not cleared.
MutantBookPos(o) ==
  /\ o \in builtin_ctz(free_space_bitmap)
  /\ UNCHANGED free_space_bitmap

book_pos(o) ==
  /\ o \in builtin_ctz(free_space_bitmap)
  /\ free_space_bitmap' = free_space_bitmap \ Mask(o)

\* Mutant: off by one.
MutantUnbookPos(o) == free_space_bitmap' = free_space_bitmap \union Mask(o + 1)

unbook_pos(o) == free_space_bitmap' = free_space_bitmap \union Mask(o)

\* res is the value returned.  A position past the end of the table is refused
\* after its bit has been cleared.
store_connection(connection_sock, res) ==
  \/ /\ free_space_bitmap = {}
     /\ res = NOT_OK
     /\ UNCHANGED poolVars
  \/ /\ free_space_bitmap # {}
     /\ \E o \in 0 .. IntBits :
          /\ book_pos(o)
          /\ \/ /\ o >= Size
                /\ res = NOT_OK
                /\ UNCHANGED connections
             \/ /\ o < Size
                /\ res = o
                /\ connections' = [connections EXCEPT ![o] =
                     [thread_id |-> "garbage",
                      connection_sock |-> connection_sock,
                      offset |-> o]]

\* pthread_create stores the thread's id through the pointer get_tid_pos returns.
get_tid_pos(o) ==
  /\ connections' = [connections EXCEPT ![o].thread_id = "valid"]
  /\ UNCHANGED free_space_bitmap

\* Mutant: the descriptor is not zeroed.
MutantRelease(o) ==
  /\ unbook_pos(o)
  /\ UNCHANGED connections

\* The close of the socket and the two broadcasts are in FileServer.
release_connection(o) ==
  /\ unbook_pos(o)
  /\ connections' = [connections EXCEPT ![o] = ZeroDesc]

-------------------------------------------------------------------------------
\* The pool as its callers may use it: store any socket, release a slot that
\* holds a connection.

InUse(o) == connections[o].connection_sock # 0

Store   == \E s \in Sock, res \in Slots \union {NOT_OK} : store_connection(s, res)
SetTid  == \E o \in Slots : InUse(o) /\ get_tid_pos(o)
Release == \E o \in Slots : InUse(o) /\ release_connection(o)

PoolInit == create_conn_pool
PoolNext == Store \/ SetTid \/ Release
PoolSpec == PoolInit /\ [][PoolNext]_poolVars

-------------------------------------------------------------------------------

\* A slot's bit is 1 exactly when its descriptor is zeroed: book_pos never hands
\* out a slot whose connection is still being served, whatever bits past the end
\* of the table have been lost.
BitsMatchSlots ==
  \A o \in Slots : o \in free_space_bitmap <=> connections[o] = ZeroDesc

\* book_pos calls __builtin_ctz on the low half of the word, which is undefined
\* for 0; store_connection only checks that the whole word is not 0.  It is
\* enough, because booking bit 31 clears the high half with it.
CtzDefined ==
  free_space_bitmap # {} => free_space_bitmap \intersect LowWord # {}

\* A bit past the end of the table that store_connection cleared never comes
\* back, so that from then on pool_is_free is false for ever.
LeakIsPermanent ==
  [][free_space_bitmap' \intersect Overflow \subseteq free_space_bitmap]_poolVars

\* The pool is a slot allocator: store_connection grants a slot nobody holds or
\* changes nobody's slot, and no connection is moved or overwritten before it is
\* released.
Allocator == INSTANCE SlotAllocator
  WITH Slot <- Slots, Client <- Sock, None <- 0,
       holder <- [o \in Slots |-> connections[o].connection_sock]

ImplementsAllocator == Allocator!Spec

\* The inductive form of the two invariants above.
PoolInv ==
  /\ PoolTypeOK
  /\ BitsMatchSlots
  /\ WordBits - 1 \notin free_space_bitmap
  /\ \A o \in Slots :
       IF InUse(o) THEN connections[o].offset = o ELSE connections[o] = ZeroDesc
  /\ \A b \in IntBits - 1 .. WordBits - 2 :
       b \in free_space_bitmap <=> IntBits - 1 \in free_space_bitmap
===============================================================================
