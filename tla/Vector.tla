-------------------------------- MODULE Vector --------------------------------
(***************************************************************************)
(* src/utils/collections/vector: an array that grows, with a "multithread" *)
(* variant of each call around a read-write lock.  Threads call the        *)
(* variants; the calls without lock are what they execute inside it.       *)
(* clear and clear_multithread, which vector.h does not declare and nobody *)
(* calls, are left out.                                                    *)
(*                                                                         *)
(* pop_multithread reads and lowers the size outside the lock.  Where that *)
(* meets another change of the size, and where no memory is left and add   *)
(* writes past the array, the model stops.                                 *)
(***************************************************************************)
EXTENDS Integers, FiniteSets, Sequences

CONSTANTS
  Caller,         \* the threads that call
  Capacities,     \* what vector_multithread_init may be called with
  REALLOC_TRIES,
  MaxAdds         \* no call of add begins after so many

NONE == "none"

ASSUME VectorAssumption ==
  /\ IsFiniteSet(Caller) /\ NONE \notin Caller
  /\ Capacities \subseteq Nat /\ MaxAdds \in Nat

VARIABLES
  data, size, capacity,     \* data[i + 1] is element i
  realloc_process, tries,
  readers, writer,          \* rwlock
  pc, call,                 \* of each thread: where it is, and the call it is in
  index, old,               \* of each thread: an element's index, a size it has read
  stack,                    \* what the calls should have left in the vector
  adds,                     \* calls of add so far; the k-th adds k
  raced, failed             \* a pop met another change of the size; no memory

vars == <<data, size, capacity, realloc_process, tries, readers, writer, pc, call, index, old,
          stack, adds, raced, failed>>

lock == <<readers, writer>>
array == <<data, size, capacity, stack, adds>>
growth == <<realloc_process, tries>>
local == <<call, index, old>>
verdict == <<raced, failed>>

\* The new capacity, in the integers: 1024.0 / (c + 128.0) + 1.0 times c, cut off.
REALLOC_COEFFICIENT(c) == c + (1024 * c) \div (c + 128)

Goto(t, l) == pc' = [pc EXCEPT ![t] = l]

\* The call of t is over; what it was using is forgotten.
Return(t) ==
  /\ Goto(t, "idle") /\ call' = [call EXCEPT ![t] = NONE]
  /\ index' = [index EXCEPT ![t] = 0] /\ old' = [old EXCEPT ![t] = 0]

\* Threads whose call goes wrong when the size changes under it.
Exposed(t) == pc[t] = "size" \/ (pc[t] # "idle" /\ call[t] = "pop")

\* A change of the size by t.
Resized(t) == raced' = \E u \in Caller \ {t} : Exposed(u)

-------------------------------------------------------------------------------

Init ==
  /\ capacity \in Capacities /\ size = 0 /\ data = [k \in 1 .. MaxAdds + Cardinality(Caller) |-> 0]
  /\ realloc_process = FALSE /\ tries = 0
  /\ readers = {} /\ writer = NONE
  /\ pc = [t \in Caller |-> "idle"] /\ call = [t \in Caller |-> NONE]
  /\ index = [t \in Caller |-> 0] /\ old = [t \in Caller |-> 0]
  /\ stack = <<>> /\ adds = 0 /\ raced = FALSE /\ failed = FALSE

\* The calls, up to their first lock.  get and set take any index; top and pop look at
\* the size, pop twice.
Call(t) ==
  /\ pc[t] = "idle"
  /\ \/ /\ adds < MaxAdds
        /\ call' = [call EXCEPT ![t] = "add"] /\ Goto(t, "rdlock") /\ UNCHANGED index
     \/ /\ \E i \in 0 .. MaxAdds : index' = [index EXCEPT ![t] = i]
        /\ \/ call' = [call EXCEPT ![t] = "get"] /\ Goto(t, "rdlock")
           \/ call' = [call EXCEPT ![t] = "set"] /\ Goto(t, "wrlock")
     \/ size > 0 /\ call' = [call EXCEPT ![t] = "pop"] /\ Goto(t, "top") /\ UNCHANGED index
     \/ call' = [call EXCEPT ![t] = "top"] /\ Goto(t, "top") /\ UNCHANGED index
  /\ UNCHANGED <<array, growth, lock, old, verdict>>

\* top_multithread: nothing to do, or the last index.
Top(t) ==
  /\ pc[t] = "top"
  /\ IF size = 0 THEN Return(t)
     ELSE index' = [index EXCEPT ![t] = size - 1] /\ Goto(t, "rdlock") /\ UNCHANGED <<call, old>>
  /\ UNCHANGED <<array, growth, lock, verdict>>

RdLock(t) ==
  /\ pc[t] = "rdlock" /\ writer = NONE
  /\ readers' = readers \union {t} /\ Goto(t, "yield")
  /\ UNCHANGED <<array, growth, writer, local, verdict>>

\* The reader waits while the array is reallocated.  Then add changes to the write lock;
\* get reads, and a pop that has read goes on to lower the size.
Yield(t) ==
  /\ pc[t] = "yield" /\ ~realloc_process
  /\ readers' = readers \ {t}
  /\ CASE call[t] = "add" -> Goto(t, "wrlock") /\ UNCHANGED local
       [] call[t] = "pop" /\ index[t] < size -> Goto(t, "lower") /\ UNCHANGED local
       [] OTHER -> Return(t)
  /\ UNCHANGED <<array, growth, writer, verdict>>

WrLock(t) ==
  /\ pc[t] = "wrlock" /\ writer = NONE /\ readers = {}
  /\ writer' = t /\ Goto(t, call[t])
  /\ UNCHANGED <<array, growth, readers, local, verdict>>

set(t) ==
  /\ pc[t] = "set" /\ ~realloc_process
  /\ IF size <= index[t] THEN UNCHANGED <<data, stack>>
     ELSE /\ data' = [data EXCEPT ![index[t] + 1] = 0]
          /\ stack' = [stack EXCEPT ![index[t] + 1] = 0]
  /\ writer' = NONE /\ Return(t)
  /\ UNCHANGED <<size, capacity, adds, growth, readers, verdict>>

\* Mutant: a vector with one element too many is full.
MutantIsFull == size > capacity

is_full == size >= capacity

add(t) ==
  /\ pc[t] = "add"
  /\ IF is_full THEN realloc_process' = TRUE /\ tries' = 0 /\ Goto(t, "resize")
     ELSE Goto(t, "store") /\ UNCHANGED growth
  /\ UNCHANGED <<array, lock, local, verdict>>

\* resize, once: there is memory, or the loop tries again until its tries are used up.
\* A capacity of 0 stays 0, and realloc to no bytes returns NULL.
Resize(t) ==
  /\ pc[t] = "resize"
  /\ \/ /\ capacity > 0
        /\ capacity' = REALLOC_COEFFICIENT(capacity)
        /\ realloc_process' = FALSE /\ Goto(t, "store") /\ UNCHANGED <<tries, failed>>
     \/ /\ tries < REALLOC_TRIES
        /\ tries' = tries + 1 /\ UNCHANGED <<capacity, realloc_process, pc, failed>>
     \/ /\ tries = REALLOC_TRIES
        /\ realloc_process' = FALSE /\ failed' = TRUE /\ Goto(t, "store")
        /\ UNCHANGED <<tries, capacity>>
  /\ UNCHANGED <<data, size, stack, adds, lock, local, raced>>

\* The element is written, and the size read.
Store(t) ==
  /\ pc[t] = "store"
  /\ data' = [data EXCEPT ![size + 1] = adds + 1] /\ adds' = adds + 1
  /\ old' = [old EXCEPT ![t] = size] /\ Goto(t, "size")
  /\ UNCHANGED <<size, capacity, stack, growth, lock, call, index, verdict>>

\* The new size is written, and the lock released.
AddSize(t) ==
  /\ pc[t] = "size"
  /\ size' = old[t] + 1 /\ stack' = Append(stack, adds) /\ Resized(t)
  /\ writer' = NONE /\ Return(t)
  /\ UNCHANGED <<data, capacity, adds, growth, readers, failed>>

\* pop lowers the size, without a lock: it reads, and then it writes.
Lower(t) ==
  /\ pc[t] = "lower"
  /\ old' = [old EXCEPT ![t] = size] /\ Goto(t, "lowered")
  /\ UNCHANGED <<array, growth, lock, call, index, verdict>>

PopSize(t) ==
  /\ pc[t] = "lowered"
  /\ size' = old[t] - 1 /\ stack' = SubSeq(stack, 1, Len(stack) - 1) /\ Resized(t)
  /\ Return(t)
  /\ UNCHANGED <<data, capacity, adds, growth, lock, failed>>

Step(t) ==
  \/ Call(t) \/ Top(t) \/ RdLock(t) \/ Yield(t) \/ WrLock(t) \/ set(t)
  \/ add(t) \/ Resize(t) \/ Store(t) \/ AddSize(t) \/ Lower(t) \/ PopSize(t)

\* The caller sees to it that no call is under way; there is none afterwards.
vector_multithread_destroy ==
  /\ \A t \in Caller : pc[t] = "idle"
  /\ pc' = [t \in Caller |-> "destroyed"]
  /\ UNCHANGED <<array, growth, lock, local, verdict>>

Next ==
  ~raced /\ ~failed /\ (vector_multithread_destroy \/ \E t \in Caller : Step(t))

Spec == Init /\ [][Next]_vars

-------------------------------------------------------------------------------

\* Unless a pop overlaps another change of the size, or add found no memory, the vector
\* holds what the calls put there within its capacity, a pop takes off the element it has
\* read, and nobody waits for a reallocation while holding the read lock.
VectorInv ==
  ~raced /\ ~failed =>
    /\ size = Len(stack) /\ SubSeq(data, 1, size) = stack
    /\ size <= capacity
    /\ \A t \in Caller : pc[t] \in {"lower", "lowered"} => index[t] = size - 1
    /\ realloc_process => readers = {}
===============================================================================
