------------------------------- MODULE SharedPtr -------------------------------
(***************************************************************************)
(* src/c++/shared_ptr.cpp: SharedPtr, a pointer that counts the pointers   *)
(* it shares its object with.  A program constructs, copies, assigns,      *)
(* resets and destroys SharedPtrs in any order; it makes a SharedPtr from  *)
(* a new object only, or from none.                                        *)
(***************************************************************************)
EXTENDS Naturals, FiniteSets

CONSTANTS
  Ptr,       \* places for SharedPtr objects
  Object,    \* addresses of Expressions
  Counter,   \* addresses of counters
  nullptr

VARIABLES
  ptr_,          \* of each SharedPtr
  obj_counter_,  \* of each SharedPtr; nullptr when there is none at this place
  count,         \* the counters
  objects,       \* the objects allocated
  counters       \* the counters allocated

vars == <<ptr_, obj_counter_, count, objects, counters>>

Constructed(p) == obj_counter_[p] # nullptr

Init ==
  /\ ptr_ = [p \in Ptr |-> nullptr] /\ obj_counter_ = [p \in Ptr |-> nullptr]
  /\ count \in [Counter -> {0}]
  /\ objects = {} /\ counters = {}

\* SharedPtr(ptr), with a new object o or none, and a new counter c.
Construct(p, o, c) ==
  /\ ~Constructed(p) /\ o \notin objects /\ c \notin counters
  /\ ptr_' = [ptr_ EXCEPT ![p] = o] /\ obj_counter_' = [obj_counter_ EXCEPT ![p] = c]
  /\ count' = [count EXCEPT ![c] = 1]
  /\ objects' = objects \union ({o} \ {nullptr}) /\ counters' = counters \union {c}

\* SharedPtr(const SharedPtr&).
Copy(p, q) ==
  /\ ~Constructed(p) /\ Constructed(q)
  /\ ptr_' = [ptr_ EXCEPT ![p] = ptr_[q]]
  /\ obj_counter_' = [obj_counter_ EXCEPT ![p] = obj_counter_[q]]
  /\ count' = [count EXCEPT ![obj_counter_[q]] = @ + 1]
  /\ UNCHANGED <<objects, counters>>

\* What p's counter is decremented to, and what is left when the last owner has deleted
\* object and counter.
Dropped(p) == count[obj_counter_[p]] - 1
ObjectsLeft(p) == IF Dropped(p) = 0 THEN objects \ {ptr_[p]} ELSE objects
CountersLeft(p) == IF Dropped(p) = 0 THEN counters \ {obj_counter_[p]} ELSE counters

Destroy(p) ==
  /\ Constructed(p)
  /\ ptr_' = [ptr_ EXCEPT ![p] = nullptr] /\ obj_counter_' = [obj_counter_ EXCEPT ![p] = nullptr]
  /\ count' = [count EXCEPT ![obj_counter_[p]] = Dropped(p)]
  /\ objects' = ObjectsLeft(p) /\ counters' = CountersLeft(p)

\* reset(ptr), with an object o that is not one of those allocated before, or none.
reset(p, o, c) ==
  /\ Constructed(p) /\ o \notin objects /\ c \notin CountersLeft(p)
  /\ ptr_' = [ptr_ EXCEPT ![p] = o] /\ obj_counter_' = [obj_counter_ EXCEPT ![p] = c]
  /\ count' = [count EXCEPT ![obj_counter_[p]] = Dropped(p), ![c] = 1]
  /\ objects' = ObjectsLeft(p) \union ({o} \ {nullptr})
  /\ counters' = CountersLeft(p) \union {c}

\* Mutant: the assignment takes over the counter without counting.
MutantAssign(p, q) ==
  /\ Constructed(p) /\ Constructed(q) /\ p # q
  /\ ptr_' = [ptr_ EXCEPT ![p] = ptr_[q]]
  /\ obj_counter_' = [obj_counter_ EXCEPT ![p] = obj_counter_[q]]
  /\ count' = [count EXCEPT ![obj_counter_[p]] = Dropped(p)]
  /\ objects' = ObjectsLeft(p) /\ counters' = CountersLeft(p)

\* operator=, between two SharedPtrs: first the old counter, then the new one.
Assign(p, q) ==
  /\ Constructed(p) /\ Constructed(q) /\ p # q
  /\ ptr_' = [ptr_ EXCEPT ![p] = ptr_[q]]
  /\ obj_counter_' = [obj_counter_ EXCEPT ![p] = obj_counter_[q]]
  /\ count' = [[count EXCEPT ![obj_counter_[p]] = Dropped(p)] EXCEPT ![obj_counter_[q]] = @ + 1]
  /\ objects' = ObjectsLeft(p) /\ counters' = CountersLeft(p)

Next ==
  \E p \in Ptr :
    \/ \E o \in Object \union {nullptr}, c \in Counter : Construct(p, o, c) \/ reset(p, o, c)
    \/ \E q \in Ptr : Copy(p, q) \/ Assign(p, q)
    \/ Destroy(p)

Spec == Init /\ [][Next]_vars

-------------------------------------------------------------------------------

Owners(c) == {p \in Ptr : obj_counter_[p] = c}

TypeOK ==
  /\ ptr_ \in [Ptr -> Object \union {nullptr}]
  /\ obj_counter_ \in [Ptr -> Counter \union {nullptr}]
  /\ count \in [Counter -> Nat]
  /\ objects \subseteq Object /\ counters \subseteq Counter

\* Pointers share a counter exactly when they share an object.
SameObject ==
  /\ \A p \in Ptr : ~Constructed(p) => ptr_[p] = nullptr
  /\ \A p, q \in Ptr :
       /\ Constructed(p) /\ obj_counter_[p] = obj_counter_[q] => ptr_[p] = ptr_[q]
       /\ ptr_[p] # nullptr /\ ptr_[p] = ptr_[q] => obj_counter_[p] = obj_counter_[q]

\* Every counter holds the number of pointers that share it, the objects allocated are
\* those some SharedPtr leads to, and so are the counters: whatever was copied, assigned
\* or reset, the last owner deletes them, nobody before it does, and nothing is deleted
\* twice.
CountsOwners ==
  /\ \A c \in counters : count[c] = Cardinality(Owners(c))
  /\ counters = {obj_counter_[p] : p \in Ptr} \ {nullptr}
  /\ objects = {ptr_[p] : p \in Ptr} \ {nullptr}
===============================================================================
