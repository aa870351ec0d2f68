---------------------------- MODULE SlotAllocator ----------------------------
(***************************************************************************)
(* What the connection pool promises its callers: a client that is granted *)
(* a slot has it to itself, and keeps it, until it gives it back.  Nothing *)
(* is said of bitmaps, or of which free slot is granted.                   *)
(***************************************************************************)
CONSTANTS Slot, Client, None

VARIABLE holder  \* the client that holds each slot, or None

Init == holder = [o \in Slot |-> None]

Acquire(o, c) ==
  /\ holder[o] = None
  /\ holder' = [holder EXCEPT ![o] = c]

GiveBack(o) ==
  /\ holder[o] # None
  /\ holder' = [holder EXCEPT ![o] = None]

Next == \E o \in Slot : GiveBack(o) \/ \E c \in Client : Acquire(o, c)

Spec == Init /\ [][Next]_holder
===============================================================================
