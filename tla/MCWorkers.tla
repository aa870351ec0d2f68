------------------------------- MODULE MCWorkers -------------------------------
(***************************************************************************)
(* Problems 4, 5 and 7, programs of producers and consumers, and threads   *)
(* at the primitives in C++: a behaviour is one of the program it starts   *)
(* with, the others stay at their start.  The theorems at the end are on   *)
(* the inductive invariants of problem 7, of problem 4 and of the          *)
(* primitives, for every value of the constants, and on what follows from  *)
(* them for the programs side by side.                                     *)
(***************************************************************************)
EXTENDS Store, FiniteSetTheorems, Sequences, TLAPS

CONSTANTS SemMax, Files, PrimThread, Count, Cnt

\* n is 2 at least in problem 4; the barrier and the semaphore are made with numbers.
ASSUME WorkersAssumption ==
  Files \in Nat \ {0} /\ IsFiniteSet(PrimThread) /\ Count \in Nat /\ Cnt \in Nat

VARIABLES
  program,
  sem, widget_pc, widget_exit, widget_main, k,                        \* Widgets
  mainpc, i, thread_store, names, file_pc, files_lock, written, file_m, \* FileThreads
  flag, spin, count, bar, cnt, prim_sem                               \* Primitives

widgetVars == <<sem, widget_pc, widget_exit, widget_main, k>>
fileVars == <<mainpc, i, thread_store, names, file_pc, files_lock, written, file_m>>
primVars == <<flag, spin, count, bar, cnt, prim_sem>>

Widget == INSTANCE Widgets WITH pc <- widget_pc, exit_signal <- widget_exit, mainpc <- widget_main
Filing == INSTANCE FileThreads WITH pc <- file_pc, m <- file_m
Prim == INSTANCE Primitives WITH Thread <- PrimThread, sem <- prim_sem

MCInit ==
  /\ program \in {"store", "widgets", "files", "primitives"}
  /\ Init /\ Widget!Init /\ Filing!Init /\ Prim!Init
  /\ program # "primitives" => ~flag

MCNext ==
  \/ program = "store" /\ Next /\ UNCHANGED <<program, widgetVars, fileVars, primVars>>
  \/ program = "widgets" /\ Widget!Next /\ UNCHANGED <<program, vars, fileVars, primVars>>
  \/ program = "files" /\ Filing!Next /\ UNCHANGED <<program, vars, widgetVars, primVars>>
  \/ program = "primitives" /\ Prim!Next /\ UNCHANGED <<program, vars, widgetVars, fileVars>>

MCSpec ==
  /\ MCInit /\ [][MCNext]_<<program, vars, widgetVars, fileVars, primVars>>
  /\ \/ program = "store" /\ Fairness
     \/ program = "widgets" /\ Widget!Fairness
     \/ program = "primitives" /\ Prim!Fairness
     \/ program = "files"

-------------------------------------------------------------------------------

\* Nobody goes on too early.  Problem 4: a reader opens only a finished file under a live
\* name, and main keeps the id of every thread it has started for the joins.  The
\* primitives let nobody through too early, see Primitives!PrimitivesHold.
NobodyTooEarly == Filing!ReadsFinishedFile /\ Filing!AllStored /\ Prim!PrimitivesHold

\* Until the signal nobody stays asleep: whoever waits on the store works again, and
\* there is always another widget, however full the stocks are.  Nor does anybody at an
\* open barrier, or at a semaphore with something to acquire.
KeepsWorking ==
  /\ program = "store" => SleeperWorks
  /\ program = "widgets" => Widget!KeepsProducing
  /\ program = "primitives" => Prim!PrimitivesLive

\* What the signal leads to: all threads end, but for those that are then left waiting
\* for a value or a part that nobody makes any more.
SignalOutcome ==
  (program = "store" => ExitOutcome) /\ (program = "widgets" => Widget!ExitOutcome)

-------------------------------------------------------------------------------
\* Problem 7: StoreInv is inductive, for every capacity.

USE CapacityAssumption DEF CapacityAssumption

\* At the start nobody owns the mutex or waits, and the store is empty.
LEMMA InitStoreInv == Init => StoreInv
  <1> SUFFICES ASSUME Init PROVE StoreInv
    OBVIOUS
  <1>1. TypeOK
    <2>1. exit_signal \in BOOLEAN
      BY Zenon DEF Init
    <2>2. size \in Nat /\ m \in Thread \union {"free"}
      BY DEF Init, Thread
    <2>3. pc \in [Thread -> {"test", "lock", "check", "wait", "work", "signal", "unlock", "done"}]
      BY DEF Init
    <2> QED BY <2>1, <2>2, <2>3 DEF TypeOK
  <1>2. \A t \in Thread : pc[t] = "test"
    BY DEF Init
  <1>3. Bounded /\ NoLostWakeup
    BY <1>2 DEF Init, Bounded, NoLostWakeup
  <1> QED BY <1>1, <1>2, <1>3 DEF StoreInv

\* Every step of one of the two threads preserves the invariant: whoever is past
\* its lock owns the mutex, so what it has tested stays true up to its work.
LEMMA ThreadStep ==
  ASSUME StoreInv, NEW t \in Thread,
         Test(t) \/ Lock(t) \/ Check(t) \/ Signal(t) \/ Unlock(t) \/ SpuriousWakeup(t)
  PROVE  StoreInv'
  <1> USE DEF StoreInv, TypeOK, Bounded, NoLostWakeup, Blocked, Thread, Other, Goto
  <1>1. CASE Test(t)
    BY <1>1 DEF Test
  <1>2. CASE Lock(t)
    BY <1>2 DEF Lock
  <1>3. CASE Check(t)
    BY <1>3 DEF Check
  <1>4. CASE Signal(t)
    BY <1>4 DEF Signal
  <1>5. CASE Unlock(t)
    BY <1>5 DEF Unlock
  <1>6. CASE SpuriousWakeup(t)
    BY <1>6 DEF SpuriousWakeup
  <1> QED BY <1>1, <1>2, <1>3, <1>4, <1>5, <1>6

\* The two operations on the store keep it within its bounds.
LEMMA WorkStep == StoreInv /\ (add_val \/ get_val) => StoreInv'
  <1> USE DEF StoreInv, TypeOK, Bounded, NoLostWakeup, Blocked, Thread, Other, Goto
  <1>1. StoreInv /\ add_val => StoreInv'
    BY DEF add_val
  <1>2. StoreInv /\ get_val => StoreInv'
    BY DEF get_val
  <1> QED BY <1>1, <1>2

\* Every step of problem 7 preserves the invariant.
LEMMA StoreStep == StoreInv /\ [Next]_vars => StoreInv'
  <1> SUFFICES ASSUME StoreInv, [Next]_vars PROVE StoreInv'
    OBVIOUS
  <1>1. CASE set_data
    BY <1>1, ThreadStep, WorkStep DEF set_data, Thread
  <1>2. CASE get_data
    BY <1>2, ThreadStep, WorkStep DEF get_data, Thread
  <1>3. CASE sigint_handler
    BY <1>3 DEF sigint_handler, StoreInv, TypeOK, Bounded, NoLostWakeup, Blocked
  <1>4. CASE \E t \in Thread : SpuriousWakeup(t)
    BY <1>4, ThreadStep
  <1>5. CASE UNCHANGED vars
    BY <1>5 DEF vars, StoreInv, TypeOK, Bounded, NoLostWakeup, Blocked
  <1> QED BY <1>1, <1>2, <1>3, <1>4, <1>5 DEF Next

\* StoreInv is an invariant of the program for every capacity.
THEOREM StoreInvariant == Spec => []StoreInv
  BY InitStoreInv, StoreStep, PTL DEF Spec

\* The store is never filled past its capacity and never read when empty.
THEOREM StoreIsBounded == Spec => []Bounded
  <1>1. StoreInv => Bounded
    BY DEF StoreInv
  <1> QED BY <1>1, StoreInvariant, PTL

\* One condition variable for both directions loses no wakeup, since the two threads
\* never sleep at once.
THEOREM WakeupsAreNotLost == Spec => []NoLostWakeup
  <1>1. StoreInv => NoLostWakeup
    BY DEF StoreInv
  <1> QED BY <1>1, StoreInvariant, PTL

-------------------------------------------------------------------------------
\* The primitives, for every finite set of threads and all counts.  The inductive
\* invariant counts: for the barrier the threads that have come, for the semaphore those
\* that have acquired.

PrimTypeOK ==
  /\ flag \in BOOLEAN /\ spin \subseteq PrimThread
  /\ count \in Nat /\ bar \in [PrimThread -> {"idle", "wait", "woken", "passed"}]
  /\ cnt \in Nat /\ prim_sem \in [PrimThread -> {"idle", "wait", "woken", "has"}]

In(f, where) == {t \in PrimThread : f[t] = where}

Arrived == PrimThread \ In(bar, "idle")

BarrierInv ==
  /\ Cardinality(Arrived) + count >= Count
  /\ count > 0 => In(bar, "passed") = {}
  /\ count = 0 => In(bar, "wait") = {}

\* Prim!SemaphoreHolds, in the terms of this module.
SemaphoreInv ==
  /\ cnt + Cardinality(In(prim_sem, "has")) = Cnt
  /\ In(prim_sem, "wait") # {} => cnt <= Cardinality(In(prim_sem, "woken"))

PrimInv == PrimTypeOK /\ Prim!SpinExcludes /\ BarrierInv /\ SemaphoreInv

-------------------------------------------------------------------------------

\* What one thread more or less does to the cardinality of a set of threads.
LEMMA OneMore ==
  ASSUME IsFiniteSet(PrimThread), NEW S \in SUBSET PrimThread, NEW t \in PrimThread \ S
  PROVE  Cardinality(S) \in Nat /\ Cardinality(S \union {t}) = Cardinality(S) + 1
<1>1. IsFiniteSet(S)
  BY FS_Subset
<1>2. Cardinality(S) \in Nat
  BY <1>1, FS_CardinalityType
<1>3. Cardinality(S \union {t}) = IF t \in S THEN Cardinality(S) ELSE Cardinality(S) + 1
  BY <1>1, FS_AddElement
<1>. QED
  BY <1>2, <1>3

\* The same for a set that loses a thread.
LEMMA OneLess ==
  ASSUME IsFiniteSet(PrimThread), NEW S \in SUBSET PrimThread, NEW t \in S
  PROVE  Cardinality(S) \in Nat /\ Cardinality(S \ {t}) \in Nat
         /\ Cardinality(S) = Cardinality(S \ {t}) + 1
<1>1. S \ {t} \in SUBSET PrimThread /\ t \in PrimThread \ (S \ {t}) /\ (S \ {t}) \union {t} = S
  OBVIOUS
<1>2. Cardinality(S) = Cardinality(S \ {t}) + 1 /\ Cardinality(S \ {t}) \in Nat
  BY <1>1, OneMore
<1>. QED
  BY <1>2

\* Every set of threads has a size.
LEMMA SizeType ==
  ASSUME IsFiniteSet(PrimThread), NEW S \in SUBSET PrimThread
  PROVE  Cardinality(S) \in Nat
BY FS_Subset, FS_CardinalityType

-------------------------------------------------------------------------------
\* The spinlock.

\* lock and unlock of the spinlock leave it with one thread at most.
LEMMA SpinStep ==
  ASSUME PrimTypeOK, Prim!SpinExcludes, NEW t \in PrimThread, Prim!Lock(t) \/ Prim!Unlock(t)
  PROVE  flag' \in BOOLEAN /\ spin' \subseteq PrimThread /\ Prim!SpinExcludes'
<1>1. CASE Prim!Lock(t)
  BY <1>1 DEF Prim!Lock, Prim!SpinExcludes, PrimTypeOK
<1>2. CASE Prim!Unlock(t)
  BY <1>2 DEF Prim!Unlock, Prim!SpinExcludes, PrimTypeOK
<1>. QED
  BY <1>1, <1>2

-------------------------------------------------------------------------------
\* The barrier.

\* A thread that comes to the barrier lowers the count, or opens it and wakes the others.
LEMMA ArriveStep ==
  ASSUME IsFiniteSet(PrimThread), Count \in Nat, PrimTypeOK, BarrierInv, NEW t \in PrimThread, Prim!Arrive(t)
  PROVE  BarrierInv' /\ count' \in Nat /\ bar' \in [PrimThread -> {"idle", "wait", "woken", "passed"}]
<1>1. count' \in Nat /\ (count > 0 => count' = count - 1) /\ (count = 0 => count' = 0)
  BY DEF Prim!Arrive, PrimTypeOK
<1>2. bar' \in [PrimThread -> {"idle", "wait", "woken", "passed"}]
  BY DEF Prim!Arrive, PrimTypeOK
<1>3. t \in PrimThread \ Arrived /\ Arrived' = Arrived \union {t}
  BY DEF Prim!Arrive, Arrived, In, PrimTypeOK
<1>4. Cardinality(Arrived) \in Nat /\ Cardinality(Arrived') = Cardinality(Arrived) + 1
  <2>1. Arrived \in SUBSET PrimThread
    BY DEF Arrived
  <2>. QED
    BY <2>1, <1>3, OneMore
<1>5. Cardinality(Arrived') + count' >= Count
  BY <1>1, <1>4 DEF BarrierInv, PrimTypeOK
<1>6. count' > 0 => In(bar', "passed") = {}
  <2>1. SUFFICES ASSUME count' > 0, NEW u \in PrimThread PROVE bar'[u] # "passed"
    BY DEF In
  <2>2. count > 0 /\ bar[u] # "passed"
    BY <2>1, <1>1 DEF BarrierInv, In, PrimTypeOK
  <2>. QED
    BY <2>1, <2>2 DEF Prim!Arrive
<1>7. count' = 0 => In(bar', "wait") = {}
  <2>1. SUFFICES ASSUME count' = 0, NEW u \in PrimThread PROVE bar'[u] # "wait"
    BY DEF In
  <2>2. count = 0 => bar[u] # "wait"
    BY DEF BarrierInv, In
  <2>. QED
    BY <2>1, <2>2, <1>1 DEF Prim!Arrive, PrimTypeOK
<1>. QED
  BY <1>1, <1>2, <1>5, <1>6, <1>7 DEF BarrierInv

\* A thread that wakes at the barrier passes an open one and sleeps again at a closed one.
LEMMA WaitStep ==
  ASSUME PrimTypeOK, BarrierInv, NEW t \in PrimThread, Prim!BarrierTest(t) \/ Prim!BarrierSpurious(t)
  PROVE  BarrierInv' /\ count' \in Nat /\ bar' \in [PrimThread -> {"idle", "wait", "woken", "passed"}]
<1>1. count' = count /\ bar' \in [PrimThread -> {"idle", "wait", "woken", "passed"}]
  BY DEF Prim!BarrierTest, Prim!BarrierSpurious, PrimTypeOK
<1>2. Arrived' = Arrived
  BY DEF Prim!BarrierTest, Prim!BarrierSpurious, Arrived, In, PrimTypeOK
<1>3. count > 0 => In(bar', "passed") = {}
  BY DEF Prim!BarrierTest, Prim!BarrierSpurious, BarrierInv, In, PrimTypeOK
<1>4. count = 0 => In(bar', "wait") = {}
  BY DEF Prim!BarrierTest, Prim!BarrierSpurious, BarrierInv, In, PrimTypeOK
<1>. QED
  BY <1>1, <1>2, <1>3, <1>4 DEF BarrierInv, PrimTypeOK

-------------------------------------------------------------------------------
\* The semaphore.

\* acquire takes from a count that is there, or sleeps when there is none.
LEMMA AcquireStep ==
  ASSUME IsFiniteSet(PrimThread), Cnt \in Nat, PrimTypeOK, SemaphoreInv, NEW t \in PrimThread, Prim!Acquire(t)
  PROVE  SemaphoreInv' /\ cnt' \in Nat /\ prim_sem' \in [PrimThread -> {"idle", "wait", "woken", "has"}]
<1>. DEFINE Has == In(prim_sem, "has")  Woken == In(prim_sem, "woken")
<1>1. Has \in SUBSET PrimThread /\ Woken \in SUBSET PrimThread /\ t \in PrimThread \ Has
  BY DEF Prim!Acquire, In
<1>2. Cardinality(Has) \in Nat /\ Cardinality(Woken) \in Nat
  BY <1>1, SizeType
<1>3. CASE cnt = 0
  <2>1. prim_sem' = [prim_sem EXCEPT ![t] = "wait"] /\ cnt' = cnt
    BY <1>3 DEF Prim!Acquire
  <2>2. In(prim_sem', "has") = Has
    BY <2>1, <1>1 DEF In, PrimTypeOK
  <2>3. Cardinality(In(prim_sem', "woken")) \in Nat
    BY SizeType DEF In
  <2>. QED
    BY <1>2, <1>3, <2>1, <2>2, <2>3 DEF SemaphoreInv, PrimTypeOK
<1>4. CASE cnt # 0
  <2>1. prim_sem' = [prim_sem EXCEPT ![t] = "has"] /\ cnt' = cnt - 1 /\ cnt' \in Nat
    BY <1>4 DEF Prim!Acquire, PrimTypeOK
  <2>2. In(prim_sem', "has") = Has \union {t} /\ In(prim_sem', "wait") = In(prim_sem, "wait")
    BY <2>1 DEF In, PrimTypeOK, Prim!Acquire
  <2>3. Cardinality(In(prim_sem', "has")) = Cardinality(Has) + 1
    BY <1>1, <2>2, OneMore
  <2>4. Cardinality(In(prim_sem', "woken")) \in Nat
        /\ Cardinality(In(prim_sem', "woken")) >= Cardinality(Woken) - 1
    <3>1. CASE t \in Woken
      <4>1. In(prim_sem', "woken") = Woken \ {t}
        BY <2>1 DEF In, PrimTypeOK
      <4>2. Cardinality(Woken \ {t}) \in Nat
            /\ Cardinality(Woken) = Cardinality(Woken \ {t}) + 1
        BY <3>1, <1>1, OneLess
      <4>3. \A a, b \in Nat : b = a + 1 => a >= b - 1
        OBVIOUS
      <4>. QED
        BY <1>2, <4>1, <4>2, <4>3
    <3>2. CASE t \notin Woken
      <4>1. In(prim_sem', "woken") = Woken
        BY <2>1, <3>2 DEF In, PrimTypeOK
      <4>. QED
        BY <4>1, <1>2
    <3>. QED
      BY <3>1, <3>2
  <2>5. cnt' + Cardinality(In(prim_sem', "has")) = Cnt
    BY <1>2, <2>1, <2>3 DEF SemaphoreInv, PrimTypeOK
  <2>6. In(prim_sem', "wait") # {} => cnt' <= Cardinality(In(prim_sem', "woken"))
    <3>1. SUFFICES ASSUME In(prim_sem, "wait") # {} PROVE cnt' <= Cardinality(In(prim_sem', "woken"))
      BY <2>2
    <3>2. cnt <= Cardinality(Woken) /\ cnt \in Nat
      BY <3>1 DEF SemaphoreInv, PrimTypeOK
    <3>3. \A a, b, c \in Nat : c <= b /\ a >= b - 1 => c - 1 <= a
      OBVIOUS
    <3>. QED
      BY <1>2, <2>1, <2>4, <3>2, <3>3
  <2>. QED
    BY <2>1, <2>5, <2>6 DEF SemaphoreInv, PrimTypeOK
<1>. QED
  BY <1>3, <1>4

\* A spurious wakeup at the semaphore adds a thread that is on its way.
LEMMA SpuriousStep ==
  ASSUME IsFiniteSet(PrimThread), Cnt \in Nat, PrimTypeOK, SemaphoreInv, NEW t \in PrimThread, Prim!SemSpurious(t)
  PROVE  SemaphoreInv' /\ cnt' \in Nat /\ prim_sem' \in [PrimThread -> {"idle", "wait", "woken", "has"}]
<1>1. prim_sem' = [prim_sem EXCEPT ![t] = "woken"] /\ cnt' = cnt /\ prim_sem[t] = "wait"
  BY DEF Prim!SemSpurious
<1>2. In(prim_sem', "has") = In(prim_sem, "has") /\ In(prim_sem', "woken") = In(prim_sem, "woken") \union {t}
  BY <1>1 DEF In, PrimTypeOK
<1>3. In(prim_sem, "wait") # {}
  BY <1>1 DEF In
<1>4. Cardinality(In(prim_sem, "woken")) \in Nat
      /\ Cardinality(In(prim_sem', "woken")) = Cardinality(In(prim_sem, "woken")) + 1
  <2>1. In(prim_sem, "woken") \in SUBSET PrimThread /\ t \in PrimThread \ In(prim_sem, "woken")
    BY <1>1 DEF In
  <2>. QED
    BY <1>2, <2>1, OneMore
<1>. QED
  BY <1>1, <1>2, <1>3, <1>4 DEF SemaphoreInv, PrimTypeOK

\* release gives back one and wakes one sleeper, if there is any.
LEMMA ReleaseStep ==
  ASSUME IsFiniteSet(PrimThread), Cnt \in Nat, PrimTypeOK, SemaphoreInv, NEW t \in PrimThread, Prim!Release(t)
  PROVE  SemaphoreInv' /\ cnt' \in Nat /\ prim_sem' \in [PrimThread -> {"idle", "wait", "woken", "has"}]
<1>. DEFINE Has == In(prim_sem, "has")  Woken == In(prim_sem, "woken")
<1>1. Has \in SUBSET PrimThread /\ Woken \in SUBSET PrimThread /\ t \in Has /\ cnt' = cnt + 1 /\ prim_sem[t] = "has"
  BY DEF Prim!Release, In
<1>2. Cardinality(Has) = Cardinality(Has \ {t}) + 1 /\ Cardinality(Has \ {t}) \in Nat
  BY <1>1, OneLess
<1>3. Cardinality(Woken) \in Nat
  BY <1>1, SizeType
<1>4. In(prim_sem', "has") = Has \ {t} /\ prim_sem' \in [PrimThread -> {"idle", "wait", "woken", "has"}]
  BY <1>1 DEF Prim!Release, In, PrimTypeOK
<1>5. cnt' + Cardinality(In(prim_sem', "has")) = Cnt
  <2>1. \A a, b, c \in Nat : (a + 1) + b = a + c <=> c = b + 1
    OBVIOUS
  <2>2. cnt + Cardinality(Has) = Cnt /\ cnt \in Nat /\ Cardinality(Has) \in Nat
    BY <1>2 DEF SemaphoreInv, PrimTypeOK
  <2>. QED
    BY <1>1, <1>2, <1>4, <2>1, <2>2
<1>6. In(prim_sem', "wait") # {} => cnt' <= Cardinality(In(prim_sem', "woken"))
  <2>1. SUFFICES ASSUME In(prim_sem', "wait") # {} PROVE cnt + 1 <= Cardinality(In(prim_sem', "woken"))
    BY <1>1
  <2>2. In(prim_sem, "wait") # {}
    BY <2>1, <1>1 DEF Prim!Release, In, PrimTypeOK
  <2>3. PICK u \in PrimThread : prim_sem[u] = "wait" /\ prim_sem' = [prim_sem EXCEPT ![t] = "idle", ![u] = "woken"]
    BY <2>2 DEF Prim!Release, In
  <2>4. In(prim_sem', "woken") = Woken \union {u} /\ u \in PrimThread \ Woken
    BY <2>3, <1>1 DEF In, PrimTypeOK
  <2>5. Cardinality(In(prim_sem', "woken")) = Cardinality(Woken) + 1
    BY <2>4, <1>1, OneMore
  <2>. QED
    BY <2>2, <2>5, <1>3 DEF SemaphoreInv, PrimTypeOK
<1>. QED
  BY <1>1, <1>4, <1>5, <1>6 DEF SemaphoreInv, PrimTypeOK

-------------------------------------------------------------------------------

\* At the start nobody has come to any of the primitives.
LEMMA InitPrimInv ==
  ASSUME IsFiniteSet(PrimThread), Count \in Nat, Cnt \in Nat, Prim!Init
  PROVE  PrimInv
<1>1. PrimTypeOK /\ Prim!SpinExcludes
  BY DEF Prim!Init, PrimTypeOK, Prim!SpinExcludes
<1>2. In(bar, "passed") = {} /\ In(bar, "wait") = {} /\ Arrived = {}
  BY DEF Prim!Init, In, Arrived
<1>3. In(prim_sem, "has") = {} /\ In(prim_sem, "wait") = {}
  BY DEF Prim!Init, In
<1>4. Cardinality({}) = 0
  BY FS_EmptySet
<1>. QED
  BY <1>1, <1>2, <1>3, <1>4 DEF Prim!Init, PrimInv, BarrierInv, SemaphoreInv

\* Every step of a thread preserves the invariant: it is at one primitive, the others stay.
LEMMA PrimStep ==
  ASSUME IsFiniteSet(PrimThread), Count \in Nat, Cnt \in Nat, PrimInv, [Prim!Next]_primVars
  PROVE  PrimInv'
<1>. USE DEF PrimInv
<1>1. CASE UNCHANGED primVars
  BY <1>1 DEF primVars, PrimTypeOK, Prim!SpinExcludes, BarrierInv, SemaphoreInv,
              Arrived, In
<1>2. ASSUME NEW t \in PrimThread, Prim!Lock(t) \/ Prim!Unlock(t) PROVE PrimInv'
  <2>1. flag' \in BOOLEAN /\ spin' \subseteq PrimThread /\ Prim!SpinExcludes'
    BY <1>2, SpinStep
  <2>2. UNCHANGED <<count, bar, cnt, prim_sem>>
    BY <1>2 DEF Prim!Lock, Prim!Unlock, Prim!barVars, Prim!semVars
  <2>. QED
    BY <2>1, <2>2 DEF PrimTypeOK, BarrierInv, SemaphoreInv, Arrived, In
<1>3. ASSUME NEW t \in PrimThread, Prim!Arrive(t) \/ Prim!BarrierTest(t) \/ Prim!BarrierSpurious(t) PROVE PrimInv'
  <2>1. BarrierInv' /\ count' \in Nat /\ bar' \in [PrimThread -> {"idle", "wait", "woken", "passed"}]
    BY <1>3, ArriveStep, WaitStep
  <2>2. UNCHANGED <<flag, spin, cnt, prim_sem>>
    BY <1>3 DEF Prim!Arrive, Prim!BarrierTest, Prim!BarrierSpurious, Prim!spinVars, Prim!semVars
  <2>. QED
    BY <2>1, <2>2 DEF PrimTypeOK, Prim!SpinExcludes, SemaphoreInv, In
<1>4. ASSUME NEW t \in PrimThread, Prim!Acquire(t) \/ Prim!SemSpurious(t) \/ Prim!Release(t) PROVE PrimInv'
  <2>1. SemaphoreInv' /\ cnt' \in Nat /\ prim_sem' \in [PrimThread -> {"idle", "wait", "woken", "has"}]
    BY <1>4, AcquireStep, SpuriousStep, ReleaseStep
  <2>2. UNCHANGED <<flag, spin, count, bar>>
    BY <1>4 DEF Prim!Acquire, Prim!SemSpurious, Prim!Release, Prim!spinVars, Prim!barVars
  <2>. QED
    BY <2>1, <2>2 DEF PrimTypeOK, Prim!SpinExcludes, BarrierInv, Arrived, In
<1>. QED
  BY <1>1, <1>2, <1>3, <1>4 DEF Prim!Next

\* What the run checks follows from the invariant.
LEMMA PrimInvHolds ==
  ASSUME IsFiniteSet(PrimThread), Count \in Nat, Cnt \in Nat, PrimInv
  PROVE  Prim!PrimitivesHold
<1>a. \A f, where : Prim!In(f, where) = In(f, where)
  BY DEF Prim!In, In
<1>b. \A S : Prim!Cardinality(S) = Cardinality(S)
  BY Zenon DEF Prim!Cardinality, Cardinality
<1>1. Prim!BarrierHolds
  <2>1. In(bar, "passed") # {} => count = 0
    BY DEF PrimInv, BarrierInv, PrimTypeOK
  <2>2. Cardinality(Arrived) \in Nat
    BY SizeType DEF Arrived
  <2>3. In(bar, "passed") # {} => Cardinality(Arrived) >= Count
    BY <2>1, <2>2 DEF PrimInv, BarrierInv
  <2>4. Prim!Cardinality(PrimThread \ Prim!In(bar, "idle")) = Cardinality(Arrived)
    BY <1>a, <1>b DEF Arrived
  <2>. QED
    BY <1>a, <2>3, <2>4 DEF PrimInv, BarrierInv, Prim!BarrierHolds
<1>2. Prim!SemaphoreHolds
  BY <1>a, <1>b DEF PrimInv, SemaphoreInv, Prim!SemaphoreHolds
<1>. QED
  BY <1>1, <1>2 DEF PrimInv, Prim!PrimitivesHold

-------------------------------------------------------------------------------
\* Problem 4, for every number of files.

\* The threads and the garbage in thread_store are told apart.
LEMMA FileThreadNames ==
  /\ \A f, g \in Filing!File : <<"w", f>> # <<"r", g>> /\ (<<"w", f>> = <<"w", g>> => f = g)
                               /\ (<<"r", f>> = <<"r", g>> => f = g)
  /\ \A f \in Filing!File : <<"w", f>> \in Filing!Writer /\ <<"r", f>> \in Filing!Reader
  /\ Filing!Garbage \notin Filing!Thread
  /\ \A t \in Filing!Writer : t \notin Filing!Reader /\ t[2] \in Filing!File /\ t = <<"w", t[2]>>
  /\ \A t \in Filing!Reader : t \notin Filing!Writer /\ t[2] \in Filing!File /\ t = <<"r", t[2]>>
  BY DEF Filing!Writer, Filing!Reader, Filing!Thread, Filing!Garbage, Filing!File

\* Before main's first turn there are no threads, no names and no flags.
LEMMA InitFilesInv == Filing!Init => Filing!FilesInv
<1>. SUFFICES ASSUME Filing!Init PROVE Filing!FilesInv
  OBVIOUS
<1>. USE DEF Filing!Init
<1>1. Filing!TypeOK
  BY WorkersAssumption DEF Filing!TypeOK, Filing!Thread
<1>2. \A f \in Filing!File : file_pc[<<"w", f>>] = "none" /\ file_pc[<<"r", f>>] = "none"
  BY FileThreadNames DEF Filing!Thread
<1>3. Filing!AllStored /\ Filing!OnlyStarted
  BY DEF Filing!AllStored, Filing!OnlyStarted
<1>4. Filing!LoopInv /\ Filing!FlagInv
  BY <1>2, WorkersAssumption DEF Filing!LoopInv, Filing!FlagInv
<1>. QED
  BY <1>1, <1>3, <1>4 DEF Filing!FilesInv

\* A thread that goes from one place to another leaves main's books as they are.
LEMMA ThreadKeepsBooks ==
  ASSUME Filing!FilesInv, \A t \in Filing!Thread : file_pc'[t] = "none" <=> file_pc[t] = "none",
         UNCHANGED <<i, thread_store>>, mainpc' \in {mainpc, "abort"}
  PROVE  Filing!AllStored' /\ Filing!OnlyStarted' /\ Filing!LoopInv'
<1>1. Filing!AllStored'
  BY DEF Filing!FilesInv, Filing!AllStored
<1>2. Filing!OnlyStarted'
  BY DEF Filing!FilesInv, Filing!OnlyStarted
<1>3. \A f \in Filing!File : /\ file_pc'[<<"w", f>>] = "none" <=> file_pc[<<"w", f>>] = "none"
                             /\ file_pc'[<<"r", f>>] = "none" <=> file_pc[<<"r", f>>] = "none"
  BY FileThreadNames DEF Filing!Thread
<1>4. Filing!LoopInv'
  BY <1>3 DEF Filing!FilesInv, Filing!LoopInv
<1>. QED
  BY <1>1, <1>2, <1>4

\* A step of a writer: the file is written before the flag is set.
LEMMA WriterStep ==
  ASSUME Filing!FilesInv, Filing!Running, NEW t \in Filing!Writer, Filing!write_in_file(t)
  PROVE  Filing!FilesInv'
<1>. DEFINE f == t[2]
<1>1. f \in Filing!File /\ t = <<"w", f>> /\ t \in Filing!Thread /\ t \in Filing!Writer
  BY FileThreadNames DEF Filing!Thread
<1>2. file_pc[t] # "none" /\ UNCHANGED <<i, thread_store, names>> /\ mainpc' \in {mainpc, "abort"} /\ mainpc # "exit"
  BY DEF Filing!write_in_file, Filing!Start, Filing!OpenForWriting, Filing!WriteAndClose,
         Filing!Lock, Filing!SetFlagAndSignal, Filing!Unlock, Filing!Goto, Filing!Running
<1>3. Filing!TypeOK' /\ \A u \in Filing!Thread : file_pc'[u] = "none" <=> file_pc[u] = "none"
  <2>1. CASE Filing!Start(t)
    BY <1>1, <2>1 DEF Filing!FilesInv, Filing!TypeOK, Filing!Start, Filing!Goto
  <2>2. CASE Filing!OpenForWriting(t) \/ Filing!WriteAndClose(t)
    BY <1>1, <2>2 DEF Filing!FilesInv, Filing!TypeOK, Filing!OpenForWriting,
                      Filing!WriteAndClose, Filing!Goto
  <2>3. CASE Filing!Lock(t) \/ Filing!Unlock(t)
    BY <1>1, <2>3 DEF Filing!FilesInv, Filing!TypeOK, Filing!Lock, Filing!Unlock, Filing!Goto
  <2>4. CASE Filing!SetFlagAndSignal(t)
    <3>1. file_pc' = [file_pc EXCEPT ![t] = "unlock"] \/ \E r \in Filing!Thread :
            file_pc[r] = "wait" /\ file_pc' = [file_pc EXCEPT ![t] = "unlock", ![r] = "lock"]
      BY <2>4 DEF Filing!SetFlagAndSignal, Filing!Waiting, Filing!Thread
    <3>. QED
      BY <1>1, <2>4, <3>1 DEF Filing!FilesInv, Filing!TypeOK, Filing!SetFlagAndSignal
  <2>. QED
    BY <2>1, <2>2, <2>3, <2>4 DEF Filing!write_in_file
<1>4. \A g \in Filing!File : <<"w", g>> \in Filing!Thread /\ <<"r", g>> \in Filing!Thread
                             /\ (g # f => <<"w", g>> # t) /\ <<"r", g>> # t
  BY <1>1, FileThreadNames DEF Filing!Thread
<1>5. Filing!FlagInv'
  <2>1. CASE Filing!SetFlagAndSignal(t)
    <3>1. \A g \in Filing!File : /\ file_pc'[<<"w", g>>] = IF g = f THEN "unlock" ELSE file_pc[<<"w", g>>]
                                 /\ file_pc'[<<"r", g>>] \in {file_pc[<<"r", g>>], "lock"}
      <4>1. CASE file_pc' = [file_pc EXCEPT ![t] = "unlock"]
        BY <1>1, <1>4, <4>1 DEF Filing!FilesInv, Filing!TypeOK
      <4>2. ASSUME NEW r \in Filing!Reader, file_pc' = [file_pc EXCEPT ![t] = "unlock", ![r] = "lock"]
            PROVE  <3>1
        <5>1. r \in Filing!Thread /\ r # t /\ \A g \in Filing!File : <<"w", g>> # r
          BY FileThreadNames DEF Filing!Thread
        <5>. QED
          BY <1>1, <1>4, <4>2, <5>1 DEF Filing!FilesInv, Filing!TypeOK
      <4>. QED
        BY <2>1, <4>1, <4>2 DEF Filing!SetFlagAndSignal, Filing!Waiting
    <3>2. /\ file_pc[<<"w", f>>] = "set" /\ files_lock' = files_lock \union {f}
          /\ UNCHANGED <<names, written, mainpc>>
      BY <1>1, <2>1 DEF Filing!SetFlagAndSignal
    <3>3. f \in written /\ names[f] = "live" /\ f \in files_lock'
      BY <1>1, <1>2, <3>2 DEF Filing!FilesInv, Filing!FlagInv
    <3>4. file_pc'[<<"w", f>>] = "unlock"
      BY <1>1, <3>1
    <3>5. ASSUME NEW g \in Filing!File, g # f
          PROVE  /\ file_pc'[<<"w", g>>] = file_pc[<<"w", g>>]
                 /\ g \in files_lock' <=> g \in files_lock
      BY <3>1, <3>2, <3>5
    <3>. QED
      BY <1>1, <1>2, <3>1, <3>2, <3>3, <3>4, <3>5 DEF Filing!FilesInv, Filing!FlagInv
  <2>2. CASE ~Filing!SetFlagAndSignal(t)
    <3>1. /\ file_pc' = file_pc \/ \E to \in {"open", "write", "lock", "set", "unlock", "done"} :
               /\ file_pc' = [file_pc EXCEPT ![t] = to]
               /\ to = "lock" => f \in written'
               /\ to = "set" => file_pc[t] = "lock"
          /\ files_lock' = files_lock /\ written' \in {written, written \union {f}}
      BY <1>1, <2>2 DEF Filing!write_in_file, Filing!Start, Filing!OpenForWriting,
           Filing!WriteAndClose, Filing!Lock, Filing!Unlock, Filing!Goto
    <3>2. \A g \in Filing!File :
            /\ file_pc'[<<"r", g>>] = file_pc[<<"r", g>>]
            /\ g # f => file_pc'[<<"w", g>>] = file_pc[<<"w", g>>]
      BY <1>1, <1>4, <3>1 DEF Filing!FilesInv, Filing!TypeOK
    <3>3. /\ file_pc'[<<"w", f>>] # "none"
          /\ file_pc'[<<"w", f>>] \in {"lock", "set"} =>
               f \in written' \/ file_pc[<<"w", f>>] \in {"lock", "set"}
      BY <1>1, <1>2, <3>1 DEF Filing!FilesInv, Filing!TypeOK
    <3>. QED
      BY <1>1, <1>2, <3>1, <3>2, <3>3 DEF Filing!FilesInv, Filing!FlagInv
  <2>. QED
    BY <2>1, <2>2
<1>. QED
  BY <1>2, <1>3, <1>5, ThreadKeepsBooks DEF Filing!FilesInv

\* A step of a reader: it passes only when the flag of its file is set.
LEMMA ReaderStep ==
  ASSUME Filing!FilesInv, Filing!Running, NEW t \in Filing!Reader, Filing!read_file(t) \/ Filing!SpuriousWakeup(t)
  PROVE  Filing!FilesInv'
<1>. DEFINE f == t[2]
<1>1. f \in Filing!File /\ t = <<"r", f>> /\ t \in Filing!Thread /\ t \notin Filing!Writer
  BY FileThreadNames DEF Filing!Thread
<1>2. /\ file_pc[t] # "none" /\ UNCHANGED <<i, thread_store, names, files_lock, written>>
      /\ mainpc' \in {mainpc, "abort"} /\ mainpc # "exit"
  BY DEF Filing!read_file, Filing!Start, Filing!CheckFlag, Filing!ReadFile, Filing!SpuriousWakeup,
         Filing!Lock, Filing!Unlock, Filing!Goto, Filing!Running
<1>3. \/ file_pc' = file_pc
      \/ \E to \in {"lock", "check", "wait", "unlock", "read", "done"} :
           /\ file_pc' = [file_pc EXCEPT ![t] = to]
           /\ to = "unlock" => f \in files_lock
           /\ to = "read" => file_pc[t] = "unlock"
  BY <1>1 DEF Filing!read_file, Filing!Start, Filing!CheckFlag, Filing!ReadFile, Filing!SpuriousWakeup,
         Filing!Lock, Filing!Unlock, Filing!Goto
<1>4. Filing!TypeOK' /\ \A u \in Filing!Thread : file_pc'[u] = "none" <=> file_pc[u] = "none"
  <2>1. file_m' \in Filing!Thread \union {Filing!Garbage}
    BY <1>1 DEF Filing!FilesInv, Filing!TypeOK, Filing!read_file, Filing!Start, Filing!CheckFlag,
         Filing!ReadFile, Filing!SpuriousWakeup, Filing!Lock, Filing!Unlock, Filing!Goto
  <2>. QED
    BY <1>1, <1>2, <1>3, <2>1 DEF Filing!FilesInv, Filing!TypeOK
<1>5. \A g \in Filing!File : <<"w", g>> \in Filing!Thread /\ <<"r", g>> \in Filing!Thread
                             /\ (g # f => <<"r", g>> # t) /\ <<"w", g>> # t
  BY <1>1, FileThreadNames DEF Filing!Thread
<1>6. Filing!FlagInv'
  <2>1. \A g \in Filing!File :
          /\ file_pc'[<<"w", g>>] = file_pc[<<"w", g>>]
          /\ g # f => file_pc'[<<"r", g>>] = file_pc[<<"r", g>>]
    BY <1>1, <1>3, <1>5 DEF Filing!FilesInv, Filing!TypeOK
  <2>2. file_pc'[t] \in {"unlock", "read"} => f \in files_lock \/ file_pc[t] \in {"unlock", "read"}
    BY <1>1, <1>3 DEF Filing!FilesInv, Filing!TypeOK
  <2>. QED
    BY <1>1, <1>2, <2>1, <2>2 DEF Filing!FilesInv, Filing!FlagInv
<1>. QED
  BY <1>2, <1>4, <1>6, ThreadKeepsBooks DEF Filing!FilesInv

\* main starts a thread and puts it at the end of thread_store, where it was not before.
LEMMA StartKeepsBooks ==
  ASSUME Filing!FilesInv, NEW t \in Filing!Thread, file_pc[t] = "none",
         thread_store' = Append(thread_store, t), file_pc' = [file_pc EXCEPT ![t] = "start"]
  PROVE  Filing!AllStored' /\ Filing!OnlyStarted'
<1>. DEFINE n == Len(thread_store)
<1>1. /\ n \in Nat /\ DOMAIN thread_store = 1 .. n /\ DOMAIN thread_store' = 1 .. n + 1
      /\ thread_store'[n + 1] = t /\ \A j \in 1 .. n : thread_store'[j] = thread_store[j]
  BY DEF Filing!FilesInv, Filing!TypeOK
<1>2. file_pc'[t] = "start" /\ \A u \in Filing!Thread : u # t => file_pc'[u] = file_pc[u]
  BY DEF Filing!FilesInv, Filing!TypeOK
<1>3. \A j \in 1 .. n : thread_store[j] # t
  BY <1>1 DEF Filing!FilesInv, Filing!OnlyStarted
<1>4. Filing!OnlyStarted'
  BY <1>1, <1>2 DEF Filing!FilesInv, Filing!OnlyStarted
<1>5. ASSUME NEW u \in Filing!Thread, file_pc'[u] # "none"
      PROVE  /\ \E j \in 1 .. n + 1 : thread_store'[j] = u
             /\ \A j, l \in 1 .. n + 1 : thread_store'[j] = u /\ thread_store'[l] = u => j = l
  <2>1. CASE u = t
    BY <1>1, <1>3, <2>1
  <2>2. CASE u # t
    <3>1. PICK j \in 1 .. n : thread_store[j] = u
      BY <1>1, <1>2, <1>5, <2>2 DEF Filing!FilesInv, Filing!AllStored
    <3>2. \A l \in 1 .. n : thread_store[l] = u => l = j
      BY <1>1, <1>2, <1>5, <2>2, <3>1 DEF Filing!FilesInv, Filing!AllStored
    <3>. QED
      BY <1>1, <2>2, <3>1, <3>2
  <2>. QED
    BY <2>1, <2>2
<1>6. Filing!AllStored'
  BY <1>1, <1>5 DEF Filing!AllStored
<1>. QED
  BY <1>4, <1>6

\* A turn without a new thread leaves a place with garbage in thread_store, or none.
LEMMA GarbageKeepsBooks ==
  ASSUME Filing!FilesInv, file_pc' = file_pc,
         thread_store' \in {thread_store, Append(thread_store, Filing!Garbage)}
  PROVE  Filing!AllStored' /\ Filing!OnlyStarted'
<1>. DEFINE n == Len(thread_store)
<1>1. CASE thread_store' = thread_store
  BY <1>1 DEF Filing!FilesInv, Filing!AllStored, Filing!OnlyStarted
<1>2. CASE thread_store' = Append(thread_store, Filing!Garbage)
  <2>1. /\ n \in Nat /\ DOMAIN thread_store = 1 .. n /\ DOMAIN thread_store' = 1 .. n + 1
        /\ thread_store'[n + 1] = Filing!Garbage
        /\ \A j \in 1 .. n : thread_store'[j] = thread_store[j]
    BY <1>2 DEF Filing!FilesInv, Filing!TypeOK
  <2>2. Filing!OnlyStarted'
    BY <2>1, FileThreadNames DEF Filing!FilesInv, Filing!OnlyStarted
  <2>3. ASSUME NEW u \in Filing!Thread, file_pc[u] # "none"
        PROVE  /\ \E j \in 1 .. n + 1 : thread_store'[j] = u
               /\ \A j, l \in 1 .. n + 1 : thread_store'[j] = u /\ thread_store'[l] = u => j = l
    <3>1. PICK j \in 1 .. n : thread_store[j] = u
      BY <2>1, <2>3 DEF Filing!FilesInv, Filing!AllStored
    <3>2. \A l \in 1 .. n : thread_store[l] = u => l = j
      BY <2>1, <2>3, <3>1 DEF Filing!FilesInv, Filing!AllStored
    <3>. QED
      BY <2>1, <3>1, <3>2, FileThreadNames
  <2>4. Filing!AllStored'
    BY <2>1, <2>3 DEF Filing!AllStored
  <2>. QED
    BY <2>2, <2>4
<1>. QED
  BY <1>1, <1>2

\* The threads of the present turn are not started.
LEMMA TurnFacts ==
  ASSUME Filing!FilesInv, mainpc \in {"writers", "readers"}
  PROVE  /\ i \in Filing!File /\ i \in Nat /\ i >= 1 /\ i <= Files /\ Files \in Nat
         /\ <<"w", i>> \in Filing!Thread /\ <<"r", i>> \in Filing!Thread
         /\ mainpc = "writers" => file_pc[<<"w", i>>] = "none"
         /\ file_pc[<<"r", i>>] = "none"
         /\ thread_store \in Seq(Filing!Thread \union {Filing!Garbage}) /\ Len(thread_store) \in Nat
         /\ Len(thread_store) <= IF mainpc = "writers" THEN i - 1 ELSE Files + i - 1
<1>1. Files \in Nat /\ i \in Nat /\ i >= 1 /\ i <= Files
  BY WorkersAssumption DEF Filing!FilesInv, Filing!TypeOK, Filing!LoopInv
<1>2. i \in Filing!File
  BY <1>1 DEF Filing!File
<1>3. <<"w", i>> \in Filing!Thread /\ <<"r", i>> \in Filing!Thread
  BY <1>2, FileThreadNames DEF Filing!Thread
<1>4. (mainpc = "writers" => file_pc[<<"w", i>>] = "none") /\ file_pc[<<"r", i>>] = "none"
  BY <1>1, <1>2 DEF Filing!FilesInv, Filing!LoopInv
<1>. QED
  BY <1>1, <1>2, <1>3, <1>4 DEF Filing!FilesInv, Filing!TypeOK, Filing!LoopInv

\* The store grows by one place at most.
LEMMA StoreGrows ==
  ASSUME NEW S, thread_store \in Seq(S), NEW e \in S, NEW g \in S,
         thread_store' \in {thread_store, Append(thread_store, e), Append(thread_store, g)}
  PROVE  thread_store' \in Seq(S) /\ Len(thread_store') \in Nat
         /\ Len(thread_store') <= Len(thread_store) + 1
  OBVIOUS

\* A turn of main's first loop.
LEMMA CreateWriterStep ==
  ASSUME Filing!FilesInv, Filing!CreateWriter
  PROVE  Filing!FilesInv'
<1>. DEFINE t == <<"w", i>>  S == Filing!Thread \union {Filing!Garbage}
<1>0. mainpc = "writers" /\ UNCHANGED <<files_lock, written, file_m>>
  BY DEF Filing!CreateWriter
<1>1. /\ i \in Filing!File /\ i \in Nat /\ i >= 1 /\ i <= Files /\ Files \in Nat
      /\ t \in Filing!Thread /\ file_pc[t] = "none"
      /\ thread_store \in Seq(S) /\ Len(thread_store) \in Nat /\ Len(thread_store) <= i - 1
  BY <1>0, TurnFacts
<1>2. \/ /\ thread_store' = Append(thread_store, t) /\ file_pc' = [file_pc EXCEPT ![t] = "start"]
         /\ names' = [names EXCEPT ![i] = "live"]
      \/ /\ thread_store' \in {thread_store, Append(thread_store, Filing!Garbage)}
         /\ file_pc' = file_pc /\ names' \in {names, [names EXCEPT ![i] = "freed"]}
  BY DEF Filing!CreateWriter
<1>3. Filing!AllStored' /\ Filing!OnlyStarted'
  BY <1>1, <1>2, StartKeepsBooks, GarbageKeepsBooks
<1>4. thread_store' \in Seq(S) /\ Len(thread_store') \in Nat /\ Len(thread_store') <= i
  <2>1. thread_store' \in Seq(S) /\ Len(thread_store') \in Nat /\ Len(thread_store') <= Len(thread_store) + 1
    <3>. HIDE DEF t
    <3>1. t \in S /\ Filing!Garbage \in S
      BY <1>1
    <3>2. thread_store' \in {thread_store, Append(thread_store, t), Append(thread_store, Filing!Garbage)}
      BY <1>2
    <3>. HIDE DEF S
    <3>. QED
      BY <1>1, <3>1, <3>2, StoreGrows
  <2>. QED
    BY <1>1, <2>1
<1>5. \/ i < Files /\ i' = i + 1 /\ mainpc' = "writers"
      \/ i = Files /\ i' = 1 /\ mainpc' = "readers"
  BY <1>1 DEF Filing!CreateWriter, Filing!NextFile
<1>6. Filing!TypeOK'
  <2>1. i' \in 1 .. 2 * Files + 1 /\ Len(thread_store') <= 2 * Files
    BY <1>1, <1>4, <1>5
  <2>2. file_pc' \in [Filing!Thread -> {"none", "start", "open", "write", "lock", "set", "check", "wait",
                                        "unlock", "read", "done"}]
    BY <1>1, <1>2 DEF Filing!FilesInv, Filing!TypeOK
  <2>3. names' \in [Filing!File -> {"none", "live", "freed"}]
    BY <1>1, <1>2 DEF Filing!FilesInv, Filing!TypeOK
  <2>. QED
    BY <1>0, <1>4, <1>5, <2>1, <2>2, <2>3 DEF Filing!FilesInv, Filing!TypeOK
<1>7. \A f \in Filing!File : /\ file_pc'[<<"r", f>>] = "none"
                             /\ f # i => file_pc'[<<"w", f>>] = file_pc[<<"w", f>>]
                             /\ f # i => names'[f] = names[f]
  <2>1. \A f \in Filing!File : /\ <<"r", f>> \in Filing!Thread /\ <<"r", f>> # t
                               /\ <<"w", f>> \in Filing!Thread /\ (f # i => <<"w", f>> # t)
    BY <1>1, FileThreadNames DEF Filing!Thread
  <2>2. \A f \in Filing!File : file_pc[<<"r", f>>] = "none"
    BY <1>0 DEF Filing!FilesInv, Filing!LoopInv
  <2>. HIDE DEF t
  <2>. QED
    BY <1>1, <1>2, <2>1, <2>2 DEF Filing!FilesInv, Filing!TypeOK
<1>8. Filing!LoopInv'
  <2>1. \A f \in Filing!File : f \in Nat
    BY DEF Filing!File
  <2>2. ASSUME NEW f \in Filing!File, mainpc' = "writers", f >= i' PROVE file_pc'[<<"w", f>>] = "none"
    <3>1. f >= i /\ f # i
      BY <1>1, <1>5, <2>1, <2>2
    <3>2. file_pc[<<"w", f>>] = "none"
      BY <1>0, <3>1 DEF Filing!FilesInv, Filing!LoopInv
    <3>. QED
      BY <1>7, <3>1, <3>2
  <2>. QED
    BY <1>1, <1>4, <1>5, <1>7, <2>2 DEF Filing!LoopInv
<1>9. Filing!FlagInv'
  <2>1. file_pc'[t] # "none" => names'[i] = "live"
    BY <1>1, <1>2 DEF Filing!FilesInv, Filing!TypeOK
  <2>2. i \notin written /\ i \notin files_lock /\ file_pc'[t] \in {"none", "start"}
    BY <1>1, <1>2 DEF Filing!FilesInv, Filing!TypeOK, Filing!FlagInv
  <2>3. ASSUME NEW f \in Filing!File
        PROVE  /\ file_pc'[<<"w", f>>] # "none" => names'[f] = "live"
               /\ f \in written => file_pc'[<<"w", f>>] # "none"
               /\ file_pc'[<<"w", f>>] \in {"lock", "set"} \/ f \in files_lock => f \in written
    <3>1. CASE f = i
      BY <2>1, <2>2, <3>1
    <3>2. CASE f # i
      BY <1>0, <1>7, <3>2 DEF Filing!FilesInv, Filing!FlagInv
    <3>. QED
      BY <3>1, <3>2
  <2>. QED
    BY <1>0, <1>7, <2>3 DEF Filing!FlagInv
<1>. QED
  BY <1>3, <1>6, <1>8, <1>9 DEF Filing!FilesInv

\* A turn of main's second loop.
LEMMA CreateReaderStep ==
  ASSUME Filing!FilesInv, Filing!CreateReader
  PROVE  Filing!FilesInv'
<1>. DEFINE t == <<"r", i>>  S == Filing!Thread \union {Filing!Garbage}
<1>0. mainpc = "readers" /\ UNCHANGED <<names, files_lock, written, file_m>>
  BY DEF Filing!CreateReader
<1>1. /\ i \in Filing!File /\ i \in Nat /\ i >= 1 /\ i <= Files /\ Files \in Nat
      /\ t \in Filing!Thread /\ file_pc[t] = "none"
      /\ thread_store \in Seq(S) /\ Len(thread_store) \in Nat /\ Len(thread_store) <= Files + i - 1
  BY <1>0, TurnFacts
<1>2. \/ thread_store' = Append(thread_store, t) /\ file_pc' = [file_pc EXCEPT ![t] = "start"]
      \/ /\ thread_store' \in {thread_store, Append(thread_store, Filing!Garbage)}
         /\ file_pc' = file_pc
  BY DEF Filing!CreateReader
<1>3. Filing!AllStored' /\ Filing!OnlyStarted'
  BY <1>1, <1>2, StartKeepsBooks, GarbageKeepsBooks
<1>4. thread_store' \in Seq(S) /\ Len(thread_store') \in Nat /\ Len(thread_store') <= Files + i
  <2>1. thread_store' \in Seq(S) /\ Len(thread_store') \in Nat /\ Len(thread_store') <= Len(thread_store) + 1
    <3>. HIDE DEF t
    <3>1. t \in S /\ Filing!Garbage \in S
      BY <1>1
    <3>2. thread_store' \in {thread_store, Append(thread_store, t), Append(thread_store, Filing!Garbage)}
      BY <1>2
    <3>. HIDE DEF S
    <3>. QED
      BY <1>1, <3>1, <3>2, StoreGrows
  <2>. QED
    BY <1>1, <2>1
<1>5. \/ i < Files /\ i' = i + 1 /\ mainpc' = "readers"
      \/ i = Files /\ i' = 1 /\ mainpc' = "join"
  BY <1>1 DEF Filing!CreateReader, Filing!NextFile
<1>6. Filing!TypeOK'
  <2>1. i' \in 1 .. 2 * Files + 1 /\ Len(thread_store') <= 2 * Files
    BY <1>1, <1>4, <1>5
  <2>2. file_pc' \in [Filing!Thread -> {"none", "start", "open", "write", "lock", "set", "check", "wait",
                                        "unlock", "read", "done"}]
    BY <1>1, <1>2 DEF Filing!FilesInv, Filing!TypeOK
  <2>. QED
    BY <1>0, <1>4, <1>5, <2>1, <2>2 DEF Filing!FilesInv, Filing!TypeOK
<1>7. \A f \in Filing!File : /\ file_pc'[<<"w", f>>] = file_pc[<<"w", f>>]
                             /\ f # i => file_pc'[<<"r", f>>] = file_pc[<<"r", f>>]
                             /\ file_pc'[<<"r", f>>] \in {file_pc[<<"r", f>>], "start"}
  <2>1. \A f \in Filing!File : /\ <<"w", f>> \in Filing!Thread /\ <<"w", f>> # t
                               /\ <<"r", f>> \in Filing!Thread /\ (f # i => <<"r", f>> # t)
    BY <1>1, FileThreadNames DEF Filing!Thread
  <2>. HIDE DEF t
  <2>. QED
    BY <1>1, <1>2, <2>1 DEF Filing!FilesInv, Filing!TypeOK
<1>8. Filing!LoopInv'
  <2>1. \A f \in Filing!File : f \in Nat
    BY DEF Filing!File
  <2>2. ASSUME NEW f \in Filing!File, mainpc' = "readers", f >= i' PROVE file_pc'[<<"r", f>>] = "none"
    <3>1. f >= i /\ f # i
      BY <1>1, <1>5, <2>1, <2>2
    <3>2. file_pc[<<"r", f>>] = "none"
      BY <1>0, <3>1 DEF Filing!FilesInv, Filing!LoopInv
    <3>. QED
      BY <1>7, <3>1, <3>2
  <2>. QED
    BY <1>1, <1>4, <1>5, <2>2 DEF Filing!LoopInv
<1>9. Filing!FlagInv'
  BY <1>0, <1>5, <1>7 DEF Filing!FilesInv, Filing!FlagInv
<1>. QED
  BY <1>3, <1>6, <1>8, <1>9 DEF Filing!FilesInv

\* The joins, the checks of the status, the clean-up, and the crash over a name.
LEMMA MainEndStep ==
  ASSUME Filing!FilesInv, Filing!Running,
         Filing!NameCrash \/ Filing!Join \/ Filing!CheckStatus \/ Filing!Cleanup
  PROVE  Filing!FilesInv'
<1>0. Files \in Nat
  BY WorkersAssumption
<1>1. /\ UNCHANGED <<thread_store, file_pc, files_lock, written, file_m>>
      /\ mainpc' \in {"join", "check", "cleanup", "exit", "abort"} /\ mainpc # "exit"
      /\ mainpc' # "exit" => names' = names
  BY DEF Filing!Running, Filing!NameCrash, Filing!Join, Filing!CheckStatus, Filing!Cleanup
<1>2. names' \in [Filing!File -> {"none", "live", "freed"}]
  BY DEF Filing!FilesInv, Filing!TypeOK, Filing!NameCrash, Filing!Join, Filing!CheckStatus, Filing!Cleanup
<1>3. i' \in 1 .. 2 * Files + 1 /\ (mainpc' = "check" => i' <= 2 * Files)
  <2>1. i \in 1 .. 2 * Files + 1 /\ Len(thread_store) <= 2 * Files /\ Len(thread_store) \in Nat
        /\ (mainpc = "check" => i <= 2 * Files)
    BY DEF Filing!FilesInv, Filing!TypeOK, Filing!LoopInv
  <2>2. CASE Filing!CheckStatus
    BY <1>0, <2>1, <2>2 DEF Filing!CheckStatus
  <2>3. CASE Filing!NameCrash \/ Filing!Join \/ Filing!Cleanup
    BY <1>0, <2>1, <2>3 DEF Filing!NameCrash, Filing!Join, Filing!Cleanup
  <2>. QED
    BY <2>2, <2>3
<1>4. Filing!AllStored' /\ Filing!OnlyStarted'
  BY <1>1, GarbageKeepsBooks
<1>5. Filing!TypeOK'
  BY <1>1, <1>2, <1>3 DEF Filing!FilesInv, Filing!TypeOK
<1>6. Filing!LoopInv' /\ Filing!FlagInv'
  BY <1>1, <1>3 DEF Filing!FilesInv, Filing!LoopInv, Filing!FlagInv
<1>. QED
  BY <1>4, <1>5, <1>6 DEF Filing!FilesInv

\* Every step of problem 4 preserves the invariant.
LEMMA FilesStep ==
  ASSUME Filing!FilesInv, [Filing!Next]_fileVars
  PROVE  Filing!FilesInv'
<1>1. CASE UNCHANGED fileVars
  BY <1>1 DEF fileVars, Filing!FilesInv, Filing!TypeOK, Filing!AllStored, Filing!OnlyStarted,
              Filing!LoopInv, Filing!FlagInv
<1>2. CASE Filing!Next
  BY <1>2, CreateWriterStep, CreateReaderStep, MainEndStep, WriterStep, ReaderStep
     DEF Filing!Next, Filing!main
<1>. QED
  BY <1>1, <1>2

-------------------------------------------------------------------------------
\* The run's specification: one of the programs takes steps, the others stay as they are.

\* The programs' variables change by their own steps only.
LEMMA SumStep ==
  ASSUME [MCNext]_<<program, vars, widgetVars, fileVars, primVars>>
  PROVE  [Next]_vars /\ [Filing!Next]_fileVars /\ [Prim!Next]_primVars
  BY DEF MCNext

\* Nobody goes on too early, for every number of files, every finite set of threads at
\* the primitives and all their counts: a reader opens only a finished file under a live
\* name, every thread main has started can be joined, and the spinlock, the barrier and
\* the semaphore let nobody through too early.
THEOREM NobodyGoesTooEarly == MCSpec => []NobodyTooEarly
<1>1. MCInit => Filing!FilesInv /\ PrimInv
  BY InitFilesInv, InitPrimInv, WorkersAssumption DEF MCInit
<1>2. ASSUME Filing!FilesInv /\ PrimInv, [MCNext]_<<program, vars, widgetVars, fileVars, primVars>>
      PROVE  (Filing!FilesInv /\ PrimInv)'
  BY <1>2, SumStep, FilesStep, PrimStep, WorkersAssumption
<1>3. Filing!FilesInv /\ PrimInv => NobodyTooEarly
  <2>1. Filing!FilesInv => Filing!ReadsFinishedFile
    BY DEF Filing!FilesInv, Filing!FlagInv, Filing!ReadsFinishedFile, Filing!Running
  <2>. QED
    BY <2>1, PrimInvHolds, WorkersAssumption DEF NobodyTooEarly, Filing!FilesInv
<1>. QED
  BY <1>1, <1>2, <1>3, PTL DEF MCSpec

\* The store of the run is the store of problem 7: its bounds and its wakeups hold there too.
COROLLARY SumKeepsStore == MCSpec => [](Bounded /\ NoLostWakeup)
<1>1. MCInit => StoreInv
  BY InitStoreInv DEF MCInit
<1>2. StoreInv /\ [MCNext]_<<program, vars, widgetVars, fileVars, primVars>> => StoreInv'
  BY SumStep, StoreStep
<1>3. StoreInv => Bounded /\ NoLostWakeup
  BY DEF StoreInv
<1>. QED
  BY <1>1, <1>2, <1>3, PTL DEF MCSpec

===============================================================================
