------------------------------ MODULE Primitives -------------------------------
(***************************************************************************)
(* src/c++/synchronization-primitive: a spinlock, a barrier and a          *)
(* semaphore, each used by a set of threads.  What a thread does while it  *)
(* has the mutex of the barrier or of the semaphore is one step; a wait    *)
(* gives the mutex back, and may end without a notification.               *)
(***************************************************************************)
EXTENDS Integers, FiniteSets

CONSTANTS
  Thread,
  Count,   \* what the barrier is made with
  Cnt      \* what the semaphore is made with

VARIABLES
  flag, spin,       \* the spinlock's flag; threads that have it
  count, bar,       \* the barrier's count; where each thread is
  cnt, sem          \* the semaphore's cnt; where each thread is

spinVars == <<flag, spin>>
barVars == <<count, bar>>
semVars == <<cnt, sem>>
vars == <<spinVars, barVars, semVars>>

\* Before C++20 nothing says what a flag holds that is not initialised.
Init ==
  /\ flag \in BOOLEAN /\ spin = {}
  /\ count = Count /\ bar = [t \in Thread |-> "idle"]
  /\ cnt = Cnt /\ sem = [t \in Thread |-> "idle"]

-------------------------------------------------------------------------------

\* spinlock::lock, when test_and_set finds the flag clear.
Lock(t) ==
  /\ ~flag /\ flag' = TRUE /\ spin' = spin \union {t}
  /\ UNCHANGED <<barVars, semVars>>

Unlock(t) ==
  /\ t \in spin /\ flag' = FALSE /\ spin' = spin \ {t}
  /\ UNCHANGED <<barVars, semVars>>

-------------------------------------------------------------------------------

\* barrier::arrive_and_wait: the arrival, which wakes everybody, and the test of the loop.
Arrive(t) ==
  /\ bar[t] = "idle"
  /\ count' = IF count > 0 THEN count - 1 ELSE count
  /\ bar' = [u \in Thread |->
               IF u = t THEN (IF count' > 0 THEN "wait" ELSE "passed")
               ELSE IF count > 0 /\ bar[u] = "wait" THEN "woken" ELSE bar[u]]
  /\ UNCHANGED <<spinVars, semVars>>

\* A thread is back from the wait, notified or not.
BarrierTest(t) ==
  /\ bar[t] = "woken"
  /\ bar' = [bar EXCEPT ![t] = IF count > 0 THEN "wait" ELSE "passed"]
  /\ UNCHANGED <<count, spinVars, semVars>>

BarrierSpurious(t) ==
  /\ bar[t] = "wait" /\ bar' = [bar EXCEPT ![t] = "woken"]
  /\ UNCHANGED <<count, spinVars, semVars>>

-------------------------------------------------------------------------------

\* semaphore::acquire, at its start or back from the wait.
Acquire(t) ==
  /\ sem[t] \in {"idle", "woken"}
  /\ IF cnt = 0
     THEN sem' = [sem EXCEPT ![t] = "wait"] /\ UNCHANGED cnt
     ELSE sem' = [sem EXCEPT ![t] = "has"] /\ cnt' = cnt - 1
  /\ UNCHANGED <<spinVars, barVars>>

SemSpurious(t) ==
  /\ sem[t] = "wait" /\ sem' = [sem EXCEPT ![t] = "woken"]
  /\ UNCHANGED <<cnt, spinVars, barVars>>

\* semaphore::release by a thread that has acquired; it wakes one that waits.
Release(t) ==
  /\ sem[t] = "has" /\ cnt' = cnt + 1
  /\ IF \E u \in Thread : sem[u] = "wait"
     THEN \E u \in Thread : sem[u] = "wait" /\ sem' = [sem EXCEPT ![t] = "idle", ![u] = "woken"]
     ELSE sem' = [sem EXCEPT ![t] = "idle"]
  /\ UNCHANGED <<spinVars, barVars>>

Next ==
  \E t \in Thread :
    \/ Lock(t) \/ Unlock(t)
    \/ Arrive(t) \/ BarrierTest(t) \/ BarrierSpurious(t)
    \/ Acquire(t) \/ SemSpurious(t) \/ Release(t)

\* A thread that is awake goes on; nobody need come, or give anything back.
Fairness ==
  \A t \in Thread : WF_vars(BarrierTest(t)) /\ WF_vars(sem[t] = "woken" /\ Acquire(t))

Spec == Init /\ [][Next]_vars /\ Fairness

-------------------------------------------------------------------------------

In(f, where) == {t \in Thread : f[t] = where}

\* One thread at most has the spinlock, and none when its flag was set from the start.
SpinExcludes == (spin = {} \/ flag) /\ \A t, u \in spin : t = u

\* Nobody passes the barrier before Count threads have come; when they have, nobody sleeps.
BarrierHolds ==
  /\ In(bar, "passed") # {} => Cardinality(Thread \ In(bar, "idle")) >= Count
  /\ count = 0 => In(bar, "wait") = {}

\* The semaphore lets Cnt threads through, and for every count that is there while threads
\* sleep another thread is on its way.
SemaphoreHolds ==
  /\ cnt + Cardinality(In(sem, "has")) = Cnt
  /\ In(sem, "wait") # {} => cnt <= Cardinality(In(sem, "woken"))

PrimitivesHold == SpinExcludes /\ BarrierHolds /\ SemaphoreHolds

\* When the barrier is open everybody who has come passes, and nobody sleeps at the
\* semaphore for long while there is something to acquire.
PrimitivesLive ==
  /\ (count = 0) ~> \A t \in Thread : bar[t] \in {"idle", "passed"}
  /\ []<>(cnt = 0 \/ In(sem, "wait") = {})
===============================================================================
