--------------------------------- MODULE Store ---------------------------------
(***************************************************************************)
(* src/pthreads-problems/problem-7: one thread sets values in a bounded    *)
(* store and one gets them, with one mutex and one condition variable for  *)
(* both directions, until a signal sets exit_signal.  Every value is 2, so *)
(* the store appears by its size; its list is of the same kind as the one  *)
(* in LogMsgQueue.                                                         *)
(***************************************************************************)
EXTENDS Naturals

CONSTANT Capacity  \* main passes 10

ASSUME CapacityAssumption == Capacity \in Nat \ {0}

Thread == {"set", "get"}
Other(t) == IF t = "set" THEN "get" ELSE "set"

VARIABLES
  pc,           \* where each thread is
  m,            \* owner of the mutex, or "free"
  size,         \* store->size
  exit_signal

vars == <<pc, m, size, exit_signal>>

TypeOK ==
  /\ pc \in [Thread -> {"test", "lock", "check", "wait", "work", "signal", "unlock", "done"}]
  /\ m \in Thread \union {"free"}
  /\ size \in Nat
  /\ exit_signal \in BOOLEAN

\* store_init, and both threads created.
Init ==
  /\ pc = [t \in Thread |-> "test"]
  /\ m = "free" /\ size = 0 /\ exit_signal = FALSE

Goto(t, from, to) == pc[t] = from /\ pc' = [pc EXCEPT ![t] = to]

\* Mutant: the flag is not tested.
MutantTest(t) == Goto(t, "test", "lock") /\ UNCHANGED <<m, size, exit_signal>>

\* while (!exit_signal)
Test(t) ==
  /\ Goto(t, "test", IF exit_signal THEN "done" ELSE "lock")
  /\ UNCHANGED <<m, size, exit_signal>>

Lock(t) ==
  /\ Goto(t, "lock", "check") /\ m = "free" /\ m' = t
  /\ UNCHANGED <<size, exit_signal>>

\* Mutant: the store takes one value more than its capacity.
MutantBlocked(t) == IF t = "set" THEN size > Capacity ELSE size = 0

\* The conditions of the two inner loops.
Blocked(t) == IF t = "set" THEN size >= Capacity ELSE size = 0

Check(t) ==
  /\ \/ Blocked(t) /\ Goto(t, "check", "wait") /\ m' = "free"
     \/ ~Blocked(t) /\ Goto(t, "check", "work") /\ UNCHANGED m
  /\ UNCHANGED <<size, exit_signal>>

\* add_val may find no memory for the node; set_data does not look at its result.
add_val ==
  /\ Goto("set", "work", "signal") /\ size' \in {size, size + 1}
  /\ UNCHANGED <<m, exit_signal>>

get_val ==
  /\ Goto("get", "work", "signal") /\ size' = size - 1
  /\ UNCHANGED <<m, exit_signal>>

\* Mutant: set_data does not signal.
MutantSignal(t) ==
  /\ pc[t] = "signal"
  /\ pc' = [pc EXCEPT ![t] = "unlock",
                      ![Other(t)] = IF @ = "wait" /\ t = "get" THEN "lock" ELSE @]
  /\ UNCHANGED <<m, size, exit_signal>>

Signal(t) ==
  /\ pc[t] = "signal"
  /\ pc' = [pc EXCEPT ![t] = "unlock", ![Other(t)] = IF @ = "wait" THEN "lock" ELSE @]
  /\ UNCHANGED <<m, size, exit_signal>>

Unlock(t) ==
  /\ Goto(t, "unlock", "test") /\ m' = "free"
  /\ UNCHANGED <<size, exit_signal>>

sigint_handler == exit_signal' = TRUE /\ UNCHANGED <<pc, m, size>>

SpuriousWakeup(t) == Goto(t, "wait", "lock") /\ UNCHANGED <<m, size, exit_signal>>

set_data == Test("set") \/ Lock("set") \/ Check("set") \/ add_val \/ Signal("set") \/ Unlock("set")

get_data == Test("get") \/ Lock("get") \/ Check("get") \/ get_val \/ Signal("get") \/ Unlock("get")

Next == set_data \/ get_data \/ sigint_handler \/ \E t \in Thread : SpuriousWakeup(t)

Spec == Init /\ [][Next]_vars

\* The threads are scheduled; one that keeps asking for the mutex gets it; memory is
\* found now and then.
Fairness ==
  /\ WF_vars(set_data) /\ WF_vars(get_data)
  /\ \A t \in Thread : SF_vars(Lock(t))
  /\ SF_vars(add_val /\ size' = size + 1)

FairSpec == Spec /\ Fairness

-------------------------------------------------------------------------------

\* Beyond its type: the store is never filled past its capacity and nothing is
\* taken from an empty one, since a thread tests again after every wakeup and
\* keeps the mutex up to its work.
Bounded == size \in 0 .. Capacity /\ \A t \in Thread : pc[t] = "work" => ~Blocked(t)

\* A thread asleep has reason to be, or the other one is about to signal it; and
\* the two never sleep at once, which is what makes one condition variable for
\* both directions enough.
NoLostWakeup ==
  \A t \in Thread : pc[t] = "wait" =>
    /\ Blocked(t) \/ pc[Other(t)] = "signal"
    /\ pc[Other(t)] # "wait"

\* The inductive invariant.
StoreInv ==
  /\ TypeOK /\ Bounded /\ NoLostWakeup
  /\ \A t \in Thread : pc[t] \in {"check", "work", "signal", "unlock"} => m = t

\* Until the signal, whoever sleeps works again.
SleeperWorks == \A t \in Thread : pc[t] = "wait" ~> pc[t] = "work" \/ exit_signal

\* What a signal leads to: both threads end, or one has ended and the other sleeps,
\* getting from an empty store or setting in a full one, where nobody will signal
\* it and main's pthread_join never returns.
ExitOutcome ==
  exit_signal ~> [](\E t \in Thread :
    /\ pc[t] = "done"
    /\ pc[Other(t)] = "done" \/ (Blocked(Other(t)) /\ pc[Other(t)] \in {"wait", "lock", "check"}))

===============================================================================
