------------------------------- MODULE CondTurns -------------------------------
(***************************************************************************)
(* src/pthreads-problems/problem-1/solution.c: the main thread and the     *)
(* thread print_lines take turns with a mutex, one condition variable for  *)
(* both directions, and the flag cond_predictate (0: main's turn).  The    *)
(* two loops have the same shape, so one set of steps serves both.         *)
(***************************************************************************)
EXTENDS Naturals

CONSTANT Lines  \* turns of each loop; 10 in the code

Thread == {"main", "child"}
Other(t) == IF t = "main" THEN "child" ELSE "main"

VARIABLES
  pc,               \* where each thread is
  i,                \* its loop counter: the lines it has printed
  m,                \* owner of the mutex, or "free"
  cond_predictate

vars == <<pc, i, m, cond_predictate>>

PC == {"none", "start", "lock", "check", "wait", "print", "signal", "unlock", "join", "exit",
       "done", "failed"}

TypeOK ==
  /\ pc \in [Thread -> PC]
  /\ i \in [Thread -> 0 .. Lines]
  /\ m \in Thread \union {"free"}
  /\ cond_predictate \in {0, 1}

Init ==
  /\ pc = [t \in Thread |-> IF t = "main" THEN "start" ELSE "none"]
  /\ i = [t \in Thread |-> 0]
  /\ m = "free" /\ cond_predictate = 0

Goto(t, from, to) == pc[t] = from /\ pc' = [pc EXCEPT ![t] = to]

\* The process runs; it ends when main exits or handle_error_en is called.
Alive == pc["main"] \notin {"exit", "failed"}

\* main up to its loop: the stack and the thread are created, or the process ends.
CreateThread ==
  /\ pc["main"] = "start"
  /\ \/ pc' = [t \in Thread |-> IF t = "main" THEN "lock" ELSE "start"]
     \/ pc' = [pc EXCEPT !["main"] = "failed"]
  /\ UNCHANGED <<i, m, cond_predictate>>

\* print_lines up to its loop: an error in the scheduling calls ends the process.
ChildStart ==
  /\ pc["child"] = "start"
  /\ \/ pc' = [pc EXCEPT !["child"] = "lock"]
     \/ pc' = [pc EXCEPT !["main"] = "failed"]
  /\ UNCHANGED <<i, m, cond_predictate>>

MyTurn(t) == cond_predictate = IF t = "main" THEN 0 ELSE 1

Lock(t) ==
  /\ Goto(t, "lock", "check") /\ m = "free" /\ m' = t
  /\ UNCHANGED <<i, cond_predictate>>

\* while (the predicate says it is the other's turn) pthread_cond_wait(&cond, &m)
Check(t) ==
  /\ \/ MyTurn(t) /\ Goto(t, "check", "print") /\ UNCHANGED m
     \/ ~MyTurn(t) /\ Goto(t, "check", "wait") /\ m' = "free"
  /\ UNCHANGED <<i, cond_predictate>>

\* Mutant: print_lines sets the predicate too, instead of clearing it.
MutantPrintLine(t) ==
  /\ Goto(t, "print", "signal")
  /\ i' = [i EXCEPT ![t] = @ + 1]
  /\ cond_predictate' = 1
  /\ UNCHANGED m

\* The line is printed and the turn passed on.
PrintLine(t) ==
  /\ Goto(t, "print", "signal")
  /\ i' = [i EXCEPT ![t] = @ + 1]
  /\ cond_predictate' = 1 - cond_predictate
  /\ UNCHANGED m

\* Mutant: the signal is sent only once.
MutantSignal(t) ==
  /\ pc[t] = "signal"
  /\ pc' = [pc EXCEPT ![t] = "unlock",
                      ![Other(t)] = IF @ = "wait" /\ i[t] = 1 THEN "lock" ELSE @]
  /\ UNCHANGED <<i, m, cond_predictate>>

\* pthread_cond_signal: the other thread, if it waits, goes back for the mutex.
Signal(t) ==
  /\ pc[t] = "signal"
  /\ pc' = [pc EXCEPT ![t] = "unlock", ![Other(t)] = IF @ = "wait" THEN "lock" ELSE @]
  /\ UNCHANGED <<i, m, cond_predictate>>

\* The end of the loop body; after the last turn print_lines returns and main joins.
Unlock(t) ==
  /\ Goto(t, "unlock", IF i[t] < Lines THEN "lock" ELSE IF t = "main" THEN "join" ELSE "done")
  /\ m' = "free"
  /\ UNCHANGED <<i, cond_predictate>>

JoinExit ==
  /\ Goto("main", "join", "exit") /\ pc["child"] = "done"
  /\ UNCHANGED <<i, m, cond_predictate>>

SpuriousWakeup(t) == Goto(t, "wait", "lock") /\ UNCHANGED <<i, m, cond_predictate>>

Turn(t) == Lock(t) \/ Check(t) \/ PrintLine(t) \/ Signal(t) \/ Unlock(t)

main == CreateThread \/ Turn("main") \/ JoinExit

print_lines == ChildStart \/ Turn("child")

Next ==
  /\ Alive
  /\ main \/ print_lines \/ \E t \in Thread : SpuriousWakeup(t)

Spec == Init /\ [][Next]_vars

\* Both threads are scheduled, and one that keeps asking for the mutex gets it.
Fairness ==
  /\ WF_vars(Alive /\ main) /\ WF_vars(Alive /\ print_lines)
  /\ \A t \in Thread : SF_vars(Alive /\ Lock(t))

-------------------------------------------------------------------------------

\* The lines come in turns, main's first, whatever the wakeups: the loops around
\* pthread_cond_wait and the flip of cond_predictate in problem-1/solution.c.
Turns == INSTANCE LineTurns WITH main_lines <- i["main"], child_lines <- i["child"]

TakesTurns == Turns!Spec

\* A thread asleep whose turn it is will be woken: the other one has flipped the
\* predicate and is about to signal.  One condition for both directions is enough
\* because the two can never sleep at once.
NoLostWakeup ==
  \A t \in Thread : pc[t] = "wait" =>
    /\ MyTurn(t) => pc[Other(t)] = "signal"
    /\ pc[Other(t)] # "wait"

\* The inductive invariant behind the two: who owns the mutex, and what the
\* predicate says about the lines printed.
TurnInv ==
  /\ TypeOK
  /\ \A t \in Thread : pc[t] \in {"check", "print", "signal", "unlock"} => m = t
  /\ \A t \in Thread : /\ pc[t] = "print" => MyTurn(t)
                       /\ pc[t] \in {"signal", "unlock"} => ~MyTurn(t)
  /\ i["main"] = i["child"] + cond_predictate
  /\ \A t \in Thread :
       pc[t] \in {"none", "start", "lock", "check", "wait", "print"} => i[t] < Lines
  /\ \A t \in Thread : pc[t] \in {"join", "exit", "done"} => i[t] = Lines
  /\ NoLostWakeup

\* Both loops come to their end and the process exits, or a call before the loops
\* has failed and ended it.
Finishes == <>(~Alive /\ (pc["main"] = "exit" => i = [t \in Thread |-> Lines]))
===============================================================================
