-------------------------------- MODULE Widgets --------------------------------
(***************************************************************************)
(* src/pthreads-problems/problem-5/solution.c: three threads make the      *)
(* parts A, B and C, one assembles A and B, one assembles AB and C to a    *)
(* widget.  Four semaphores count the parts in stock; a signal ends the    *)
(* threads through exit_signal, which they test between two products.      *)
(* main creates the threads, joins them in the same order and destroys the *)
(* semaphores.                                                             *)
(***************************************************************************)
EXTENDS Naturals, Sequences

CONSTANT SemMax  \* SEM_VALUE_MAX: a sem_post beyond it fails, which nobody looks at

Maker     == {"a", "b", "c"}
Assembler == {"ab", "widget"}
Thread    == Maker \union Assembler

\* Stock "ab" is widget_sem_1 and stock "c" widget_sem_2.  An assembler takes from
\* two stocks, in this order.
Stock     == Maker \union {"ab"}
First(t)  == IF t = "ab" THEN "a" ELSE "ab"
Second(t) == IF t = "ab" THEN "b" ELSE "c"

\* The order in which main creates the threads, and joins them.
Order == <<"a", "b", "ab", "c", "widget">>

VARIABLES
  sem,          \* the semaphores a_sem, b_sem, widget_sem_1, widget_sem_2
  pc,           \* where each thread is; "failed" when it could not be created
  exit_signal,
  mainpc,       \* "create", "join", "exit" or "abort"
  k             \* the thread that main creates or joins next

vars == <<sem, pc, exit_signal, mainpc, k>>
mainVars == <<mainpc, k>>

TypeOK ==
  /\ sem \in [Stock -> 0 .. SemMax]
  /\ pc \in [Thread -> {"none", "test", "first", "second", "ready", "done", "failed"}]
  /\ exit_signal \in BOOLEAN
  /\ mainpc \in {"create", "join", "exit", "abort"} /\ k \in 1 .. Len(Order) + 1

Init ==
  /\ sem = [s \in Stock |-> 0]
  /\ pc = [t \in Thread |-> "none"]
  /\ exit_signal = FALSE /\ mainpc = "create" /\ k = 1

\* The process has not ended.
Alive == mainpc \in {"create", "join"}

Goto(t, from, to) == pc[t] = from /\ pc' = [pc EXCEPT ![t] = to]

\* while(!exit_signal)
Test(t, to) ==
  /\ Goto(t, "test", IF exit_signal THEN "done" ELSE to)
  /\ UNCHANGED <<sem, exit_signal, mainVars>>

sem_post(s) == sem' = [sem EXCEPT ![s] = IF @ < SemMax THEN @ + 1 ELSE @]

sem_wait(s) == sem[s] > 0 /\ sem' = [sem EXCEPT ![s] = @ - 1]

\* Mutant: an assembler forgets to post.
MutantReady(t) ==
  /\ Goto(t, "ready", "test")
  /\ IF t \in {"a", "b", "c"} THEN sem_post(t) ELSE UNCHANGED sem
  /\ UNCHANGED <<exit_signal, mainVars>>

\* The product is ready and goes into its stock; the widget itself goes nowhere.
Ready(t) ==
  /\ Goto(t, "ready", "test")
  /\ IF t \in Stock THEN sem_post(t) ELSE UNCHANGED sem
  /\ UNCHANGED <<exit_signal, mainVars>>

make(t) == Test(t, "ready") \/ Ready(t)

makeA == make("a")

makeB == make("b")

makeC == make("c")

TakeFirst(t) ==
  /\ Goto(t, "first", "second") /\ sem_wait(First(t))
  /\ UNCHANGED <<exit_signal, mainVars>>

TakeSecond(t) ==
  /\ Goto(t, "second", "ready") /\ sem_wait(Second(t))
  /\ UNCHANGED <<exit_signal, mainVars>>

assemble(t) == Test(t, "first") \/ TakeFirst(t) \/ TakeSecond(t) \/ Ready(t)

makeAB == assemble("ab")

makeWidget == assemble("widget")

sigint_handler == exit_signal' = TRUE /\ UNCHANGED <<sem, pc, mainVars>>

\* A failure is reported and main goes on.
pthread_create ==
  /\ mainpc = "create"
  /\ \E to \in {"test", "failed"} : pc' = [pc EXCEPT ![Order[k]] = to]
  /\ IF k < Len(Order) THEN k' = k + 1 /\ UNCHANGED mainpc ELSE k' = 1 /\ mainpc' = "join"
  /\ UNCHANGED <<sem, exit_signal>>

\* The id of a thread that was not created was never set: its join fails or crashes.
pthread_join ==
  /\ mainpc = "join" /\ k <= Len(Order)
  /\ \/ pc[Order[k]] \in {"done", "failed"} /\ k' = k + 1 /\ UNCHANGED mainpc
     \/ pc[Order[k]] = "failed" /\ mainpc' = "abort" /\ UNCHANGED k
  /\ UNCHANGED <<sem, pc, exit_signal>>

\* sem_destroy of the four, and the return.
sem_destroy ==
  /\ mainpc = "join" /\ k > Len(Order) /\ mainpc' = "exit"
  /\ UNCHANGED <<sem, pc, exit_signal, k>>

main == pthread_create \/ pthread_join \/ sem_destroy

Next ==
  Alive /\ (main \/ makeA \/ makeB \/ makeC \/ makeAB \/ makeWidget \/ sigint_handler)

Spec == Init /\ [][Next]_vars

\* The threads are scheduled.  Each semaphore has one thread that waits on it, so a
\* wait that can succeed does.
Fairness ==
  /\ WF_vars(main)
  /\ WF_vars(Alive /\ makeA) /\ WF_vars(Alive /\ makeB) /\ WF_vars(Alive /\ makeC)
  /\ WF_vars(Alive /\ makeAB) /\ WF_vars(Alive /\ makeWidget)

FairSpec == Spec /\ Fairness

-------------------------------------------------------------------------------

\* The line does not stop: when all threads could be created there is always another
\* widget until a signal comes, however full the stocks of the faster makers are.
KeepsProducing ==
  [](\/ exit_signal \/ \E t \in Thread : pc[t] = "failed"
     \/ <>(pc["widget"] = "ready" \/ exit_signal \/ \E t \in Thread : pc[t] = "failed"))

\* An assembler waits on a stock that is empty and whose maker has ended or waits
\* in the same way.
Starved(t, s) ==
  \/ pc[t] = "first" /\ s = First(t) /\ sem[s] = 0
  \/ pc[t] = "second" /\ s = Second(t) /\ sem[s] = 0

Ended(t) == pc[t] \in {"done", "failed"}

Stuck(s) ==
  \/ Ended(s)
  \/ s = "ab" /\ \E r \in Maker : Starved("ab", r) /\ Ended(r)

\* What a signal leads to.  The makers always end.  An assembler ends too, unless it
\* was past its test of exit_signal and waits for a part that nobody will make any
\* more; main's pthread_join then never returns.  Otherwise main destroys the
\* semaphores, which nobody uses then, or crashes over an id that was never set.
ExitOutcome ==
  exit_signal ~>
    [](\/ mainpc = "abort"
       \/ /\ \A t \in Maker : Ended(t)
          /\ \A t \in Assembler : Ended(t) \/ \E s \in Stock : Starved(t, s) /\ Stuck(s)
          /\ (\A t \in Thread : Ended(t)) <=> mainpc = "exit")
===============================================================================
