-------------------------------- MODULE SemTurns --------------------------------
(***************************************************************************)
(* src/pthreads-problems/problem-1/task-13/solution.c: the same turns as   *)
(* in CondTurns, taken with two semaphores.  Each thread waits on its own  *)
(* and posts the other's.                                                  *)
(***************************************************************************)
EXTENDS Naturals

CONSTANT Lines  \* turns of each loop; 10 in the code

Thread == {"main", "child"}
Other(t) == IF t = "main" THEN "child" ELSE "main"

VARIABLES
  pc,   \* where each thread is
  i,    \* its loop counter: the lines it has printed
  sem   \* sem["child"] is sem1, sem["main"] is sem2: whom a wait on it lets go on

vars == <<pc, i, sem>>

TypeOK ==
  /\ pc \in [Thread -> {"none", "start", "sem_wait", "print", "sem_post", "join", "exit",
                        "done", "failed"}]
  /\ i \in [Thread -> 0 .. Lines]
  /\ sem \in [Thread -> Nat]

Init ==
  /\ pc = [t \in Thread |-> IF t = "main" THEN "start" ELSE "none"]
  /\ i = [t \in Thread |-> 0]
  /\ sem = [t \in Thread |-> IF t = "main" THEN 1 ELSE 0]

Goto(t, from, to) == pc[t] = from /\ pc' = [pc EXCEPT ![t] = to]

Alive == pc["main"] \notin {"exit", "failed"}

\* What main does not check here: when pthread_create fails there is no child, and
\* the loop waits for ever after its first line.
CreateThread ==
  /\ pc["main"] = "start"
  /\ \/ pc' = [t \in Thread |-> IF t = "main" THEN "sem_wait" ELSE "start"]
     \/ pc' = [pc EXCEPT !["main"] = "sem_wait"]
     \/ pc' = [pc EXCEPT !["main"] = "failed"]
  /\ UNCHANGED <<i, sem>>

ChildStart ==
  /\ pc["child"] = "start"
  /\ \/ pc' = [pc EXCEPT !["child"] = "sem_wait"]
     \/ pc' = [pc EXCEPT !["main"] = "failed"]
  /\ UNCHANGED <<i, sem>>

SemWait(t) ==
  /\ Goto(t, "sem_wait", "print")
  /\ sem[t] > 0 /\ sem' = [sem EXCEPT ![t] = @ - 1]
  /\ UNCHANGED i

PrintLine(t) ==
  /\ Goto(t, "print", "sem_post")
  /\ i' = [i EXCEPT ![t] = @ + 1]
  /\ UNCHANGED sem

\* Mutant: each thread posts its own semaphore.
MutantSemPost(t) ==
  /\ Goto(t, "sem_post",
          IF i[t] < Lines THEN "sem_wait" ELSE IF t = "main" THEN "join" ELSE "done")
  /\ sem' = [sem EXCEPT ![t] = @ + 1]
  /\ UNCHANGED i

\* Mutant: the child posts both semaphores.
MutantSemPostTwice(t) ==
  /\ Goto(t, "sem_post",
          IF i[t] < Lines THEN "sem_wait" ELSE IF t = "main" THEN "join" ELSE "done")
  /\ sem' = [u \in Thread |-> IF u = Other(t) \/ t = "child" THEN sem[u] + 1 ELSE sem[u]]
  /\ UNCHANGED i

\* The end of the loop body; after the last turn print_lines returns and main joins.
SemPost(t) ==
  /\ Goto(t, "sem_post",
          IF i[t] < Lines THEN "sem_wait" ELSE IF t = "main" THEN "join" ELSE "done")
  /\ sem' = [sem EXCEPT ![Other(t)] = @ + 1]
  /\ UNCHANGED i

JoinExit ==
  /\ pc["child"] = "done" /\ Goto("main", "join", "exit")
  /\ UNCHANGED <<i, sem>>

Turn(t) == SemWait(t) \/ PrintLine(t) \/ SemPost(t)

main == CreateThread \/ Turn("main") \/ JoinExit

print_lines == ChildStart \/ Turn("child")

Next == Alive /\ (main \/ print_lines)

Spec == Init /\ [][Next]_vars

\* Both threads are scheduled.
Fairness == WF_vars(Alive /\ main) /\ WF_vars(Alive /\ print_lines)

-------------------------------------------------------------------------------

InTurn == {t \in Thread : pc[t] \in {"print", "sem_post"}}

\* There is one token: in a semaphore, or in the hands of the one thread between
\* its sem_wait and its sem_post.  It is why two lines are never printed at once
\* and why neither semaphore exceeds 1.
OneToken ==
  pc["main"] # "failed" =>
    \/ InTurn = {} /\ sem["main"] + sem["child"] = 1
    \/ (\E t \in Thread : InTurn = {t}) /\ sem["main"] + sem["child"] = 0

\* The token and the lines: where the token is tells who is a line ahead.
TokenInv ==
  /\ TypeOK /\ OneToken
  /\ pc["main"] = "start" => pc["child"] = "none"
  /\ pc["main"] # "failed" => i["main"] = i["child"] +
       IF sem["child"] = 1 \/ pc["main"] = "sem_post" \/ pc["child"] = "print" THEN 1 ELSE 0
  /\ \A t \in Thread : pc[t] \in {"none", "start", "sem_wait", "print"} => i[t] < Lines
  /\ \A t \in Thread : pc[t] \in {"join", "exit", "done"} => i[t] = Lines

\* The lines come in turns, main's first: task-13 does with semaphores what
\* problem-1/solution.c does with a condition variable.
Turns == INSTANCE LineTurns WITH main_lines <- i["main"], child_lines <- i["child"]

TakesTurns == Turns!Spec

\* The process ends, after all lines unless a call has failed before; or main waits
\* on sem2 for a child that pthread_create, whose result is not looked at, did not
\* create.
Finishes ==
  <>[](\/ ~Alive /\ (pc["main"] = "exit" => i = [t \in Thread |-> Lines])
       \/ pc["child"] = "none" /\ pc["main"] = "sem_wait" /\ i["main"] = 1)
===============================================================================
