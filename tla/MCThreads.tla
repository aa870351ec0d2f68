------------------------------- MODULE MCThreads -------------------------------
(***************************************************************************)
(* Threads that share little: the two programs of problem 1 that print     *)
(* lines in turns, and the threads that call a vector.  A behaviour is one *)
(* of the program it starts with, the others stay at their start.  The     *)
(* theorems at the end are on all three, for every number of lines,        *)
(* threads and adds: no wakeup is lost, there is one token, the lines come *)
(* in turns, and the vector keeps its elements.                            *)
(***************************************************************************)
EXTENDS Vector, FiniteSetTheorems, TLAPS

CONSTANT Lines  \* turns of each loop; 10 in the code

ASSUME LinesAssumption == Lines \in Nat \ {0}

VARIABLES program, cond_pc, cond_i, m, cond_predictate, sem_pc, sem_i, sem

Cond == INSTANCE CondTurns WITH pc <- cond_pc, i <- cond_i
Sem == INSTANCE SemTurns WITH pc <- sem_pc, i <- sem_i
condVars == <<cond_pc, cond_i, m, cond_predictate>>
semVars == <<sem_pc, sem_i, sem>>
mcVars == <<program, vars, condVars, semVars>>

MCInit ==
  /\ program \in {"vector", "cond", "sem"} /\ Init /\ Cond!Init /\ Sem!Init
  /\ program # "vector" => \A c \in Capacities : capacity <= c

MCNext ==
  \/ program = "vector" /\ Next /\ UNCHANGED <<program, condVars, semVars>>
  \/ program = "cond" /\ Cond!Next /\ UNCHANGED <<program, vars, semVars>>
  \/ program = "sem" /\ Sem!Next /\ UNCHANGED <<program, vars, condVars>>

MCSpec ==
  /\ MCInit /\ [][MCNext]_mcVars
  /\ \/ program = "vector"
     \/ program = "cond" /\ Cond!Fairness
     \/ program = "sem" /\ Sem!Fairness

-------------------------------------------------------------------------------

\* Problem 1: a thread asleep whose turn it is will be woken, see CondTurns.
NoLostWakeup == Cond!NoLostWakeup

\* Problem 1: the lines come in turns, main's first, whatever the wakeups.
TakesTurns == Cond!TakesTurns

\* Task 13 takes the same turns as problem 1, with one token in its two semaphores.
SemTakesTurns == Sem!TakesTurns /\ [][Sem!OneToken']_semVars

\* Both programs end after all their lines, unless a call failed before; the one hang
\* is that of task 13 without a child.
AllFinish == (program = "cond" => Cond!Finishes) /\ (program = "sem" => Sem!Finishes)

-------------------------------------------------------------------------------
\* Problem 1, with a condition variable.

USE LinesAssumption DEF LinesAssumption

\* At the start nobody owns the mutex, and it is main's turn.
LEMMA InitTurnInv == Cond!Init => Cond!TurnInv
  BY DEF Cond!Init, Cond!TurnInv, Cond!TypeOK, Cond!PC, Cond!NoLostWakeup, Cond!MyTurn,
         Cond!Thread, Cond!Other

\* The steps before and after the loops.
LEMMA OutsideStep ==
  Cond!TurnInv /\ (Cond!CreateThread \/ Cond!ChildStart \/ Cond!JoinExit) => Cond!TurnInv'
  <1> USE DEF Cond!TurnInv, Cond!TypeOK, Cond!PC, Cond!NoLostWakeup, Cond!MyTurn,
              Cond!Thread, Cond!Other, Cond!Goto
  <1>1. Cond!TurnInv /\ Cond!CreateThread => Cond!TurnInv'
    BY DEF Cond!CreateThread
  <1>2. Cond!TurnInv /\ Cond!ChildStart => Cond!TurnInv'
    BY DEF Cond!ChildStart
  <1>3. Cond!TurnInv /\ Cond!JoinExit => Cond!TurnInv'
    BY DEF Cond!JoinExit
  <1> QED BY <1>1, <1>2, <1>3

\* The steps of the two loops, and the wakeups nobody asked for.
LEMMA LoopStep ==
  ASSUME Cond!TurnInv, NEW t \in Cond!Thread, Cond!Turn(t) \/ Cond!SpuriousWakeup(t)
  PROVE  Cond!TurnInv'
  <1> USE DEF Cond!TurnInv, Cond!TypeOK, Cond!PC, Cond!NoLostWakeup, Cond!MyTurn,
              Cond!Thread, Cond!Other, Cond!Goto
  <1>1. CASE Cond!Lock(t)
    BY <1>1 DEF Cond!Lock
  <1>2. CASE Cond!Check(t)
    BY <1>2 DEF Cond!Check
  <1>3. CASE Cond!PrintLine(t)
    BY <1>3 DEF Cond!PrintLine
  <1>4. CASE Cond!Signal(t)
    BY <1>4 DEF Cond!Signal
  <1>5. CASE Cond!Unlock(t)
    BY <1>5 DEF Cond!Unlock
  <1>6. CASE Cond!SpuriousWakeup(t)
    BY <1>6 DEF Cond!SpuriousWakeup
  <1> QED BY <1>1, <1>2, <1>3, <1>4, <1>5, <1>6 DEF Cond!Turn

\* TurnInv is an invariant of the program for every number of lines.
THEOREM TurnInvariant == Cond!Spec => []Cond!TurnInv
  <1>1. Cond!TurnInv /\ [Cond!Next]_(Cond!vars) => Cond!TurnInv'
    <2> SUFFICES ASSUME Cond!TurnInv, [Cond!Next]_(Cond!vars) PROVE Cond!TurnInv'
      OBVIOUS
    <2>1. CASE Cond!main
      BY <2>1, OutsideStep, LoopStep DEF Cond!main, Cond!Thread
    <2>2. CASE Cond!print_lines
      BY <2>2, OutsideStep, LoopStep DEF Cond!print_lines, Cond!Thread
    <2>3. CASE \E t \in Cond!Thread : Cond!SpuriousWakeup(t)
      BY <2>3, LoopStep
    <2>4. CASE UNCHANGED Cond!vars
      BY <2>4 DEF Cond!vars, Cond!TurnInv, Cond!TypeOK, Cond!NoLostWakeup, Cond!MyTurn
    <2> QED BY <2>1, <2>2, <2>3, <2>4 DEF Cond!Next
  <1> QED BY <1>1, InitTurnInv, PTL DEF Cond!Spec

\* One condition variable for both directions loses no wakeup.
THEOREM WakeupsAreNotLost == Cond!Spec => []NoLostWakeup
  <1>1. Cond!TurnInv => NoLostWakeup
    BY DEF Cond!TurnInv, NoLostWakeup
  <1> QED BY <1>1, TurnInvariant, PTL

\* The program implements LineTurns: each line is printed by the thread whose turn it
\* is, and no other step prints.
THEOREM LinesTakeTurns == Cond!Spec => TakesTurns
  <1>1. Cond!Init => cond_i["main"] = 0 /\ cond_i["child"] = 0
    BY DEF Cond!Init, Cond!Thread
  <1>2. ASSUME Cond!TurnInv, [Cond!Next]_(Cond!vars)
        PROVE  [Cond!Turns!MainPrints \/ Cond!Turns!ChildPrints]_<<cond_i["main"], cond_i["child"]>>
    <2> USE <1>2 DEF Cond!TurnInv, Cond!TypeOK, Cond!MyTurn, Cond!Thread
    <2>1. CASE Cond!PrintLine("main")
      BY <2>1 DEF Cond!PrintLine, Cond!Goto, Cond!Turns!MainPrints
    <2>2. CASE Cond!PrintLine("child")
      BY <2>2 DEF Cond!PrintLine, Cond!Goto, Cond!Turns!ChildPrints
    <2>3. CASE UNCHANGED cond_i
      BY <2>3
    <2> QED
      BY <2>1, <2>2, <2>3 DEF Cond!Next, Cond!main, Cond!print_lines, Cond!Turn,
         Cond!CreateThread, Cond!ChildStart, Cond!Lock,
         Cond!Check, Cond!Signal, Cond!Unlock, Cond!JoinExit, Cond!SpuriousWakeup, Cond!vars
  <1> QED BY <1>1, <1>2, TurnInvariant, PTL
          DEF Cond!Spec, TakesTurns, Cond!TakesTurns, Cond!Turns!Spec

-------------------------------------------------------------------------------
\* Task 13, with semaphores.

\* The token in numbers: what is in the semaphores and in the hands of the threads.
Held(t) == IF sem_pc[t] \in {"print", "sem_post"} THEN 1 ELSE 0
Tokens == sem["main"] + sem["child"] + Held("main") + Held("child")

CountsOne == Sem!TypeOK => (Sem!OneToken <=> (sem_pc["main"] # "failed" => Tokens = 1))

\* OneToken, which speaks of the set of threads in their turn, counts one token.
LEMMA TokenCount == CountsOne
  <1> SUFFICES ASSUME Sem!TypeOK, sem_pc["main"] # "failed" PROVE Sem!OneToken <=> Tokens = 1
    BY DEF CountsOne, Sem!OneToken
  <1>1. sem["main"] \in Nat /\ sem["child"] \in Nat
    BY DEF Sem!TypeOK, Sem!Thread
  <1>2. CASE Held("main") = 0 /\ Held("child") = 0
    <2>1. Sem!InTurn = {}
      BY <1>2 DEF Held, Sem!InTurn, Sem!Thread
    <2> QED BY <1>1, <1>2, <2>1 DEF Tokens, Sem!OneToken
  <1>3. CASE Held("main") = 1 /\ Held("child") = 1
    <2>1. "main" \in Sem!InTurn /\ "child" \in Sem!InTurn
      BY <1>3 DEF Held, Sem!InTurn, Sem!Thread
    <2> QED BY <1>1, <1>3, <2>1 DEF Tokens, Sem!OneToken
  <1>4. CASE Held("main") + Held("child") = 1
    <2>1. Sem!InTurn = {"main"} \/ Sem!InTurn = {"child"}
      BY <1>4 DEF Held, Sem!InTurn, Sem!Thread
    <2>2. Sem!InTurn # {} /\ \E t \in Sem!Thread : Sem!InTurn = {t}
      BY <2>1 DEF Sem!Thread
    <2> QED BY <1>1, <1>4, <2>2 DEF Tokens, Held, Sem!OneToken
  <1> QED BY <1>2, <1>3, <1>4 DEF Held

\* The same in the state after a step.
LEMMA TokenCountNext == CountsOne'
  BY TokenCount, PTL

\* At the start the token is in main's semaphore.
LEMMA InitTokenInv == Sem!Init => Sem!TokenInv
  BY TokenCount DEF CountsOne, Tokens, Held, Sem!Init, Sem!TokenInv, Sem!TypeOK, Sem!Thread

\* The steps before and after the loops leave the token where it is.
LEMMA OutsideTokenStep ==
  ASSUME Sem!TokenInv, Sem!CreateThread \/ Sem!ChildStart \/ Sem!JoinExit
  PROVE  Sem!TokenInv'
  <1> USE TokenCount, TokenCountNext
      DEF CountsOne, Tokens, Held, Sem!TokenInv, Sem!TypeOK, Sem!Thread, Sem!Goto
  <1>1. CASE Sem!CreateThread
    BY <1>1 DEF Sem!CreateThread
  <1>2. CASE Sem!ChildStart
    BY <1>2 DEF Sem!ChildStart
  <1>3. CASE Sem!JoinExit
    BY <1>3 DEF Sem!JoinExit
  <1> QED BY <1>1, <1>2, <1>3

\* In the loops the token goes from a semaphore to the thread, and to the other semaphore.
LEMMA LoopTokenStep ==
  ASSUME Sem!TokenInv, NEW t \in Sem!Thread, Sem!Turn(t), Sem!Alive
  PROVE  Sem!TokenInv'
  <1> USE TokenCount, TokenCountNext
      DEF CountsOne, Tokens, Held, Sem!TokenInv, Sem!TypeOK, Sem!Thread, Sem!Goto, Sem!Other,
          Sem!Alive
  <1>1. CASE Sem!SemWait(t)
    <2>1. CASE t = "main"
      <3>1. /\ sem["main"] = 1 /\ sem["child"] = 0 /\ sem_pc["child"] \notin {"print", "sem_post"}
            /\ sem_pc["main"] = "sem_wait" /\ sem_i["main"] = sem_i["child"]
        BY <1>1, <2>1 DEF Sem!SemWait
      <3>2. Sem!TypeOK' /\ Tokens' = 1
        BY <1>1, <2>1, <3>1 DEF Sem!SemWait
      <3> QED BY <1>1, <2>1, <3>1, <3>2 DEF Sem!SemWait
    <2>2. CASE t = "child"
      <3>1. /\ sem["child"] = 1 /\ sem["main"] = 0 /\ sem_pc["main"] \notin {"print", "sem_post"}
            /\ sem_pc["child"] = "sem_wait" /\ sem_i["main"] = sem_i["child"] + 1
        BY <1>1, <2>2 DEF Sem!SemWait
      <3>2. Sem!TypeOK' /\ Tokens' = 1
        BY <1>1, <2>2, <3>1 DEF Sem!SemWait
      <3> QED BY <1>1, <2>2, <3>1, <3>2 DEF Sem!SemWait
    <2> QED BY <2>1, <2>2
  <1>2. CASE Sem!PrintLine(t)
    BY <1>2 DEF Sem!PrintLine
  <1>3. CASE Sem!SemPost(t)
    BY <1>3 DEF Sem!SemPost
  <1> QED BY <1>1, <1>2, <1>3 DEF Sem!Turn

\* TokenInv is inductive.
LEMMA TokenStep == Sem!TokenInv /\ [Sem!Next]_semVars => Sem!TokenInv'
  <1> SUFFICES ASSUME Sem!TokenInv, [Sem!Next]_semVars PROVE Sem!TokenInv'
    OBVIOUS
  <1>1. CASE Sem!Next
    BY <1>1, OutsideTokenStep, LoopTokenStep
       DEF Sem!Next, Sem!main, Sem!print_lines, Sem!Thread
  <1>2. CASE UNCHANGED semVars
    BY <1>2 DEF semVars, Sem!TokenInv, Sem!TypeOK, Sem!OneToken, Sem!InTurn
  <1> QED BY <1>1, <1>2

\* A line is printed by the thread that has the token, and the token says whose line is next.
LEMMA TokenTakesTurns ==
  ASSUME Sem!TokenInv, [Sem!Next]_semVars
  PROVE  [Sem!Turns!MainPrints \/ Sem!Turns!ChildPrints]_<<sem_i["main"], sem_i["child"]>>
  <1> USE TokenCount DEF CountsOne, Tokens, Held, Sem!TokenInv, Sem!TypeOK, Sem!Thread, Sem!Goto
  <1>1. CASE Sem!Alive /\ Sem!PrintLine("main")
    BY <1>1 DEF Sem!PrintLine, Sem!Alive, Sem!Turns!MainPrints
  <1>2. CASE Sem!Alive /\ Sem!PrintLine("child")
    BY <1>2 DEF Sem!PrintLine, Sem!Alive, Sem!Turns!ChildPrints
  <1>3. CASE UNCHANGED sem_i
    BY <1>3
  <1> QED
    BY <1>1, <1>2, <1>3 DEF Sem!Next, Sem!main, Sem!print_lines, Sem!Turn, Sem!CreateThread,
       Sem!ChildStart, Sem!SemWait, Sem!SemPost, Sem!JoinExit, semVars

-------------------------------------------------------------------------------
\* The vector.

\* The elements that data has room for.
Room == MaxAdds + Cardinality(Caller)

\* The adds that have yet to write their element.
Pending == {t \in Caller : call[t] = "add" /\ pc[t] # "size"}

\* The places of a thread, and the calls.
Label == {"idle", "top", "rdlock", "yield", "wrlock", "set", "add", "resize", "store", "size",
          "lower", "lowered", "destroyed"}
Calls == {NONE, "add", "get", "set", "pop", "top"}

VectorTypeOK ==
  /\ size \in Nat /\ adds \in Nat /\ capacity \in Nat
  /\ data \in [1 .. Room -> Nat] /\ stack \in Seq(Nat)
  /\ pc \in [Caller -> Label] /\ call \in [Caller -> Calls]
  /\ index \in [Caller -> Nat] /\ old \in [Caller -> Nat]

\* Where a thread is tells the call it is in.
Places ==
  \A t \in Caller :
    /\ pc[t] \in {"idle", "destroyed"} => call[t] = NONE
    /\ pc[t] = "top" => call[t] \in {"top", "pop"}
    /\ pc[t] = "wrlock" => call[t] \in {"add", "set"}
    /\ pc[t] = "set" => call[t] = "set"
    /\ pc[t] \in {"add", "resize", "store", "size"} => call[t] = "add"
    /\ pc[t] \in {"lower", "lowered"} => call[t] = "pop"

\* One writer or readers, and the array is reallocated by the writer.
Locked ==
  /\ readers = {t \in Caller : pc[t] = "yield"}
  /\ writer # NONE => readers = {}
  /\ \A t \in Caller : pc[t] \in {"set", "add", "resize", "store", "size"} => writer = t
  /\ realloc_process => writer \in Caller /\ pc[writer] = "resize"

\* There is room for the elements that are still to be written.
Roomy == adds + Cardinality(Pending) <= Room /\ size <= adds

\* The elements, and what a pop or an add that is under way knows of them.
Elements ==
  /\ size = Len(stack) /\ \A k \in 1 .. size : data[k] = stack[k]
  /\ size <= capacity
  /\ \A t \in Caller :
       /\ pc[t] = "store" => size < capacity
       /\ pc[t] = "size" => /\ size < capacity /\ old[t] = size /\ size < adds
                            /\ size + 1 \in 1 .. Room /\ data[size + 1] = adds
       /\ call[t] = "pop" => size > 0 /\ (pc[t] # "top" => index[t] = size - 1)
       /\ pc[t] = "lowered" => old[t] = size

VectorOK == VectorTypeOK /\ Places /\ Locked /\ Roomy /\ Elements

\* The invariant of the vector: where the model has stopped nothing is said.
VectorIInv == ~raced /\ ~failed => VectorOK

USE VectorAssumption DEF NONE

\* A capacity that is not 0 grows: REALLOC_COEFFICIENT in vector.h adds at least one.
LEMMA Grows == \A c \in Nat \ {0} : REALLOC_COEFFICIENT(c) \in Nat /\ REALLOC_COEFFICIENT(c) > c
<1>. SUFFICES ASSUME NEW c \in Nat \ {0}
     PROVE  REALLOC_COEFFICIENT(c) \in Nat /\ REALLOC_COEFFICIENT(c) > c
  OBVIOUS
<1>1. (1024 * c) \div (c + 128) \in Nat /\ (1024 * c) \div (c + 128) >= 1
  <2>1. \A a \in Nat, b \in Nat \ {0} : a >= b => a \div b \in Nat /\ a \div b >= 1
    OBVIOUS
  <2>. QED
    BY <2>1
<1>. QED
  BY <1>1 DEF REALLOC_COEFFICIENT

\* What a write to one place of an array leaves.
LEMMA Written ==
  ASSUME NEW S, NEW f \in [S -> Nat], NEW k, NEW v \in Nat
  PROVE  /\ [f EXCEPT ![k] = v] \in [S -> Nat]
         /\ \A j \in S \ {k} : [f EXCEPT ![k] = v][j] = f[j]
         /\ k \in S => [f EXCEPT ![k] = v][k] = v
OBVIOUS

\* The same for a sequence.
LEMMA WrittenSeq ==
  ASSUME NEW s \in Seq(Nat), NEW k \in 1 .. Len(s), NEW v \in Nat
  PROVE  /\ [s EXCEPT ![k] = v] \in Seq(Nat) /\ Len([s EXCEPT ![k] = v]) = Len(s)
         /\ \A j \in 1 .. Len(s) : [s EXCEPT ![k] = v][j] = IF j = k THEN v ELSE s[j]
OBVIOUS

\* The room is a number.
LEMMA RoomType == Cardinality(Caller) \in Nat /\ Room \in Nat
BY FS_CardinalityType DEF Room

\* The adds under way are counted by a number.
LEMMA PendingFinite ==
  /\ IsFiniteSet(Pending) /\ Cardinality(Pending) \in Nat
  /\ Cardinality(Pending) <= Cardinality(Caller)
<1>1. Pending \subseteq Caller
  BY DEF Pending
<1>. QED
  BY <1>1, FS_Subset, FS_CardinalityType

\* An empty vector and threads without a call.
LEMMA VectorInit == Init => VectorOK
<1>. SUFFICES ASSUME Init PROVE VectorOK
  OBVIOUS
<1>1. VectorTypeOK
  BY RoomType DEF Init, VectorTypeOK, Room, Label, Calls
<1>2. Places /\ Locked
  BY DEF Init, Places, Locked
<1>3. Pending = {}
  BY DEF Init, Pending
<1>4. Roomy
  BY <1>3, RoomType, FS_EmptySet DEF Init, Roomy
<1>5. Elements
  BY <1>1 DEF Init, Elements, VectorTypeOK
<1>. QED
  BY <1>1, <1>2, <1>4, <1>5 DEF VectorOK

\* Every step keeps the types.
LEMMA VectorTypes ==
  ASSUME VectorOK, NEW t \in Caller, Step(t)
  PROVE  VectorTypeOK'
<1>. USE DEF VectorOK, VectorTypeOK, array, growth, lock, local, verdict
<1>0. ASSUME NEW l \in Label, Goto(t, l) PROVE pc' \in [Caller -> Label]
  BY <1>0 DEF Goto
<1>00. ASSUME Return(t)
       PROVE  /\ pc' \in [Caller -> Label] /\ call' \in [Caller -> Calls]
              /\ index' \in [Caller -> Nat] /\ old' \in [Caller -> Nat]
  <2>1. "idle" \in Label /\ NONE \in Calls
    BY DEF Label, Calls
  <2>. QED
    BY <1>00, <1>0, <2>1 DEF Return
<1>1. CASE Call(t)
  <2>1. pc' \in [Caller -> Label]
    <3>1. Goto(t, "rdlock") \/ Goto(t, "wrlock") \/ Goto(t, "top")
      BY <1>1 DEF Call
    <3>2. "rdlock" \in Label /\ "wrlock" \in Label /\ "top" \in Label
      BY DEF Label
    <3>. QED
      BY <1>0, <3>1, <3>2
  <2>2. call' \in [Caller -> Calls]
    <3>1. \E c \in Calls : call' = [call EXCEPT ![t] = c]
      BY <1>1 DEF Call, Calls
    <3>. QED
      BY <3>1
  <2>3. index' \in [Caller -> Nat]
    <3>1. UNCHANGED index \/ \E i \in Nat : index' = [index EXCEPT ![t] = i]
      BY <1>1 DEF Call
    <3>. QED
      BY <3>1
  <2>. QED
    BY <1>1, <2>1, <2>2, <2>3 DEF Call
<1>2. CASE Top(t)
  <2>1. CASE size = 0
    BY <1>2, <2>1, <1>00 DEF Top
  <2>2. CASE size # 0
    <3>1. "rdlock" \in Label
      BY DEF Label
    <3>. QED
      BY <1>2, <2>2, <3>1, <1>0 DEF Top
  <2>. QED
    BY <2>1, <2>2
<1>3. CASE RdLock(t)
  <2>1. "yield" \in Label
    BY DEF Label
  <2>. QED
    BY <1>3, <1>0, <2>1 DEF RdLock
<1>4. CASE Yield(t)
  <2>1. /\ UNCHANGED <<array, growth, writer, verdict>>
        /\ \/ (Goto(t, "wrlock") \/ Goto(t, "lower")) /\ UNCHANGED local
           \/ Return(t)
    BY <1>4 DEF Yield
  <2>2. "wrlock" \in Label /\ "lower" \in Label
    BY DEF Label
  <2>. QED
    BY <2>1, <2>2, <1>0, <1>00
<1>5. CASE WrLock(t)
  <2>1. call[t] \in Label
    BY <1>5 DEF WrLock, Places, Label
  <2>. QED
    BY <1>5, <1>0, <2>1 DEF WrLock
<1>6. CASE set(t)
  <2>1. stack' \in Seq(Nat)
    <3>1. CASE size <= index[t]
      BY <1>6, <3>1 DEF set
    <3>2. CASE ~(size <= index[t])
      <4>1. stack' = [stack EXCEPT ![index[t] + 1] = 0] /\ index[t] + 1 \in 1 .. Len(stack)
        BY <1>6, <3>2 DEF set, Elements
      <4>. QED
        BY <4>1
    <3>. QED
      BY <3>1, <3>2
  <2>2. data' \in [1 .. Room -> Nat]
    BY <1>6 DEF set
  <2>. QED
    BY <1>6, <2>1, <2>2, <1>00 DEF set
<1>7. CASE add(t)
  <2>1. "resize" \in Label /\ "store" \in Label
    BY DEF Label
  <2>. QED
    BY <1>7, <1>0, <2>1 DEF add
<1>8. CASE Resize(t)
  <2>1. "store" \in Label
    BY DEF Label
  <2>2. capacity' \in Nat
    BY <1>8, Grows DEF Resize
  <2>3. pc' \in [Caller -> Label]
    BY <1>8, <1>0, <2>1 DEF Resize
  <2>. QED
    BY <1>8, <2>2, <2>3 DEF Resize
<1>9. CASE Store(t)
  <2>1. "size" \in Label
    BY DEF Label
  <2>2. pc' \in [Caller -> Label]
    BY <1>9, <1>0, <2>1 DEF Store
  <2>3. data' \in [1 .. Room -> Nat] /\ adds' \in Nat /\ old' \in [Caller -> Nat]
    <3>1. data' = [data EXCEPT ![size + 1] = adds + 1] /\ adds' = adds + 1
          /\ old' = [old EXCEPT ![t] = size]
      BY <1>9 DEF Store
    <3>2. data' \in [1 .. Room -> Nat]
      <4>1. data \in [1 .. Room -> Nat] /\ adds + 1 \in Nat
        OBVIOUS
      <4>. HIDE DEF VectorOK, VectorTypeOK
      <4>. QED
        BY <3>1, <4>1, Written
    <3>3. adds' \in Nat /\ old' \in [Caller -> Nat]
      BY <3>1
    <3>. QED
      BY <3>2, <3>3
  <2>4. UNCHANGED <<size, capacity, stack, call, index>>
    BY <1>9 DEF Store
  <2>. QED
    BY <2>2, <2>3, <2>4
<1>10. CASE AddSize(t)
  BY <1>10, <1>00 DEF AddSize
<1>11. CASE Lower(t)
  <2>1. "lowered" \in Label
    BY DEF Label
  <2>. QED
    BY <1>11, <1>0, <2>1 DEF Lower
<1>12. CASE PopSize(t)
  <2>1. old[t] = size /\ size > 0 /\ size = Len(stack)
    BY <1>12 DEF PopSize, Elements, Places
  <2>2. size' \in Nat /\ stack' \in Seq(Nat)
    BY <1>12, <2>1 DEF PopSize
  <2>. QED
    BY <1>12, <2>2, <1>00 DEF PopSize
<1>. QED
  BY <1>1, <1>2, <1>3, <1>4, <1>5, <1>6, <1>7, <1>8, <1>9, <1>10, <1>11, <1>12 DEF Step

\* Every step keeps the places of the threads and their calls together.
LEMMA VectorPlaces ==
  ASSUME VectorOK, NEW t \in Caller, Step(t)
  PROVE  Places'
<1>. USE DEF VectorOK, VectorTypeOK, Places, local, Goto, Return
<1>1. CASE Call(t)
  BY <1>1 DEF Call
<1>2. CASE Top(t)
  BY <1>2 DEF Top
<1>3. CASE RdLock(t)
  BY <1>3 DEF RdLock
<1>4. CASE Yield(t)
  <2>1. CASE call[t] = "add"
    BY <1>4, <2>1 DEF Yield
  <2>2. CASE call[t] # "add" /\ call[t] = "pop" /\ index[t] < size
    BY <1>4, <2>2 DEF Yield
  <2>3. CASE call[t] # "add" /\ ~(call[t] = "pop" /\ index[t] < size)
    BY <1>4, <2>3 DEF Yield
  <2>. QED
    BY <2>1, <2>2, <2>3
<1>5. CASE WrLock(t)
  BY <1>5 DEF WrLock
<1>6. CASE set(t)
  BY <1>6 DEF set
<1>7. CASE add(t)
  BY <1>7 DEF add
<1>8. CASE Resize(t)
  BY <1>8 DEF Resize
<1>9. CASE Store(t)
  BY <1>9 DEF Store
<1>10. CASE AddSize(t)
  BY <1>10 DEF AddSize
<1>11. CASE Lower(t)
  BY <1>11 DEF Lower
<1>12. CASE PopSize(t)
  BY <1>12 DEF PopSize
<1>. QED
  BY <1>1, <1>2, <1>3, <1>4, <1>5, <1>6, <1>7, <1>8, <1>9, <1>10, <1>11, <1>12 DEF Step

\* Every step keeps readers and writer apart, and a reallocation with the writer.
LEMMA VectorLocked ==
  ASSUME VectorOK, NEW t \in Caller, Step(t)
  PROVE  Locked'
<1>. USE DEF VectorOK, VectorTypeOK, Places, Locked, growth, lock, local, Goto, Return
<1>1. CASE Call(t)
  BY <1>1 DEF Call
<1>2. CASE Top(t)
  BY <1>2 DEF Top
<1>3. CASE RdLock(t)
  BY <1>3 DEF RdLock
<1>4. CASE Yield(t)
  <2>1. \E l \in {"wrlock", "lower", "idle"} : pc' = [pc EXCEPT ![t] = l]
    BY <1>4 DEF Yield
  <2>. QED
    BY <1>4, <2>1 DEF Yield
<1>5. CASE WrLock(t)
  BY <1>5 DEF WrLock
<1>6. CASE set(t)
  BY <1>6 DEF set
<1>7. CASE add(t)
  BY <1>7 DEF add
<1>8. CASE Resize(t)
  BY <1>8 DEF Resize
<1>9. CASE Store(t)
  BY <1>9 DEF Store
<1>10. CASE AddSize(t)
  BY <1>10 DEF AddSize
<1>11. CASE Lower(t)
  BY <1>11 DEF Lower
<1>12. CASE PopSize(t)
  BY <1>12 DEF PopSize
<1>. QED
  BY <1>1, <1>2, <1>3, <1>4, <1>5, <1>6, <1>7, <1>8, <1>9, <1>10, <1>11, <1>12 DEF Step

\* Every step leaves room for the adds under way: an add that begins finds fewer than
\* MaxAdds before it, and one that writes its element is no longer under way.
LEMMA VectorRoomy ==
  ASSUME VectorOK, NEW t \in Caller, Step(t), ~raced', Pending' \in SUBSET Caller
  PROVE  Roomy'
<1>. USE DEF VectorOK, VectorTypeOK, Places, Roomy, array, local, Goto, Return
<1>0. ASSUME Pending' = Pending, adds' = adds, size' \in Int, size' <= size
      PROVE  Roomy'
  BY <1>0, PendingFinite
<1>1. CASE Call(t)
  <2>1. CASE adds < MaxAdds
    <3>1. Cardinality(Pending') \in Nat /\ Cardinality(Pending') <= Cardinality(Caller)
      BY FS_Subset, FS_CardinalityType
    <3>2. adds' = adds /\ size' = size
      BY <1>1 DEF Call
    <3>. QED
      BY <2>1, <3>1, <3>2, RoomType DEF Room
  <2>2. CASE ~(adds < MaxAdds)
    <3>1. \E c \in Calls \ {"add"} : call' = [call EXCEPT ![t] = c]
      BY <1>1, <2>2 DEF Call, Calls
    <3>2. \E l \in Label \ {"size"} : pc' = [pc EXCEPT ![t] = l]
      BY <1>1 DEF Call, Label
    <3>3. call[t] = NONE
      BY <1>1 DEF Call
    <3>4. Pending' = Pending
      BY <3>1, <3>2, <3>3 DEF Pending
    <3>. QED
      BY <1>0, <1>1, <3>4 DEF Call
  <2>. QED
    BY <2>1, <2>2
<1>2. CASE Top(t)
  <2>1. Pending' = Pending
    BY <1>2 DEF Top, Pending
  <2>. QED
    BY <1>0, <1>2, <2>1 DEF Top
<1>3. CASE RdLock(t)
  <2>1. Pending' = Pending
    BY <1>3 DEF RdLock, Pending
  <2>. QED
    BY <1>0, <1>3, <2>1 DEF RdLock
<1>4. CASE Yield(t)
  <2>1. CASE call[t] = "add"
    <3>1. Pending' = Pending
      BY <1>4, <2>1 DEF Yield, Pending
    <3>. QED
      BY <1>0, <1>4, <3>1 DEF Yield
  <2>2. CASE call[t] # "add"
    <3>1. \E l \in {"lower", "idle"} : pc' = [pc EXCEPT ![t] = l]
      BY <1>4, <2>2 DEF Yield
    <3>2. call' = call \/ call' = [call EXCEPT ![t] = NONE]
      BY <1>4, <2>2 DEF Yield
    <3>3. Pending' = Pending
      BY <2>2, <3>1, <3>2 DEF Pending
    <3>. QED
      BY <1>0, <1>4, <3>3 DEF Yield
  <2>. QED
    BY <2>1, <2>2
<1>5. CASE WrLock(t)
  <2>1. Pending' = Pending
    BY <1>5 DEF WrLock, Pending
  <2>. QED
    BY <1>0, <1>5, <2>1 DEF WrLock
<1>6. CASE set(t)
  <2>1. Pending' = Pending
    BY <1>6 DEF set, Pending
  <2>. QED
    BY <1>0, <1>6, <2>1 DEF set
<1>7. CASE add(t)
  <2>1. Pending' = Pending
    BY <1>7 DEF add, Pending
  <2>. QED
    BY <1>0, <1>7, <2>1 DEF add
<1>8. CASE Resize(t)
  <2>1. Pending' = Pending
    BY <1>8 DEF Resize, Pending
  <2>. QED
    BY <1>0, <1>8, <2>1 DEF Resize
<1>9. CASE Store(t)
  <2>1. t \in Pending /\ Pending' = Pending \ {t}
    BY <1>9 DEF Store, Pending
  <2>2. Cardinality(Pending') = Cardinality(Pending) - 1
    BY <2>1, PendingFinite, FS_RemoveElement
  <2>3. adds' = adds + 1 /\ size' = size
    BY <1>9 DEF Store
  <2>. QED
    BY <2>2, <2>3, PendingFinite, RoomType
<1>10. CASE AddSize(t)
  <2>1. Pending' = Pending
    BY <1>10 DEF AddSize, Pending
  <2>2. adds' = adds /\ size' = size + 1 /\ size < adds
    BY <1>10 DEF AddSize, Elements
  <2>. QED
    BY <2>1, <2>2, PendingFinite
<1>11. CASE Lower(t)
  <2>1. Pending' = Pending
    BY <1>11 DEF Lower, Pending
  <2>. QED
    BY <1>0, <1>11, <2>1 DEF Lower
<1>12. CASE PopSize(t)
  <2>1. Pending' = Pending
    BY <1>12 DEF PopSize, Pending
  <2>2. adds' = adds /\ size' = size - 1
    BY <1>12 DEF PopSize, Elements
  <2>. QED
    BY <1>0, <2>1, <2>2
<1>. QED
  BY <1>1, <1>2, <1>3, <1>4, <1>5, <1>6, <1>7, <1>8, <1>9, <1>10, <1>11, <1>12 DEF Step

\* Every step that does not race keeps the elements, and what adds and pops know of them.
LEMMA VectorElements ==
  ASSUME VectorOK, NEW t \in Caller, Step(t), ~raced', ~failed'
  PROVE  Elements'
<1>. USE DEF VectorOK, VectorTypeOK, Elements, array, local, Goto, Return
<1>1. CASE Call(t)
  BY <1>1 DEF Call, Places
<1>2. CASE Top(t)
  <2>1. CASE size = 0
    BY <1>2, <2>1 DEF Top
  <2>2. CASE size # 0
    BY <1>2, <2>2 DEF Top
  <2>. QED
    BY <2>1, <2>2
<1>3. CASE RdLock(t)
  BY <1>3 DEF RdLock
<1>4. CASE Yield(t)
  <2>1. CASE call[t] = "add"
    BY <1>4, <2>1 DEF Yield
  <2>2. CASE call[t] # "add" /\ call[t] = "pop" /\ index[t] < size
    BY <1>4, <2>2 DEF Yield
  <2>3. CASE call[t] # "add" /\ ~(call[t] = "pop" /\ index[t] < size)
    BY <1>4, <2>3 DEF Yield
  <2>. QED
    BY <2>1, <2>2, <2>3
<1>5. CASE WrLock(t)
  BY <1>5 DEF WrLock, Places
<1>6. CASE set(t)
  <2>1. CASE size <= index[t]
    BY <1>6, <2>1 DEF set, Places, Locked
  <2>2. CASE index[t] < size
    <3>0. index[t] \in Nat /\ size \in Nat /\ adds \in Nat /\ size <= adds
          /\ adds + Cardinality(Pending) <= Room
      BY DEF Roomy
    <3>1. index[t] + 1 \in 1 .. size /\ size <= Room
      <4>. HIDE DEF VectorOK, VectorTypeOK
      <4>. QED
        BY <2>2, <3>0, PendingFinite, RoomType
    <3>2. /\ data' = [data EXCEPT ![index[t] + 1] = 0]
          /\ stack' = [stack EXCEPT ![index[t] + 1] = 0]
          /\ UNCHANGED <<size, capacity, adds>>
      BY <1>6, <2>2 DEF set
    <3>3. size = Len(stack') /\ \A k \in 1 .. size : data'[k] = stack'[k]
      <4>1. /\ size = Len(stack) /\ stack \in Seq(Nat) /\ \A k \in 1 .. size : data[k] = stack[k]
            /\ data \in [1 .. Room -> Nat] /\ size \in Nat /\ Room \in Nat
        BY RoomType
      <4>. HIDE DEF VectorOK, VectorTypeOK, Elements
      <4>2. /\ Len(stack') = size
            /\ \A k \in 1 .. size : stack'[k] = IF k = index[t] + 1 THEN 0 ELSE stack[k]
        BY <3>1, <3>2, <4>1, WrittenSeq
      <4>3. \A k \in 1 .. size : data'[k] = IF k = index[t] + 1 THEN 0 ELSE data[k]
        BY <3>1, <3>2, <4>1
      <4>. QED
        BY <4>1, <4>2, <4>3
    <3>4. \A u \in Caller \ {t} : pc[u] # "size"
      BY <1>6 DEF set, Locked
    <3>. QED
      BY <1>6, <3>2, <3>3, <3>4 DEF set
  <2>. QED
    BY <2>1, <2>2
<1>7. CASE add(t)
  BY <1>7 DEF add, is_full, Places
<1>8. CASE Resize(t)
  BY <1>8, Grows DEF Resize, Places
<1>9. CASE Store(t)
  <2>1. t \in Pending
    BY <1>9 DEF Store, Places, Pending
  <2>2. Cardinality(Pending) # 0
    BY <2>1, PendingFinite, FS_EmptySet
  <2>3. size <= adds /\ size + 1 \in 1 .. Room
    BY <2>2, PendingFinite, RoomType DEF Roomy
  <2>4. /\ data' = [data EXCEPT ![size + 1] = adds + 1] /\ adds' = adds + 1
        /\ UNCHANGED <<size, capacity, stack>>
    BY <1>9 DEF Store
  <2>5. data'[size + 1] = adds + 1 /\ \A k \in 1 .. size : data'[k] = data[k]
    BY <2>3, <2>4
  <2>6. \A u \in Caller \ {t} : pc[u] # "size"
    BY <1>9 DEF Store, Locked
  <2>7. size < capacity
    BY <1>9 DEF Store
  <2>8. \A u \in Caller : call[u] = "pop" => u # t
    BY <1>9 DEF Store, Places
  <2>9. /\ pc' = [pc EXCEPT ![t] = "size"] /\ old' = [old EXCEPT ![t] = size]
        /\ UNCHANGED <<call, index>>
    BY <1>9 DEF Store
  <2>. QED
    BY <2>3, <2>4, <2>5, <2>6, <2>7, <2>8, <2>9
<1>10. CASE AddSize(t)
  BY <1>10 DEF AddSize, Resized, Exposed, Places, Locked
<1>11. CASE Lower(t)
  BY <1>11 DEF Lower
<1>12. CASE PopSize(t)
  BY <1>12 DEF PopSize, Resized, Exposed, Places
<1>. QED
  BY <1>1, <1>2, <1>3, <1>4, <1>5, <1>6, <1>7, <1>8, <1>9, <1>10, <1>11, <1>12 DEF Step

\* A step of a thread keeps the invariant unless it races or finds no memory.
LEMMA VectorStep ==
  ASSUME VectorOK, NEW t \in Caller, Step(t), ~raced', ~failed'
  PROVE  VectorOK'
<1>1. Pending' \in SUBSET Caller
  BY DEF Pending
<1>. QED
  BY <1>1, VectorTypes, VectorPlaces, VectorLocked, VectorRoomy, VectorElements DEF VectorOK

\* vector_multithread_destroy finds every thread without a call.
LEMMA VectorDestroy ==
  ASSUME VectorOK, vector_multithread_destroy
  PROVE  VectorOK'
<1>. USE DEF vector_multithread_destroy, array, growth, lock, local, VectorOK, VectorTypeOK
<1>1. VectorTypeOK'
  BY DEF Label
<1>2. Places'
  BY DEF Places
<1>3. Locked'
  BY DEF Locked
<1>4. Roomy'
  <2>1. Pending' = Pending
    BY DEF Pending, Places
  <2>. QED
    BY <2>1 DEF Roomy
<1>5. Elements'
  BY DEF Elements, Places
<1>. QED
  BY <1>1, <1>2, <1>3, <1>4, <1>5

\* The invariant says what the run checks.
LEMMA VectorImplies == VectorIInv => VectorInv
<1>. SUFFICES ASSUME VectorOK PROVE
    /\ size = Len(stack) /\ SubSeq(data, 1, size) = stack
    /\ size <= capacity
    /\ \A t \in Caller : pc[t] \in {"lower", "lowered"} => index[t] = size - 1
    /\ realloc_process => readers = {}
  BY DEF VectorIInv, VectorInv
<1>. USE DEF VectorOK
<1>1. size = Len(stack) /\ size <= capacity
  BY DEF Elements
<1>2. SubSeq(data, 1, size) = stack
  <2>1. size <= Room /\ data \in [1 .. Room -> Nat] /\ size \in Nat /\ stack \in Seq(Nat)
    BY PendingFinite, RoomType DEF Roomy, VectorTypeOK
  <2>2. data \in Seq(Nat) /\ Len(data) = Room
    BY <2>1, RoomType
  <2>3. SubSeq(data, 1, size) \in Seq(Nat) /\ Len(SubSeq(data, 1, size)) = size
    BY <2>1, <2>2
  <2>4. \A k \in 1 .. size : SubSeq(data, 1, size)[k] = stack[k]
    BY <2>1, <2>2 DEF Elements
  <2>. QED
    BY <1>1, <2>1, <2>3, <2>4
<1>3. \A t \in Caller : pc[t] \in {"lower", "lowered"} => index[t] = size - 1
  BY DEF Elements, Places
<1>4. realloc_process => readers = {}
  BY DEF Locked
<1>. QED
  BY <1>1, <1>2, <1>3, <1>4

\* For any number of threads, capacities and adds: until a pop overlaps another change of
\* the size, or add finds no memory, the vector of vector.c holds what the calls put
\* there within its capacity.
THEOREM VectorInvariant == Spec => []VectorInv
<1>1. Init => VectorIInv
  BY VectorInit DEF VectorIInv
<1>2. VectorIInv /\ [Next]_vars => VectorIInv'
  <2>. SUFFICES ASSUME VectorIInv, [Next]_vars, ~raced', ~failed' PROVE VectorOK'
    BY DEF VectorIInv
  <2>1. CASE Next
    BY <2>1, VectorStep, VectorDestroy DEF Next, VectorIInv
  <2>2. CASE UNCHANGED vars
    <3>1. VectorOK
      BY <2>2 DEF vars, VectorIInv
    <3>. QED
      BY <2>2, <3>1 DEF vars, VectorOK, VectorTypeOK, Places, Locked, Roomy, Pending, Elements
  <2>. QED
    BY <2>1, <2>2
<1>. QED
  BY <1>1, <1>2, VectorImplies, PTL DEF Spec

-------------------------------------------------------------------------------
\* The sum.

\* Whichever of the programs runs, each of them takes its own steps only.
LEMMA SumStep == [MCNext]_mcVars => [Next]_vars /\ [Cond!Next]_(Cond!vars) /\ [Sem!Next]_semVars
  BY DEF MCNext, mcVars, condVars, vars, semVars, Cond!vars

\* Task 13 takes the same turns with its one token, whatever main finds when it starts the
\* child.
THEOREM TokenLinesTakeTurns == MCSpec => SemTakesTurns
  <1>1. MCInit => Sem!TokenInv /\ sem_i["main"] = 0 /\ sem_i["child"] = 0
    BY InitTokenInv DEF MCInit, Sem!Init, Sem!Thread
  <1>2. Sem!TokenInv /\ [MCNext]_mcVars => Sem!TokenInv'
    BY SumStep, TokenStep
  <1>3. Sem!TokenInv /\ [MCNext]_mcVars
          => [Sem!Turns!MainPrints \/ Sem!Turns!ChildPrints]_<<sem_i["main"], sem_i["child"]>>
    BY SumStep, TokenTakesTurns
  <1>4. Sem!TokenInv' => Sem!OneToken'
    BY DEF Sem!TokenInv
  <1> QED
    BY <1>1, <1>2, <1>3, <1>4, PTL DEF MCSpec, SemTakesTurns, Sem!TakesTurns, Sem!Turns!Spec

\* What holds of problem 1 and of the vector alone holds of the sum that is model-checked.
COROLLARY SumKeeps == MCSpec => TakesTurns /\ []NoLostWakeup /\ []VectorInv
  <1>1. MCInit => Init /\ Cond!Init
    BY DEF MCInit
  <1>2. [MCNext]_mcVars => [Next]_vars /\ [Cond!Next]_(Cond!vars)
    BY SumStep
  <1>3. MCSpec => Spec /\ Cond!Spec
    BY <1>1, <1>2, PTL DEF MCSpec, Spec, Cond!Spec
  <1> QED BY <1>3, LinesTakeTurns, WakeupsAreNotLost, VectorInvariant, PTL
===============================================================================
