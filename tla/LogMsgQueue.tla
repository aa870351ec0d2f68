------------------------------ MODULE LogMsgQueue ------------------------------
(***************************************************************************)
(* The message queue of the file server's log                              *)
(* (src/net/tcp/server/fileserver/log_msg_queue.c): a doubly linked list   *)
(* guarded by a mutex and a condition variable.  Any thread pushes; the    *)
(* log writer pops.  A step is a piece of code between two points where    *)
(* another thread can interfere: the mutex, the condition variable, malloc *)
(* and free.                                                               *)
(*                                                                         *)
(* The list runs from tail (newest) to head (oldest) by next, and back by  *)
(* prev.                                                                   *)
(***************************************************************************)
EXTENDS Naturals, Sequences, FiniteSets

CONSTANTS
  Node,    \* addresses malloc can return: the bound on the nodes alive at once
  Msg,     \* contents of a message
  Pusher,  \* threads that push
  Writer,  \* the log writer thread
  NULL

ASSUME QueueAssumption ==
  /\ IsFiniteSet(Node) /\ NULL \notin Node \union Msg \union Pusher
  /\ Writer \notin Pusher \union {NULL}

VARIABLES
  head, tail, size,  \* of log_queue
  next, prev, msg,   \* fields of the nodes
  allocated,         \* nodes malloc has given out and that were not freed
  mtx,               \* owner of log_queue->mtx, or NULL
  ppc, node,         \* where each pusher is, and its local `node'
  wpc, local_msg,    \* where the writer is, and its buffer
  queue              \* "live", "destroying", "destroyed"

listVars == <<head, tail, size, next, prev, msg>>
pushVars == <<ppc, node>>
popVars  == <<wpc, local_msg>>
vars     == <<listVars, allocated, mtx, pushVars, popVars, queue>>

Link == Node \union {NULL}

TypeOK ==
  /\ head \in Link /\ tail \in Link /\ size \in Nat
  /\ next \in [Node -> Link] /\ prev \in [Node -> Link]
  /\ msg \in [Node -> Msg \union {NULL}]
  /\ allocated \in SUBSET Node
  /\ mtx \in Pusher \union {Writer, NULL}
  /\ ppc \in [Pusher -> {"idle", "lock", "add", "signal", "unlock"}]
  /\ node \in [Pusher -> Link]
  /\ wpc \in {"top", "lock", "check", "wait", "take", "unlock", "done"}
  /\ local_msg \in Msg \union {NULL}
  /\ queue \in {"live", "destroying", "destroyed"}

\* create_log_queue.
Init ==
  /\ head = NULL /\ tail = NULL /\ size = 0
  /\ next = [n \in Node |-> NULL] /\ prev = [n \in Node |-> NULL]
  /\ msg = [n \in Node |-> NULL]
  /\ allocated = {} /\ mtx = NULL
  /\ ppc = [p \in Pusher |-> "idle"] /\ node = [p \in Pusher |-> NULL]
  /\ wpc = "top" /\ local_msg = NULL /\ queue = "live"

PushGoto(p, from, to) == ppc[p] = from /\ ppc' = [ppc EXCEPT ![p] = to]
PopGoto(from, to)     == wpc = from /\ wpc' = to

-------------------------------------------------------------------------------
\* push_message.

\* new_node, before the mutex is taken; it may find no memory.
new_node(p, m) ==
  /\ queue = "live" /\ PushGoto(p, "idle", "lock")
  /\ \/ \E n \in Node \ allocated :
          /\ allocated' = allocated \union {n} /\ node' = [node EXCEPT ![p] = n]
          /\ next' = [next EXCEPT ![n] = NULL] /\ prev' = [prev EXCEPT ![n] = NULL]
          /\ msg' = [msg EXCEPT ![n] = m]
     \/ node' = [node EXCEPT ![p] = NULL] /\ UNCHANGED <<next, prev, msg, allocated>>
  /\ UNCHANGED <<head, tail, size, mtx, popVars, queue>>

PushLock(p) ==
  /\ PushGoto(p, "lock", "add") /\ mtx = NULL /\ mtx' = p
  /\ UNCHANGED <<listVars, allocated, node, popVars, queue>>

add_tail(n) ==
  IF n = NULL THEN UNCHANGED listVars
  ELSE /\ IF size = 0
          THEN head' = n /\ UNCHANGED <<next, prev>>
          ELSE /\ next' = [next EXCEPT ![n] = tail]
               /\ prev' = [prev EXCEPT ![tail] = n] /\ UNCHANGED head
       /\ tail' = n /\ size' = size + 1 /\ UNCHANGED msg

Add(p) ==
  /\ PushGoto(p, "add", "signal") /\ add_tail(node[p])
  /\ node' = [node EXCEPT ![p] = NULL]
  /\ UNCHANGED <<allocated, mtx, popVars, queue>>

\* Mutant: the condition is signalled only when the queue holds several messages.
MutantSignal(p) ==
  /\ PushGoto(p, "signal", "unlock")
  /\ wpc' = IF wpc = "wait" /\ size > 1 THEN "lock" ELSE wpc
  /\ UNCHANGED <<listVars, allocated, mtx, node, local_msg, queue>>

\* pthread_cond_signal: a writer that waits goes back for the mutex.
Signal(p) ==
  /\ PushGoto(p, "signal", "unlock")
  /\ wpc' = IF wpc = "wait" THEN "lock" ELSE wpc
  /\ UNCHANGED <<listVars, allocated, mtx, node, local_msg, queue>>

PushUnlock(p) ==
  /\ PushGoto(p, "unlock", "idle") /\ mtx' = NULL
  /\ UNCHANGED <<listVars, allocated, node, popVars, queue>>

Push(p) ==
  (\E m \in Msg : new_node(p, m)) \/ PushLock(p) \/ Add(p) \/ Signal(p) \/ PushUnlock(p)

-------------------------------------------------------------------------------
\* pop_message, called by log_writer_routine, which clears its buffer first or
\* ends when it sees the shutdown flag.

WriterTop ==
  /\ PopGoto("top", "lock") /\ local_msg' = NULL
  /\ UNCHANGED <<listVars, allocated, mtx, pushVars, queue>>

WriterStop ==
  /\ PopGoto("top", "done")
  /\ UNCHANGED <<listVars, allocated, mtx, pushVars, local_msg, queue>>

PopLock ==
  /\ PopGoto("lock", "check") /\ mtx = NULL /\ mtx' = Writer
  /\ UNCHANGED <<listVars, allocated, pushVars, local_msg, queue>>

\* while (size == 0) pthread_cond_wait(cond, mtx)
PopCheck ==
  /\ \/ size = 0 /\ PopGoto("check", "wait") /\ mtx' = NULL
     \/ size # 0 /\ PopGoto("check", "take") /\ UNCHANGED mtx
  /\ UNCHANGED <<listVars, allocated, pushVars, local_msg, queue>>

\* POSIX lets the wait return without a signal.
SpuriousWakeup ==
  /\ PopGoto("wait", "lock")
  /\ UNCHANGED <<listVars, allocated, mtx, pushVars, local_msg, queue>>

\* Mutant: the node is not freed.
MutantDeleteHead ==
  /\ IF head = tail THEN head' = NULL /\ tail' = NULL /\ UNCHANGED next
     ELSE /\ head' = prev[head] /\ next' = [next EXCEPT ![prev[head]] = NULL]
          /\ UNCHANGED tail
  /\ size' = size - 1 /\ UNCHANGED <<prev, msg, allocated>>

\* pop_message calls it with a message in the queue.
delete_head ==
  /\ IF head = tail
     THEN head' = NULL /\ tail' = NULL /\ UNCHANGED next
     ELSE /\ head' = prev[head] /\ next' = [next EXCEPT ![prev[head]] = NULL]
          /\ UNCHANGED tail
  /\ size' = size - 1 /\ allocated' = allocated \ {head}
  /\ UNCHANGED <<prev, msg>>

\* Mutant: the newest message is copied, and the oldest deleted.
MutantTake ==
  /\ PopGoto("take", "unlock") /\ local_msg' = msg[tail] /\ delete_head
  /\ UNCHANGED <<mtx, pushVars, queue>>

Take ==
  /\ PopGoto("take", "unlock") /\ local_msg' = msg[head] /\ delete_head
  /\ UNCHANGED <<mtx, pushVars, queue>>

PopUnlock ==
  /\ PopGoto("unlock", "top") /\ mtx' = NULL
  /\ UNCHANGED <<listVars, allocated, pushVars, local_msg, queue>>

Pop == WriterTop \/ PopLock \/ PopCheck \/ Take \/ PopUnlock

-------------------------------------------------------------------------------
\* destroy_log_queue.  main calls it when the writer has been joined and the
\* workers have ended, so that nobody contends for the mutex it takes.

DestroyStart ==
  /\ queue = "live" /\ wpc = "done" /\ \A p \in Pusher : ppc[p] = "idle"
  /\ queue' = "destroying"
  /\ UNCHANGED <<listVars, allocated, mtx, pushVars, popVars>>

\* Mutant: the loop stops at the last node instead of behind it.
MutantFreeNode ==
  /\ queue = "destroying" /\ tail # NULL
  /\ tail' = next[tail]
  /\ allocated' = IF next[tail] = NULL THEN allocated ELSE allocated \ {tail}
  /\ UNCHANGED <<head, size, next, prev, msg, mtx, pushVars, popVars, queue>>

\* One turn of the loop, which starts at tail and follows next; from here on tail
\* stands for the local `current'.
FreeNode ==
  /\ queue = "destroying" /\ tail # NULL
  /\ tail' = next[tail] /\ allocated' = allocated \ {tail}
  /\ UNCHANGED <<head, size, next, prev, msg, mtx, pushVars, popVars, queue>>

DestroyEnd ==
  /\ queue = "destroying" /\ tail = NULL /\ queue' = "destroyed"
  /\ UNCHANGED <<listVars, allocated, mtx, pushVars, popVars>>

destroy_log_queue == DestroyStart \/ FreeNode \/ DestroyEnd

-------------------------------------------------------------------------------

Next ==
  \/ \E p \in Pusher : Push(p)
  \/ Pop \/ SpuriousWakeup \/ WriterStop \/ destroy_log_queue

Spec == Init /\ [][Next]_vars

\* The writer keeps running; a pusher that has begun finishes; a thread that keeps
\* asking for the mutex gets it.  Nobody has to push or to stop the writer.
Fairness ==
  /\ WF_vars(Pop) /\ SF_vars(PopLock)
  /\ \A p \in Pusher :
       /\ WF_vars(Add(p) \/ Signal(p) \/ PushUnlock(p)) /\ SF_vars(PushLock(p))

-------------------------------------------------------------------------------

\* Nodes that are allocated and not yet in the list.
Held == {node[p] : p \in Pusher} \ {NULL}

\* s lists n nodes from the oldest to the newest: the next pointers from tail.
NextChain(s, n) ==
  /\ \A j, k \in 1 .. n : s[j] = s[k] => j = k
  /\ tail = IF n = 0 THEN NULL ELSE s[n]
  /\ \A k \in 1 .. n : next[s[k]] = IF k = 1 THEN NULL ELSE s[k - 1]

\* ... and back, the prev pointers from head.
PrevChain(s, n) ==
  /\ head = IF n = 0 THEN NULL ELSE s[1]
  /\ \A k \in 1 .. n : prev[s[k]] = IF k = n THEN NULL ELSE s[k + 1]

\* s lists the nodes that are in the queue.
IsList(s, n) ==
  /\ NextChain(s, n)
  /\ queue = "live" => n = size /\ PrevChain(s, n)
  /\ allocated = {s[k] : k \in 1 .. n} \union Held
  /\ \A k \in 1 .. n : s[k] \notin Held

\* The list is well formed whatever the interleaving: next and prev describe the
\* same `size' distinct nodes, and every node malloc has given out is either in
\* the list or in the hands of the one push_message that has yet to link it.  No
\* pointer leads to freed memory, and no node is lost.  While the queue is being
\* destroyed this holds of the nodes that are left.
ListInv == \E n \in 0 .. size : \E s \in [1 .. n -> Node] : IsList(s, n)

\* No two pushers have the same node in hand, and a node in hand is clean.
HeldInv ==
  \A p \in Pusher :
    /\ ppc[p] \notin {"lock", "add"} => node[p] = NULL
    /\ node[p] # NULL => /\ next[node[p]] = NULL /\ prev[node[p]] = NULL
                         /\ \A q \in Pusher \ {p} : node[q] # node[p]

\* destroy_log_queue frees every node that was still queued.
AllFreed == queue = "destroyed" => allocated = {}

\* Whoever is between the lock and the unlock of mtx owns it.
MutexHeld ==
  /\ \A p \in Pusher : ppc[p] \in {"add", "signal", "unlock"} => mtx = p
  /\ wpc \in {"check", "take", "unlock"} => mtx = Writer

\* The writer never sleeps on a queue that holds a message, unless the push that
\* put it there is about to signal.
NoLostWakeup == wpc = "wait" /\ size > 0 => \E p \in Pusher : ppc[p] = "signal"

\* The queue is a FIFO: the messages pop_message copies out come in the order of
\* the add_tail calls, each one once.
Contents ==
  IF queue # "live" THEN <<>>
  ELSE LET s == CHOOSE t \in [1 .. size -> Node] : NextChain(t, size)
       IN  [k \in 1 .. size |-> msg[s[k]]]

Fifo == INSTANCE MsgFifo WITH None <- NULL, queue <- Contents, taken <- local_msg

ImplementsFifo == Fifo!Spec

ControlInv ==
  /\ MutexHeld /\ NoLostWakeup
  /\ wpc = "take" => size # 0
  /\ queue # "live" => wpc = "done" /\ \A p \in Pusher : ppc[p] = "idle"
  /\ queue = "destroyed" => tail = NULL

\* The inductive invariant.
QueueInv == TypeOK /\ ControlInv /\ ListInv /\ HeldInv

\* A message that arrives while the writer sleeps gets it to take a message.
SleeperTakes == wpc = "wait" /\ size > 0 ~> wpc = "unlock"
===============================================================================
