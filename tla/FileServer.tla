------------------------------ MODULE FileServer ------------------------------
(***************************************************************************)
(* The TCP file server (src/net/tcp/server/fileserver/server.c): the main  *)
(* thread accepts connections and starts one detached worker thread per    *)
(* slot of the connection pool; a signal handler ends the main loop        *)
(* through a flag and a self-pipe; at the end the main thread waits until  *)
(* the pool is free, destroys it, stops the log writer thread and destroys *)
(* the log.                                                                *)
(*                                                                         *)
(* A worker is named by its slot: it holds the pool's mutex from before it *)
(* releases the slot until its last access to anything shared, so that a   *)
(* slot never has two.  The log queue appears by its length only: a push   *)
(* and a pop are one step each, as LogMsgQueue shows they may be.          *)
(***************************************************************************)
EXTENDS ConnPool

CONSTANT MaxLog  \* bound: messages in the log queue (a push past it finds no memory)

ASSUME LogAssumption == MaxLog \in Nat \ {0}

\* Owners of pool->lock other than a worker.
Main == -1
Free == -2

VARIABLES
  mainpc,         \* where the main thread is
  connection_sock,\* its local of the same name in main_loop
  offset,         \* its local of the same name in start_client_serving_routine
  pc,             \* where the worker of each slot is; "none": there is none
  conn_desc,      \* each worker's copy of its descriptor
  lock,           \* owner of pool->lock, or Free
  pool,           \* "none", "live", "destroyed"
  pending,        \* a client waits in the listen queue
  open_socks,     \* connection sockets that are open
  exit_signal,    \* the flag the handler sets
  handler,        \* "idle", or "raised": between the flag and the write to the pipe
  pipe,           \* "empty", "readable", "freed"
  log,            \* "live", "destroyed"
  log_size,       \* log_queue->size
  shutdown_flag,  \* log_desc->shutdown_flag
  logpc           \* where the log writer is; "none" before it is started

mainVars == <<mainpc, connection_sock, offset>>
workVars == <<pc, conn_desc>>
netVars  == <<pending, open_socks>>
sigVars  == <<exit_signal, handler, pipe>>
logVars  == <<log, log_size, shutdown_flag, logpc>>
vars     == <<poolVars, mainVars, workVars, netVars, sigVars, logVars, lock, pool>>

MainPC == {"start_log", "create_server", "bind_failed", "log_hello", "create_pool",
           "loop", "select", "accept", "lock", "check", "full_wait", "store", "create",
           "detach", "unlock", "drain_lock", "drain_check", "drain_wait", "destruct",
           "log_bye", "free_pipe", "set_flag", "join", "destroy_log",
           "exiting", "exit", "leaving", "hung", "failed"}
WorkerPC == {"none", "copy", "log_client", "log_service", "serve", "lock",
             "log_release", "release", "log_unlock", "unlock"}
LogPC == {"none", "test", "pop", "write", "done"}

TypeOK ==
  /\ PoolTypeOK
  /\ mainpc \in MainPC
  /\ connection_sock \in Sock \union {0}
  /\ offset \in Slots \union {NOT_OK}
  /\ pc \in [Slots -> WorkerPC]
  /\ conn_desc \in [Slots -> ConnectionDesc]
  /\ lock \in Slots \union {Main, Free}
  /\ pool \in {"none", "live", "destroyed"}
  /\ pending \in BOOLEAN /\ open_socks \in SUBSET Sock
  /\ exit_signal \in BOOLEAN
  /\ handler \in {"idle", "raised"} /\ pipe \in {"empty", "readable", "freed"}
  /\ log \in {"live", "destroyed"} /\ log_size \in 0 .. MaxLog
  /\ shutdown_flag \in BOOLEAN /\ logpc \in LogPC

Init ==
  /\ PoolInit
  /\ mainpc = "start_log" /\ connection_sock = 0 /\ offset = NOT_OK
  /\ pc = [o \in Slots |-> "none"] /\ conn_desc = [o \in Slots |-> ZeroDesc]
  /\ lock = Free /\ pool = "none"
  /\ pending = FALSE /\ open_socks = {}
  /\ exit_signal = FALSE /\ handler = "idle" /\ pipe = "empty"
  /\ log = "live" /\ log_size = 0 /\ shutdown_flag = FALSE /\ logpc = "none"

\* The process has not ended.
Alive == mainpc \notin {"exit", "failed"}

At(l)      == mainpc = l
Goto(l)    == mainpc' = l
GotoOnly(l) == Goto(l) /\ UNCHANGED <<connection_sock, offset>>

Lock(t)   == lock = Free /\ lock' = t
Unlock(t) == lock = t /\ lock' = Free

\* push_message: a message for which new_node finds no memory is dropped.
push_message ==
  /\ log = "live"
  /\ log_size' \in {log_size, log_size + 1} \intersect (0 .. MaxLog)
  /\ UNCHANGED <<log, shutdown_flag, logpc>>

-------------------------------------------------------------------------------
\* main, before main_loop.

start_log_routine ==
  /\ At("start_log")
  /\ \/ GotoOnly("create_server") /\ logpc' = "test" /\ UNCHANGED <<log, pipe>>
     \/ GotoOnly("failed") /\ log' = "destroyed" /\ pipe' = "freed" /\ UNCHANGED logpc
  /\ UNCHANGED <<poolVars, workVars, netVars, exit_signal, handler, log_size,
                 shutdown_flag, lock, pool>>

create_server ==
  /\ At("create_server")
  /\ GotoOnly("log_hello") \/ GotoOnly("bind_failed")
  /\ UNCHANGED <<poolVars, workVars, netVars, sigVars, logVars, lock, pool>>

\* The log is destroyed under its writer.  pthread_cond_destroy may wait for ever
\* for a writer that waits on the condition.
BindFailed ==
  /\ At("bind_failed")
  /\ \/ GotoOnly("leaving")
     \/ logpc = "pop" /\ log_size = 0 /\ GotoOnly("hung")
  /\ pipe' = "freed" /\ log' = "destroyed"
  /\ UNCHANGED <<poolVars, workVars, netVars, exit_signal, handler, log_size,
                 shutdown_flag, logpc, lock, pool>>

Leave ==
  /\ At("leaving") /\ GotoOnly("failed")
  /\ UNCHANGED <<poolVars, workVars, netVars, sigVars, logVars, lock, pool>>

LogHello ==
  /\ At("log_hello") /\ GotoOnly("create_pool") /\ push_message
  /\ UNCHANGED <<poolVars, workVars, netVars, sigVars, lock, pool>>

\* main does not look at what main_loop returns when the pool cannot be created.
CreatePool ==
  /\ At("create_pool")
  /\ \/ GotoOnly("loop") /\ pool' = "live"
     \/ GotoOnly("log_bye") /\ UNCHANGED pool
  /\ UNCHANGED <<poolVars, workVars, netVars, sigVars, logVars, lock>>

-------------------------------------------------------------------------------
\* main_loop.

LoopTest ==
  /\ At("loop") /\ GotoOnly(IF exit_signal THEN "drain_lock" ELSE "select")
  /\ UNCHANGED <<poolVars, workVars, netVars, sigVars, logVars, lock, pool>>

\* select returns when the pipe or the server socket is readable (a return with
\* EINTR is retried); the pipe is looked at first.
Select ==
  /\ At("select")
  /\ \/ pipe = "readable" /\ GotoOnly("drain_lock")
     \/ pipe # "readable" /\ pending /\ GotoOnly("accept")
  /\ UNCHANGED <<poolVars, workVars, netVars, sigVars, logVars, lock, pool>>

\* Mutant: a failed accept is not noticed.
MutantAccept ==
  /\ At("accept")
  /\ \/ \E s \in Sock \ open_socks :
          /\ \A t \in Sock \ open_socks : s <= t
          /\ connection_sock' = s /\ open_socks' = open_socks \union {s}
          /\ pending' = FALSE
     \/ /\ pending' = (pending /\ open_socks = Sock)
        /\ UNCHANGED <<connection_sock, open_socks>>
  /\ Goto("lock")
  /\ UNCHANGED <<offset, poolVars, workVars, sigVars, logVars, lock, pool>>

\* accept takes the lowest descriptor that is free.  It fails when there is none,
\* or when the client has gone.
Accept ==
  /\ At("accept")
  /\ \/ \E s \in Sock \ open_socks :
          /\ \A t \in Sock \ open_socks : s <= t
          /\ connection_sock' = s /\ open_socks' = open_socks \union {s}
          /\ pending' = FALSE /\ Goto("lock")
     \/ /\ pending' = (pending /\ open_socks = Sock)
        /\ Goto("loop") /\ UNCHANGED <<connection_sock, open_socks>>
  /\ UNCHANGED <<offset, poolVars, workVars, sigVars, logVars, lock, pool>>

LockPool ==
  /\ At("lock") /\ Lock(Main) /\ GotoOnly("check")
  /\ UNCHANGED <<poolVars, workVars, netVars, sigVars, logVars, pool>>

\* while (pool_is_full(pool)) pthread_cond_wait(is_free_cond, lock)
CheckFull ==
  /\ At("check")
  /\ \/ FALSE \in pool_is_full /\ GotoOnly("store") /\ UNCHANGED lock
     \/ TRUE \in pool_is_full /\ GotoOnly("full_wait") /\ Unlock(Main)
  /\ UNCHANGED <<poolVars, workVars, netVars, sigVars, logVars, pool>>

StoreConnection ==
  /\ At("store")
  /\ \E res \in Slots \union {NOT_OK} :
       /\ store_connection(connection_sock, res)
       /\ offset' = res
       /\ Goto(IF res = NOT_OK THEN "unlock" ELSE "create")
  /\ UNCHANGED <<connection_sock, workVars, netVars, sigVars, logVars, lock, pool>>

\* pthread_create starts the worker, or fails and the connection is released (the
\* broadcasts of release_connection find nobody waiting).
CreateThread ==
  /\ At("create")
  /\ \/ /\ get_tid_pos(offset) /\ pc' = [pc EXCEPT ![offset] = "copy"]
        /\ GotoOnly("detach") /\ UNCHANGED open_socks
     \/ /\ release_connection(offset)
        /\ open_socks' = open_socks \ {connections[offset].connection_sock}
        /\ GotoOnly("unlock") /\ UNCHANGED pc
  /\ UNCHANGED <<conn_desc, pending, sigVars, logVars, lock, pool>>

\* pthread_detach(*thread_id_ptr) reads the descriptor again.
DetachThread ==
  /\ At("detach") /\ GotoOnly("unlock")
  /\ UNCHANGED <<poolVars, workVars, netVars, sigVars, logVars, lock, pool>>

\* The locals are dead from here on; the model forgets them.
UnlockPool ==
  /\ At("unlock") /\ Unlock(Main) /\ Goto("loop")
  /\ connection_sock' = 0 /\ offset' = NOT_OK
  /\ UNCHANGED <<poolVars, workVars, netVars, sigVars, logVars, pool>>

-------------------------------------------------------------------------------
\* end_loop: wait_routines, destruct_conn_pool, and the rest of main.

WaitRoutinesLock ==
  /\ At("drain_lock") /\ Lock(Main) /\ GotoOnly("drain_check")
  /\ UNCHANGED <<poolVars, workVars, netVars, sigVars, logVars, pool>>

\* Mutant: the loop tests whether a slot is free rather than whether all are.
MutantWaitRoutinesCheck ==
  /\ At("drain_check") /\ Unlock(Main)
  /\ GotoOnly(IF free_space_bitmap # {} THEN "destruct" ELSE "drain_wait")
  /\ UNCHANGED <<poolVars, workVars, netVars, sigVars, logVars, pool>>

\* while (!pool_is_free(pool)) pthread_cond_wait(cond, lock); then unlock
WaitRoutinesCheck ==
  /\ At("drain_check") /\ Unlock(Main)
  /\ GotoOnly(IF pool_is_free THEN "destruct" ELSE "drain_wait")
  /\ UNCHANGED <<poolVars, workVars, netVars, sigVars, logVars, pool>>

destruct_conn_pool ==
  /\ At("destruct") /\ GotoOnly("log_bye") /\ pool' = "destroyed"
  /\ UNCHANGED <<poolVars, workVars, netVars, sigVars, logVars, lock>>

LogBye ==
  /\ At("log_bye") /\ GotoOnly("free_pipe") /\ push_message
  /\ UNCHANGED <<poolVars, workVars, netVars, sigVars, lock, pool>>

free_pipe ==
  /\ At("free_pipe") /\ GotoOnly("set_flag") /\ pipe' = "freed"
  /\ UNCHANGED <<poolVars, workVars, netVars, exit_signal, handler, logVars, lock, pool>>

SetShutdownFlag ==
  /\ At("set_flag") /\ GotoOnly("join") /\ shutdown_flag' = TRUE
  /\ UNCHANGED <<poolVars, workVars, netVars, sigVars, log, log_size, logpc, lock, pool>>

\* Mutant: the log writer is not joined.
MutantJoinLog ==
  /\ At("join") /\ GotoOnly("destroy_log")
  /\ UNCHANGED <<poolVars, workVars, netVars, sigVars, logVars, lock, pool>>

JoinLog ==
  /\ At("join") /\ logpc = "done" /\ GotoOnly("destroy_log")
  /\ UNCHANGED <<poolVars, workVars, netVars, sigVars, logVars, lock, pool>>

destroy_log ==
  /\ At("destroy_log") /\ GotoOnly("exiting") /\ log' = "destroyed"
  /\ UNCHANGED <<poolVars, workVars, netVars, sigVars, log_size, shutdown_flag, logpc,
                 lock, pool>>

\* exit ends the process with whatever threads it still has.
Exit ==
  /\ At("exiting") /\ GotoOnly("exit")
  /\ UNCHANGED <<poolVars, workVars, netVars, sigVars, logVars, lock, pool>>

-------------------------------------------------------------------------------
\* client_serving, the worker of slot o.

WorkerGoto(o, from, to) == pc[o] = from /\ pc' = [pc EXCEPT ![o] = to]

\* The descriptor is copied without the lock.
CopyDesc(o) ==
  /\ WorkerGoto(o, "copy", "log_client")
  /\ conn_desc' = [conn_desc EXCEPT ![o] = connections[o]]
  /\ UNCHANGED <<poolVars, mainVars, netVars, sigVars, logVars, lock, pool>>

WorkerLog(o) ==
  /\ \/ WorkerGoto(o, "log_client", "log_service")
     \/ WorkerGoto(o, "log_service", "serve")
     \/ WorkerGoto(o, "log_release", "release")
     \/ WorkerGoto(o, "log_unlock", "unlock")
  /\ push_message
  /\ UNCHANGED <<poolVars, mainVars, conn_desc, netVars, sigVars, lock, pool>>

\* serve_connection talks to the client and leaves the shared state alone, but it
\* may end the process: send_file closes a file it could not open, and sends the
\* size without MSG_NOSIGNAL.
serve_connection(o) ==
  /\ WorkerGoto(o, "serve", "lock")
  /\ UNCHANGED mainVars \/ GotoOnly("failed")
  /\ UNCHANGED <<poolVars, conn_desc, netVars, sigVars, logVars, lock, pool>>

\* Mutant: the worker does not wait for the mutex.
MutantWorkerLock(o) ==
  /\ WorkerGoto(o, "lock", "log_release") /\ UNCHANGED lock
  /\ UNCHANGED <<poolVars, mainVars, conn_desc, netVars, sigVars, logVars, pool>>

WorkerLock(o) ==
  /\ WorkerGoto(o, "lock", "log_release") /\ Lock(o)
  /\ UNCHANGED <<poolVars, mainVars, conn_desc, netVars, sigVars, logVars, pool>>

\* Mutant: both conditions are signalled only when the pool has become free.
MutantBroadcast ==
  GotoOnly(IF ~pool_is_free' THEN mainpc
           ELSE IF At("drain_wait") THEN "drain_lock"
           ELSE IF At("full_wait") THEN "lock" ELSE mainpc)

\* What the broadcasts of release_connection do to the main thread: cond if the
\* pool has become free, is_free_cond always.  Nobody else waits on either.
Broadcast ==
  GotoOnly(IF At("drain_wait") /\ pool_is_free' THEN "drain_lock"
           ELSE IF At("full_wait") THEN "lock" ELSE mainpc)

\* Mutant: the socket is not closed.
MutantWorkerRelease(o) ==
  /\ WorkerGoto(o, "release", "log_unlock")
  /\ release_connection(conn_desc[o].offset)
  /\ Broadcast
  /\ UNCHANGED <<open_socks, conn_desc, pending, sigVars, logVars, lock, pool>>

\* release_connection is given the offset in the worker's copy.
WorkerRelease(o) ==
  LET off == conn_desc[o].offset
  IN  /\ WorkerGoto(o, "release", "log_unlock")
      /\ release_connection(off)
      /\ open_socks' = open_socks \ {connections[off].connection_sock}
      /\ Broadcast
      /\ UNCHANGED <<conn_desc, pending, sigVars, logVars, lock, pool>>

WorkerUnlock(o) ==
  /\ WorkerGoto(o, "unlock", "none") /\ Unlock(o)
  /\ conn_desc' = [conn_desc EXCEPT ![o] = ZeroDesc]
  /\ UNCHANGED <<poolVars, mainVars, netVars, sigVars, logVars, pool>>

Worker(o) ==
  \/ CopyDesc(o) \/ WorkerLog(o) \/ serve_connection(o)
  \/ WorkerLock(o) \/ WorkerRelease(o) \/ WorkerUnlock(o)

-------------------------------------------------------------------------------
\* log_writer_routine.  Once the log is destroyed its steps are undefined.

LogTest ==
  /\ logpc = "test" /\ logpc' = IF shutdown_flag THEN "done" ELSE "pop"
  /\ UNCHANGED <<log, log_size, shutdown_flag>>

\* pop_message waits while the queue is empty.
pop_message ==
  /\ logpc = "pop" /\ log_size > 0
  /\ logpc' = "write" /\ log_size' = log_size - 1
  /\ UNCHANGED <<log, shutdown_flag>>

write_to_logfile ==
  /\ logpc = "write" /\ logpc' = "test"
  /\ UNCHANGED <<log, log_size, shutdown_flag>>

log_writer_routine ==
  /\ log = "live"
  /\ LogTest \/ pop_message \/ write_to_logfile
  /\ UNCHANGED <<poolVars, mainVars, workVars, netVars, sigVars, lock, pool>>

-------------------------------------------------------------------------------
\* signal_handler, which may run on any thread, and the world outside.

SignalFlag ==
  /\ handler = "idle" /\ handler' = "raised" /\ exit_signal' = TRUE
  /\ UNCHANGED <<poolVars, mainVars, workVars, netVars, pipe, logVars, lock, pool>>

\* Mutant: only the flag is raised.
MutantSignalWrite ==
  /\ handler = "raised" /\ handler' = "idle"
  /\ UNCHANGED <<poolVars, mainVars, workVars, netVars, exit_signal, pipe, logVars,
                 lock, pool>>

\* Once the pipe is freed the write goes to whatever the freed memory holds: it
\* may do nothing that matters here, or fail and end the process.
SignalWrite ==
  /\ handler = "raised" /\ handler' = "idle"
  /\ \/ /\ pipe' = IF pipe = "freed" THEN "freed" ELSE "readable"
        /\ UNCHANGED mainVars
     \/ /\ pipe = "freed" /\ UNCHANGED pipe /\ GotoOnly("failed")
  /\ UNCHANGED <<poolVars, workVars, netVars, exit_signal, logVars, lock, pool>>

\* A client connects; it may do so before the server listens.
Connect ==
  /\ ~pending /\ pending' = TRUE
  /\ UNCHANGED <<poolVars, mainVars, workVars, open_socks, sigVars, logVars, lock, pool>>

\* POSIX lets pthread_cond_wait return without a broadcast.
SpuriousWakeup ==
  /\ \/ At("full_wait") /\ GotoOnly("lock")
     \/ At("drain_wait") /\ GotoOnly("drain_lock")
  /\ UNCHANGED <<poolVars, workVars, netVars, sigVars, logVars, lock, pool>>

-------------------------------------------------------------------------------

MainStep ==
  \/ start_log_routine \/ create_server \/ BindFailed \/ Leave \/ LogHello \/ CreatePool
  \/ LoopTest \/ Select \/ Accept \/ LockPool \/ CheckFull \/ StoreConnection
  \/ CreateThread \/ DetachThread \/ UnlockPool
  \/ WaitRoutinesLock \/ WaitRoutinesCheck \/ destruct_conn_pool
  \/ LogBye \/ free_pipe \/ SetShutdownFlag \/ JoinLog \/ destroy_log \/ Exit

Next ==
  /\ Alive
  /\ \/ MainStep \/ log_writer_routine
     \/ \E o \in Slots : Worker(o)
     \/ SignalFlag \/ SignalWrite \/ Connect \/ SpuriousWakeup

Spec == Init /\ [][Next]_vars

\* A thread that can take a step eventually takes it; a client that is served
\* eventually answers or goes away.  A worker that keeps asking for the mutex
\* gets it, however often the main thread wakes up without reason and takes it
\* again.  No fairness for signals, new clients and spurious wakeups.
FairSpec ==
  /\ Spec
  /\ WF_vars(Alive /\ MainStep)
  /\ WF_vars(Alive /\ log_writer_routine)
  /\ WF_vars(Alive /\ SignalWrite)
  /\ \A o \in Slots : WF_vars(Alive /\ Worker(o)) /\ SF_vars(Alive /\ WorkerLock(o))

-------------------------------------------------------------------------------

\* A worker between its copy of the descriptor and its release of the slot, and
\* one that has yet to release its slot.
Serving(o) == pc[o] \in WorkerPC \ {"none", "copy", "log_unlock", "unlock"}
Live(o)    == pc[o] \in WorkerPC \ {"none", "log_unlock", "unlock"}

\* The threads use the pool as it may be used: they release only slots in use and
\* never one twice (client_serving releases conn_desc.offset, read without the
\* mutex; start_client_serving_routine releases when no thread was created).
UsesPool == PoolSpec

\* A worker serves the connection its slot still records, under a thread id that
\* was written before it was read, on an open socket no other worker has: the
\* copy client_serving takes without the mutex is neither early nor stale.
CopyIsCurrent ==
  \A o \in Slots : Serving(o) =>
    /\ conn_desc[o] = connections[o] /\ connections[o].offset = o
    /\ connections[o].thread_id = "valid"
    /\ connections[o].connection_sock \in open_socks
    /\ \A q \in Slots \ {o} :
         connections[q].connection_sock # connections[o].connection_sock

\* pthread_detach reads the descriptor again after the worker was started: the
\* worker cannot have finished and zeroed it, since the mutex is held.
DetachReadsTid == At("detach") => connections[offset].thread_id = "valid"

\* Whoever is inside a critical section of pool->lock owns it.
MutexHeld ==
  /\ mainpc \in {"check", "store", "create", "detach", "unlock", "drain_check"} => lock = Main
  /\ \A o \in Slots :
       pc[o] \in {"log_release", "release", "log_unlock", "unlock"} => lock = o

\* When destruct_conn_pool has freed the pool, every bit of the word was 1 and no
\* worker is left that would touch the pool, its mutex or main_loop's args array.
SafeDestruct == pool = "destroyed" => pool_is_free /\ \A o \in Slots : pc[o] = "none"

\* The log is destroyed when its writer has ended and no worker can push, except
\* on the path where create_server failed, where the writer may be inside it.
LogOutlivesUsers ==
  log = "destroyed" /\ Alive =>
    \/ mainpc \in {"leaving", "hung"}
    \/ logpc = "done" /\ \A o \in Slots : pc[o] = "none"

Leaked == ~(Overflow \subseteq free_space_bitmap)

\* The socket main_loop has accepted and not yet passed on.
Holding == {"lock", "check", "full_wait", "store"}
InHand  == IF mainpc \in Holding THEN {connection_sock} ELSE {}

Recorded == {connections[o].connection_sock : o \in Slots} \ {0}

\* Every open socket is in main_loop's hand or recorded in a slot, whose worker
\* will close it, unless a store_connection was refused: main_loop forgets the
\* socket then, and that happens exactly when a bit past the table has been lost.
OrphansMeanLeak ==
  Alive => ((open_socks \ (InHand \union Recorded) # {}) <=> Leaked)

\* The main thread never sleeps on a condition that is already true: when it waits
\* for a slot, each slot has a worker that has yet to release it and broadcast;
\* when it waits for the end of the workers the pool is not free.
NoLostWakeup ==
  /\ At("full_wait") =>
       \A o \in Slots : o \notin free_space_bitmap /\ Live(o)
  /\ At("drain_wait") =>
       Leaked \/ \E o \in Slots : Live(o)

-------------------------------------------------------------------------------

\* The inductive invariant behind the invariants above.

\* The main thread, by phase: before there is a pool, while it uses the pool, and
\* once wait_routines has returned.
Starting == {"start_log", "create_server", "bind_failed", "log_hello", "create_pool"}
Looping  == {"loop", "select", "accept", "lock", "check", "full_wait", "store", "create",
             "detach", "unlock", "drain_lock", "drain_check", "drain_wait"}
Drained  == {"destruct", "log_bye", "free_pipe", "set_flag", "join", "destroy_log",
             "exiting", "exit"}

PhaseInv ==
  /\ mainpc \in Starting => pool = "none"
  /\ mainpc \in Looping => pool = "live"
  /\ pool # "live" \/ mainpc \in Drained => pool_is_free /\ \A o \in Slots : pc[o] = "none"
  /\ At("full_wait") => free_space_bitmap \intersect Slots = {}
  /\ At("drain_wait") => ~pool_is_free

\* Slots and workers: a slot in use has a worker, or is about to get one.
ThreadInv ==
  /\ \A o \in Slots : Live(o) => InUse(o) /\ connections[o].thread_id = "valid"
  /\ \A o \in Slots : Serving(o) => conn_desc[o] = connections[o]
  /\ \A o \in Slots : Alive /\ InUse(o) => Live(o) \/ (At("create") /\ offset = o)
  /\ At("create") => offset \in Slots /\ InUse(offset) /\ pc[offset] = "none"
  /\ At("detach") => offset \in Slots /\ Live(offset)

\* Sockets: no two slots record the same one, and none records the one in hand.
SocketInv ==
  /\ Recorded \subseteq open_socks
  /\ \A o, q \in Slots : InUse(o) /\ o # q =>
       connections[o].connection_sock # connections[q].connection_sock
  /\ mainpc \in Holding => connection_sock \in open_socks \ Recorded
  /\ OrphansMeanLeak

LogInv ==
  /\ mainpc \in {"destroy_log", "exiting"} => logpc = "done"
  /\ log = "destroyed" => mainpc \in {"leaving", "hung", "exiting", "exit", "failed"}

ServerInv ==
  TypeOK /\ PoolInv /\ MutexHeld /\ PhaseInv /\ ThreadInv /\ SocketInv /\ LogInv

-------------------------------------------------------------------------------

\* A connection that was accepted is given to a worker or given up: main_loop
\* does not wait for ever in pool_is_full or for the mutex.
AcceptedIsSettled == At("lock") ~> At("loop") \/ ~Alive

\* What a signal leads to.  The process ends, unless wait_routines waits for a
\* bit that no release can bring back, or the join waits for a log writer that
\* went to sleep on the empty queue before it could see shutdown_flag, or
\* destroy_log waits for the writer on the create_server failure path.
ShutdownOutcome ==
  exit_signal ~> [](\/ ~Alive \/ At("hung")
                    \/ Leaked /\ mainpc \in {"drain_lock", "drain_check", "drain_wait"}
                    \/ At("join") /\ logpc = "pop" /\ log_size = 0)
===============================================================================
