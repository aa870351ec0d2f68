# A TLA+ verification of linux-programing-workouts

The repository is a collection of system programs: a TCP file server with its
client, solutions of pthreads problems, memory managers, containers, programs
around Go channels, and small algorithms. Each program that has state worth
checking has a module here. Paths below are relative to the repository's `src`.

`PROJECT.json` lists every part with its sources, the hazards with the line where
each bites, and for each definition the lines it models.

## Inventory

| part | where | module |
|---|---|---|
| file server: connection pool | `net/tcp/server/fileserver/conn_pool.c` | `ConnPool`, `SlotAllocator` |
| file server: threads, life cycle | `fileserver/server.c` | `FileServer` |
| file server: log queue, log | `fileserver/log_msg_queue.c`, `log.c` | `LogMsgQueue`, `MsgFifo`, `FileServer`, `LogArchive` |
| file server: transfer; Go client | `fileserver/net.c`, `net/tcp/client` | `FileTransfer` |
| file server: file helpers | `fileserver/filesystem.c` | `LogArchive`, `FileTransfer` |
| UDP pair | `net/udp` | `UdpLog` |
| problem 1, task 13 | `pthreads-problems/problem-1` | `CondTurns`, `SemTurns`, `LineTurns` |
| problem 3, four programs | `pthreads-problems/problem-3` | `ListNodes`; `SortedList`, `CondSortedList`, `RwSortedList`, `NodeLockedList` |
| problems 4, 5, 7 | `pthreads-problems/problem-4`, `-5`, `-7` | `FileThreads`, `Widgets`, `Store` |
| spinlock, barrier, semaphore | `c++/synchronization-primitive` | `Primitives` |
| shared pointer, LRU cache | `c++/shared_ptr.cpp`, `c++/LRUCache` | `SharedPtr`, `LRUCache` |
| allocator, slab cache | `mem` | `Allocator`, `SlabCache` |
| vector | `utils/collections/vector` | `Vector` |
| graph programs | `c++/dijkstra.cpp`, `c++/map-reduce`, `utils/math/graphs` | `Dijkstra`, `BfsMapReduce`, `Triangles`, `EulerianCycle` |
| Go channels | `golang/channels`, `golang/fanIn-fanOut` | `SimpleMerge`, `UrlValidator` |
| kafka service | `golang/kafka` | `KafkaConsumer`, `KafkaProducer` |
| my_cp | `file-system/my-cp` | `MyCp` |

The rest is listed under "Not modelled".

`SlotAllocator`, `MsgFifo` and `LineTurns` are abstract specifications that the
detailed modules are shown to implement. `*Proofs` modules hold theorems; those on
the programs of problem 1 and the vector, on the workers, on the log's queue and on
`SharedPtr` stand at the end of `MCThreads`, `MCWorkers` and `MCMemory`. The programs have nothing to do with each
other, so several are checked in one run: an `MC*` module (`MCThreads`,
`MCSortedLists`, `MCWorkers`, `MCMemory`, `MCData`, `MCChannels`, `MCTransfer`) is the sum of
modules. The variable `program` chooses one of them at the start, the variables of
the others keep their first value, and a property of the run says for each program
what its own module states.

## Conventions

A variable (`pc`, `mainpc`...) holds the place of each thread, and an action is a
stretch of code between two points where another thread can interfere. A mutex is a
variable naming its owner. Undefined behaviour is a choice over its outcomes. Where
a program can come to a state about which nothing can be said any more (memory
used after it was deleted, a data race that overwrote a pointer), the module
records it in a history variable and stops; the properties say what holds up to
that point and exactly what leads to it.

Many properties have the form "this holds, unless X": X is then what the code does
not handle, stated as narrowly as the runs allow.

## The file server

`main` starts the log writer thread, binds the socket and enters `main_loop`,
which creates the pool and loops: test `exit_signal`, `select` on the self-pipe
and the server socket, `accept`, then under the pool's mutex wait while the pool
is full, store the connection in a slot and start a detached worker for it. A
worker copies its descriptor (without the mutex), serves the client, takes the
mutex, releases its slot and ends. A signal sets `exit_signal` and writes to the
pipe. `main_loop` then waits until the pool is free and destroys it; `main`
frees the pipe, sets `shutdown_flag`, joins the log writer and destroys the log.

* **`ConnPool`**: `conn_pool.c`. `free_space_bitmap` is the set of 1 bits of the
  word. `Mask` keeps the int arithmetic of `1 << o`; `builtin_ctz` sees the low
  half and is arbitrary on 0; `pool_is_full` returns a set of values, since it
  compares with an uninitialised word. Each operation is one step, because its
  callers hold the mutex. **`SlotAllocator`** is what a pool promises: a slot is
  granted to one client and kept until released.
* **`FileServer`** extends `ConnPool` with the threads: `mainpc`, `pc[o]` for the
  worker of slot `o`, `logpc`, `handler`. The log queue appears by its length.
* **`LogMsgQueue`**: the linked list, with nodes, pointers, allocation and the
  condition variable. **`MsgFifo`** is what it promises, and why `FileServer` may
  treat a push and a pop as one step.
* **`FileTransfer`**: `send_file` of a server thread against `GetFile` of a client's
  goroutine, one pair for each file of the command line, the choice of the
  destination's name, and the goroutine that draws the progress, at whose unbuffered
  channel all others wait. A stream is a sequence of lines and bytes that may break;
  up to `MaxFaults` times a call fails, on the net, on either disk or in the server, whose
  pool may refuse a connection and whose `pthread_create` may fail. When the pool
  refuses is in `FileServer` (`OrphansMeanLeak`).
* **`LogArchive`**: `create_log`, before the server starts: `arch_logs` copies the old logs
  to a directory and deletes them, one byte at a time through a page-sized buffer; then
  a new log is opened. Every call may fail, `opendir`, `readdir` and `fwrite` included,
  and nobody looks.

Choices:

* `main` passes 16 slots. `Size` is any number below `IntBits` (the assumption
  `PoolAssumption`): from 32 slots on the bitmap code is wrong, and nothing in
  the program uses it so.
* `pthread_create` stores the thread id before the new thread runs. POSIX does
  not promise it; glibc does it, and `server.c:69` (`thread_id + 720`) works
  with glibc only.
* A worker is named by its slot. It keeps the mutex from its release to the end,
  so the slot cannot be given to a second worker before the first has ended.
* In `FileServer`, `serve_connection` may end the process (a file that cannot be opened
  is closed; a send to a closed socket raises SIGPIPE). Nothing else in it is shared;
  what it says to the client is in `FileTransfer`.
* After `free_pipe` the handler writes to freed memory: the step does nothing or
  ends the process.
* Some lines do not compile as they stand (`log.c:87`, `net.c:216`) and are read
  by their evident intention. `get_file` cannot be reached.
* `FileServer` begins after `init_pipe` and `create_log`; a signal between the
  installation of the handler and `init_pipe` is therefore outside the model. Failure
  of `fopen` and of `malloc` in the log writer is not modelled; failure of `malloc` in
  `new_node` is.

`ShutdownOutcome` is the strongest statement about shutdown that holds: after a signal
the process ends, or it hangs in one of three ways. `wait_routines` waits for a bit
that a refused `store_connection` has cleared for good; the join waits for a log
writer asleep on its empty queue, which nobody signals; or `destroy_log` on the
`create_server` failure path waits for that writer. `OrphansMeanLeak` says that
the first way goes with a socket nobody closes.

`FileTransfer!DownloadsKept` says what a download is worth: a file that a routine has
to itself is a prefix of the server's, and is whole when it was counted as done, unless
the server died or could not read on, or the client could not write
(`network.go:81`); the client receives the size and does not use it.
`OldFilesKept` and the premise `Alone` name the two ways to overwrite: numbers with a
gap, and two downloads of one name. `Casualties` says what a fault can end: the
server, on a file it cannot open or a connection broken before the size; the client, in
a panic after its last download.
`TransferEnds` names what keeps the client for ever: a refused connection, whose socket
the server neither serves nor closes, and on which `GetFile` waits for an answer
(`Stranded`). One that gets no thread is closed, and the client goes on.
`LogArchive!ArchiveKept` names the byte too many in a copy and the log that is deleted
although its copy failed; a log that `readdir` never returned stays where it is.

## Threads

* **`CondTurns`** (`problem-1/solution.c`) and **`SemTurns`** (`task-13`): main and
  its child print lines in turns; both are shown to implement **`LineTurns`**. The
  two loops have the same shape, so one set of actions with the thread as a
  parameter models both. Failures before the loops end the process; task 13
  does not look at `pthread_create`, and `Finishes` says what that leads to.
* **Problem 3** is one list under four locking schemes. **`ListNodes`** has what they
  share: nodes with `next`, `prev` and `line`, `swap` (what its assignments come to when
  `r` follows `l`), the passes of the bubble sort one comparison at a time. Lines are numbers in the order of `strcmp`; 0 is a line that
  `cpy_str` could not copy. **`SortedList`** (one mutex): the look for two nodes without
  the mutex is one step, since `add_to_head` stores the head last and half of it shows
  the old list. **`CondSortedList`**: a condition variable, and a sorter that is never
  joined, under which main frees the list. **`RwSortedList`**: the sorter takes the lock
  for a swap only, so every access outside it is a step of its own; an `add_to_head` that
  overlaps a move of the head loses a line (`raced`). **`NodeLockedList`**: a
  mutex in every node; `swap` locks two that its caller holds, so that no line is ever
  moved and main waits for the sorter for ever.
* **`FileThreads`** (`problem-4`): the two loops that create threads, with
  every failure they skip over, then joins and clean-up. Joining an id that was never
  set returns or crashes; `free` of an address that is not from `malloc` aborts or goes on.
* **`Widgets`** (`problem-5`): four counting semaphores, five threads, and main, which
  creates and joins them in one order and destroys the semaphores. `SemMax` stands for
  `SEM_VALUE_MAX`, past which `sem_post` fails. main only reports a `pthread_create` that
  fails; the join of an id that was never set returns or crashes.
* **`Store`** (`problem-7`): setter and getter of a bounded store. All values are 2,
  so the list appears by its size. The model begins when both threads exist; a
  failure before that ends the process.
* **`Primitives`** (`c++/synchronization-primitive`): a set of threads at a spinlock, a
  barrier and a semaphore, with spurious wakeups. The flag of the spinlock is not
  initialised before C++20, so it may start out set; then nobody gets it.

What a signal or the end of the input leads to is stated as the strongest property that
holds: in `Store`, `Widgets` and `SortedList` a thread that waits for something nobody
will provide any more never ends, and `ExitOutcome` says exactly when.

Two runs show where problem 4 departs from its comment "Wait for all threads to
complete" (`solution.c:226`). `file_threads_abort`: `res` is the address of the local
`status`, so `free(res)` ends the process after the first join, with threads still
running. `file_threads_live`: all readers wait on one condition variable for
different flags, and a writer's `pthread_cond_signal` may wake the reader of
another file; the right one sleeps for ever and its join never returns.
(To get there `free(res)` must have gone on, which depends on what lies on the stack.)

## Memory, containers and graphs

* **`SharedPtr`**: places for pointers, objects, counters; every constructor,
  assignment, `reset` and destructor in any order.
* **`Allocator`**: the arena as an array of words, with headers and border markers.
  `find_chunk` does not ask whether a chunk is free; when one in use is cut, the model
  stops (`shared`), and `CutOnlyLarge` says when that can happen. Requests are whole
  words, as in the program's `main`; with other sizes the right marker (`alloc.c:26`)
  lies inside the block, and `setzero`'s masks (`alloc_utils.c:166`) matter.
* **`SlabCache`**: three lists of slabs and the chain of free blocks in each. Page and
  header sizes are constants, so that a small page gives small slabs. `alloc_slab`
  allocates `PAGE_SIZE * order` bytes where a slab has `PAGE_SIZE * 2^order` (`slab.c:6`), so
  a slab runs past its memory exactly if it has blocks (`Overruns`, in `Geometry`). While
  it is the only one, what it writes to is free memory of the C library, which then
  goes on or ends the program in a later call (`AllocFails`, `FreeAborts`); a second slab
  would lie in the first, and the model stops (`overlap`). What `CacheInv` says of the
  blocks is therefore about the first slab of a cache; caches whose objects are too large
  for any slab have several, all empty.
* **`Vector`**: threads that call the `multithread` variants, and the destruction when no
  call is left. A pop that overlaps another
  change of the size (`raced`) and an `add` without memory (`failed`) end the model.
* **`LRUCache`**: nodes, the map, every pointer that `get`, `set` and `moveToHead`
  write. The list is right as long as no hit is on its first or last node; after such a
  hit a deleted node is used sooner or later, and the model stops there (`corrupt`).
* **`Dijkstra`**, **`BfsMapReduce`**, **`Triangles`**, **`EulerianCycle`** start with
  every graph of their size (`Dijkstra` reads it edge by edge, a later one over an earlier), and each ends in a comparison with the definition of
  what it computes: simple paths, vertices within k edges, sets of three, closed walks.
  The exceptions named are the `INT_MAX` of a vertex not reached in `Dijkstra`
  (arithmetic is modulo the width), and the vertices that `EulerianCycle` prints
  after it has returned to one that was not printed last.

## Channels, kafka and files

* **`SimpleMerge`**, **`UrlValidator`**: goroutines as places, channels as sequences with
  a flag for closed; an unbuffered send and its receive are one step. In the second a
  worker may take the late answer to an earlier url once the deadline is over.
* **`KafkaConsumer`**, **`KafkaProducer`**: the programs; the broker, the database and the
  HTTP server are external and appear as choices. `EventsKept` and `AnsweredIsSent`
  account for every event, the ones lost included. An event that reaches the database may
  still be lost unseen: the error of `tx.Commit` is dropped (`database.go:108`), and the
  test at line 94 is the wrong way round, so that a button without a row gets an `UPDATE`.
  A producer that cannot reach its broker goes on with a nil pointer and panics.
* **`MyCp`**: paths are sequences of names, a file system is a function from paths to
  contents. `CopyOf` says what a copy looks like: the last block is written whole, and
  an old file that is longer keeps its end. A read, a write or a `ReadDir` may fail at any
  time, wholly or after a part; what it was for is in `skipped`, which nobody is told. A
  directory copied into its own subtree finds its copy there and copies that too: the
  program ends because a path has a longest length (`MaxPath`, for `PATH_MAX`).
* **`UdpLog`**: the loopback loses datagrams when it is full and keeps the others in
  order. `recvfrom` reads `len` before anything has set it: a negative value makes it
  fail for ever, a short one cuts the address of the answer. The server may fail to start,
  and the clients then speak to nobody. It answers a line whose write to the log has
  failed (`unlogged`) like any other.

## Runs

| run | bounds | what it shows |
|---|---|---|
| `conn_pool` | 3 slots, 5-bit int, 8-bit word, 2 sockets | bitmap and table agree; `__builtin_ctz` defined; lost bits stay lost; implements `SlotAllocator` |
| `file_server` | 2 slots, 3 sockets, log queue of 1 | safety of all interleavings |
| `file_server_live` | 1 slot, 3 sockets, log queue of 2 | an accepted connection is settled; what shutdown leads to |
| `memory` | 2 pushers, 3 nodes, 2 messages; 3 pointers, objects and counters | list shape, FIFO, no lost wakeup, all freed; a sleeping writer takes a message; owners are counted |
| `threads` | the programs' 10 lines; 2 threads, capacities 0 and 1 and 3 adds at the vector | turns with a condition variable and with one token in two semaphores; no lost wakeup; the end, or a missing child; the vector keeps its elements |
| `sorted_lists` | 4 nodes, 2 lines and NULL | for each of the four locking schemes: the chain, the order after a sort, what is freed, what the end of the input leads to |
| `workers` | store of 3; semaphores up to 2; 2 files; 3 threads, a barrier and a semaphore of 2 | bounds, no lost wakeup, nobody goes on too early, nobody stays asleep; what a signal leads to |
| `file_threads_abort` | 2 files | violation: the process ends before its threads |
| `file_threads_live` | 2 files | violation: the wait does not end |
| `data` | see below | blocks neither lost nor handed out twice, the graph programs are right, with the exceptions named |
| `channels` | 5 strings; 4 urls and 4 workers; 3 messages, 4 stores; 3 requests, 2 errors | nothing is lost, duplicated or sent after a close, with the exceptions named; the programs end, but for a consumer whose messages were closed and a producer that serves on |
| `transfer` | 2 downloads, pages of 2, 1 fault; 2 logs, a buffer of 3; 7 files and directories, blocks of 2, paths of 7 names; 2 clients, 2 lines | what arrives is what was sent, with the exceptions named; the programs end whatever fails, but for a client on a dropped connection |

The bounds of `data`: 3 slabs on pages of 8 bytes,
objects of 1 to 40 bytes; an arena of 50 bytes, requests of 2, 6 and 14 bytes with words of 2;
4 keys and 5 sets at caches of
0 and 3; all weighted graphs of 3 vertices with weights 0, 1, 3 and `INT_MAX` 7; 3
vertices and 3 rounds of map-reduce; all graphs of 5 vertices for triangles; all
multigraphs of 3 vertices and 5 edges for cycles.

Why these are enough to be interesting: an int wider than the table by two bits has
an ordinary overflow bit and the sign bit; a word wider than the int shows the sign
extension. Two slots and three sockets allow two workers at once, a full pool
and a refused store. With one slot the pool is full at every second client. Two
pushers contend, and three nodes give the list a middle. Four nodes make the sort
take several passes, and a sort that compares neighbours is tried by two different
lines. Two files are the least where a signal can wake the wrong
reader. Semaphores up to 2 are full while others are empty. A barrier for 2 of 3
threads has one that comes late. Objects of 1 to 40 bytes need slabs of
every order, and one too many. A cache of 3 has a node in the middle. In a multigraph of 3
vertices and 5 edges a walk can return and go on. The files to copy
end before, at and after a full buffer. Paths of 7 names leave room for two copies of a
tree in itself. One fault at a time shows each exception of a download by itself.
The runs switch off the deadlock check where the process ends or may wait for ever; what
they may wait for is then said by a liveness property.

**Fairness.** Threads are scheduled: weak fairness for the main thread, the
log writer, each worker, and the rest of a signal handler that has begun. The mutex
is granted to a worker that keeps asking (strong fairness on the lock), since
otherwise spurious wakeups of the main thread could starve it. A client that is
served eventually answers or goes away. Signals, new clients and spurious wakeups
get none. The pthreads problems assume the same: weak fairness for each thread and
strong fairness on its lock. The sorters of problem 3 do not wait for input, main
does; nothing is asked of the sorter that is never joined, nor of who gets the mutex of a
node. In `Store` the setter's `malloc` succeeds now and then; without it there
would be nothing to get. In `Primitives` a thread that is awake goes on; nobody need
come or give anything back.
The Go scheduler runs every goroutine that can go on (weak fairness for each); the
database answers, if only by its timeout; the `select` of the producer's main loop
chooses `EndCh` in the end (strong fairness, since it chooses at random among the
channels that are ready). What is sent over TCP arrives or the connection breaks.
Messages, deadlines, losses and signals get none.

## Proofs

For every value of the constants that satisfies the named assumptions.

* `FileServerProofs`, the pool. `PoolInv` is inductive. Beside the agreement of bits
  and table it needs that the bits from 31 up are all 1 or all 0, which is why
  booking bit 31 empties the high half and `__builtin_ctz` is never called
  on 0. From it: `BitmapCorrect`, `CtzNeverUndefined`, `LeaksArePermanent`, and the
  refinement `PoolImplementsAllocator`.
* `FileServerProofs`, the threads. `ServerInv` is inductive: the pool's invariant, who owns
  the mutex at each place (`MutexHeld`), the phase of the main thread (`PhaseInv`), a
  slot in use has a worker or is about to get one (`ThreadInv`), the sockets are
  distinct and accounted for (`SocketInv`), and the writer has ended before the log
  is destroyed (`LogInv`). One lemma per thread shows that its steps preserve
  it. From it: `TypeCorrect`, `ServerUsesPool` (every step of the server is a step
  of the pool or leaves it alone), `DestructIsSafe`, `CopiesAreCurrent`,
  `DetachReadsTheTid`, `OrphansAreLeaks`, `WakeupsAreNotLost`, `LogOutlives`.
* `MCMemory`, the log's queue. `QueueInv` is inductive: there is a sequence of nodes that
  `next` and `prev` both describe, disjoint from the nodes in the pushers' hands
  (`ListInv`, `HeldInv`), and `ControlInv`. From it: `ListIsWellFormed`,
  `WakeupsAreNotLost`, `DestroyFreesAll`.
* `MCThreads`, problem 1, for every number of lines. `TurnInv` is inductive: it ties the
  owner of the mutex to the places of the threads and the predicate to the
  difference of the line counters. From it: `WakeupsAreNotLost`, and
  `LinesTakeTurns`, the refinement of `LineTurns`. For task 13 the place of each thread
  and the one token determine each other (`TokenInv`); from it `TokenLinesTakeTurns`,
  the same refinement.
* `MCThreads`, the vector, for any finite set of threads, any capacities and any number of
  adds. `VectorInv` alone is not inductive: `VectorOK` adds which call a thread is in
  (`Places`), that only the writer reallocates and readers are then out (`Locked`), that
  the adds under way still have room in `data` (`Roomy`), and what an add between its two
  writes and a pop between its read and its write know of the size (`Elements`). A change
  of the size by one thread leaves that knowledge true when no other thread is `Exposed`;
  otherwise `raced` records it and nothing more is claimed. `Grows` shows that the product
  of `vector.h:11`, taken in the integers as the model does, exceeds every capacity but 0.
  From it: `VectorInvariant`. `SumKeeps` carries it, and what is proved of problem 1, over
  to the specification the run checks.
* `MCWorkers`. The store, for every capacity: `StoreInv` is inductive, with bounds,
  owner, and that a sleeper has reason to sleep or is about to be signalled. From it
  `StoreIsBounded`, `WakeupsAreNotLost`, `SumKeepsStore`. `NobodyGoesTooEarly`
  needs two more invariants. For problem 4, `FilesInv` follows main through its two loops:
  which turns have started a thread, which names are stored and which flags a writer has
  set. For the primitives, `PrimInv` adds to what the run checks that those who have arrived
  at the barrier and those still missing are at least `Count`: only with it does
  an open barrier mean that `Count` have come. The cardinalities of the sets of threads
  change by one in each step (`OneMore`, `OneLess`).
* `SortedListProofs`, `ListWalkProofs`, `RwListProofs`, `NodeListProofs`: problem 3, for
  any number of lines. A whole list is a permutation `s` of the nodes: `Linked` says that `next` and
  `prev` run along it, `InSort` what a sort has done so far (the place of `current`, which
  is not smaller than what it has passed, and behind `end` everything in order and not
  smaller than what is before). `SortedListProofs` shows what `swap`, a node added at either
  end and each step of the sort do to `s`, and that a list that has an `s` is `OneChain`
  and, when the sort is done, `Sorted`. The invariants:
  * `MutexInv`, `CondInv`: such an `s` exists, the lock and the flag are with the thread
    whose place says so, and what is freed is the part of `s` before `list`.
  * `NodesInv`: the nodes are in the order of the input and stay there. The mutex that the
    sorter gives back may be main's (`solution_only_mutex++.c:232`); `Robbed` says in which places the
    sorter can be from then on, and that it comes to wait for itself before it can reach
    a node main has given back.
  * `RwInv`: until the race, such an `s` exists for the nodes that `add_to_head` is not
    working on. After it nothing is left of `s`, but the sort must still be shown to stay
    inside the list: `Walk` says that the nodes one reaches from `list` are linearly
    ranked along `next`, that `prev` leads one back or out of them, and that `current` and
    `end` are among them in order, or that the head has been moved past `current`, which a
    swap then puts back or loses.

  `ListsInvariant` puts the four together; from it `ListStaysAChain`,
  `UnlockedListIsSorted`, `EveryNodeIsFreed`, each what the run checks of the sum.
* `MCMemory`, `SharedPtr`, for any finite set of pointers. `IInv` adds to the counting that pointers
  share a counter exactly when they share an object (`SameObject`), without which
  the last owner of a counter might delete an object that another counter's
  owner uses. `OwnersMove` says what one pointer that changes over does to every
  count. From it: `SharedPtrCounts`. `MemoryKept` carries both over to the specification
  the run checks.

Only model-checked: liveness (`AcceptedIsSettled`, `ShutdownOutcome`, `SleeperTakes`,
`AllFinish`, `Outcome`, `KeepsWorking`, `SignalOutcome`, `ProgramsEnd`, `TransferEnds`), which
is out of the prover's reach; `ImplementsFifo`, which needs an induction over the length
of a chain; `GraphsRight`, which would need inductions over the ways through a graph, and
the parts of `BlocksKept`, `ChannelsKeep` and `TransferKept` that need one over an arena, a
chain of blocks or a stream. What remains of those three needs no induction over data; it is
not proved.

## Not modelled

In a program that is modelled:

* string handling (`parse_request`), names and formats of logs, drawing of the progress,
  reading of graphs from the input (but for `Dijkstra`); functions without a caller (`add_to_tail`,
  `print_*`, `free_store`, `clear`, `copy_file_new`, `bitmap_contain`);
* what memory holds that was freed or never allocated: the handler's write after
  `free_pipe` (a choice of two outcomes), a cache with two slabs, the allocator after a
  chunk in use was cut, requests to it that are not whole words;
* log messages still queued at shutdown: the writer stops at the first test of the flag,
  and nothing is promised about them (they are freed, `AllFreed`);
* a `send` cut short by a signal (`net.c:170`), whose rest is not sent: the model's
  `send` gives all or fails; the reducer's line of unset values on empty input.

Left out as a whole:

* fixed sequences of system calls by one process: `os_layer.c`, `start_daemon`,
  `processes-problems`, `net/examples`; problem 2, whose threads share nothing;
* problem 6: `send_request` has no caller, and what remains is URLs and screen output;
* I/O and formatting without state of its own: `mcat`, `my_ls`, `dir-crawler`, the readers
  of `/proc`, the network audit tool, `golang_eml`, the assembly test;
* conversions of strings, character by character, for which a model would be as long as
  the code: the eml attachment parser, base58;
* floating point (`linear_algebra`) and cryptography (`crypto.c`), out of TLC's reach;
* the C++ version of the allocator, the same algorithm in one file; `any`, `array` and
  `RTL.cpp`, which have no protocol of calls;
* programs that do not build or do not start: `primitives.hpp` (the classes are read from
  the `.cpp` file), `auth.go`, `server_2.go`; `server.go` is the producer without its
  channels.
