------------------------------- MODULE FileThreads -------------------------------
(***************************************************************************)
(* src/pthreads-problems/problem-4/solution.c: main starts a writer thread *)
(* per file, then a reader thread per file, and joins them all.  A reader  *)
(* waits until the flag of its file is set; all readers wait on the same   *)
(* condition variable, and a writer signals one of them.                   *)
(***************************************************************************)
EXTENDS Naturals, Sequences

CONSTANT Files  \* n / 2; file i belongs to the turns i of main's two loops

File   == 1 .. Files
Writer == {"w"} \X File
Reader == {"r"} \X File
Thread == Writer \union Reader
Garbage == <<"garbage", 0>>

VARIABLES
  mainpc,        \* "writers", "readers", "join", "check", "cleanup", "exit", "abort"
  i,             \* main's loop counter
  thread_store,  \* main's array, up to thread_ptr; a failed pthread_create leaves garbage
  names,         \* what file_store[i] points to: "none", "live", "freed"
  pc,            \* where each thread is
  files_lock,    \* files whose flag is set
  written,       \* files that have been written and closed
  m              \* owner of the mutex, or Garbage

vars == <<mainpc, i, thread_store, names, pc, files_lock, written, m>>

TypeOK ==
  /\ mainpc \in {"writers", "readers", "join", "check", "cleanup", "exit", "abort"}
  /\ i \in 1 .. 2 * Files + 1
  /\ thread_store \in Seq(Thread \union {Garbage}) /\ Len(thread_store) <= 2 * Files
  /\ names \in [File -> {"none", "live", "freed"}]
  /\ pc \in [Thread -> {"none", "start", "open", "write", "lock", "set", "check", "wait", "unlock",
                        "read", "done"}]
  /\ files_lock \in SUBSET File /\ written \in SUBSET File
  /\ m \in Thread \union {Garbage}

Init ==
  /\ mainpc = "writers" /\ i = 1 /\ thread_store = <<>>
  /\ names = [f \in File |-> "none"]
  /\ pc = [t \in Thread |-> "none"]
  /\ files_lock = {} /\ written = {} /\ m = Garbage

Running == mainpc \notin {"exit", "abort"}

-------------------------------------------------------------------------------
\* main.

\* The end of a turn of one of the two loops that create threads.
NextFile(loop, after) ==
  IF i < Files THEN i' = i + 1 /\ mainpc' = loop ELSE i' = 1 /\ mainpc' = after

\* When concat finds no memory file_store[i] stays uninitialised; when malloc or
\* pthread_create fails it points to freed memory.
CreateWriter ==
  /\ mainpc = "writers"
  /\ \/ /\ names' = [names EXCEPT ![i] = "live"]
        /\ thread_store' = Append(thread_store, <<"w", i>>)
        /\ pc' = [pc EXCEPT ![<<"w", i>>] = "start"]
     \/ /\ names' = [names EXCEPT ![i] = "freed"]
        /\ thread_store' \in {thread_store, Append(thread_store, Garbage)}
        /\ UNCHANGED pc
     \/ UNCHANGED <<names, thread_store, pc>>
  /\ NextFile("writers", "readers")
  /\ UNCHANGED <<files_lock, written, m>>

\* int_to_str may find no memory; its result goes unchecked into concat.
NameCrash ==
  /\ mainpc = "writers" /\ mainpc' = "abort"
  /\ UNCHANGED <<i, thread_store, names, pc, files_lock, written, m>>

CreateReader ==
  /\ mainpc = "readers"
  /\ \/ /\ thread_store' = Append(thread_store, <<"r", i>>)
        /\ pc' = [pc EXCEPT ![<<"r", i>>] = "start"]
     \/ /\ thread_store' \in {thread_store, Append(thread_store, Garbage)}
        /\ UNCHANGED pc
  /\ NextFile("readers", "join")
  /\ UNCHANGED <<names, files_lock, written, m>>

\* pthread_join of a thread id that was never set returns an error or crashes.
Join ==
  /\ mainpc = "join"
  /\ \/ i > 2 * Files /\ mainpc' = "cleanup"
     \/ /\ i <= Len(thread_store) /\ thread_store[i] \in Thread
        /\ pc[thread_store[i]] = "done" /\ mainpc' = "check"
     \/ /\ i <= 2 * Files /\ (i <= Len(thread_store) => thread_store[i] = Garbage)
        /\ mainpc' \in {"check", "abort"}
  /\ UNCHANGED <<i, thread_store, names, pc, files_lock, written, m>>

\* res points to the local variable status, not to what the thread returned:
\* free(res) aborts the process, or damages the heap and goes on.
CheckStatus ==
  /\ mainpc = "check"
  /\ \/ mainpc' = "abort" /\ UNCHANGED i
     \/ mainpc' = "join" /\ i' = i + 1
  /\ UNCHANGED <<thread_store, names, pc, files_lock, written, m>>

\* A pointer that was never set, or was freed before, aborts the process or goes on.
Cleanup ==
  /\ mainpc = "cleanup"
  /\ \/ mainpc' = "exit" /\ names' = [f \in File |-> "freed"]
     \/ mainpc' = "abort" /\ (\E f \in File : names[f] # "live") /\ UNCHANGED names
  /\ UNCHANGED <<i, thread_store, pc, files_lock, written, m>>

main == CreateWriter \/ NameCrash \/ CreateReader \/ Join \/ CheckStatus \/ Cleanup

-------------------------------------------------------------------------------
\* The threads.

Goto(t, from, to) == pc[t] = from /\ pc' = [pc EXCEPT ![t] = to]

\* Memory for the result is not checked before it is written.
Start(t) ==
  /\ \/ Goto(t, "start", IF t \in Writer THEN "open" ELSE "lock") /\ UNCHANGED mainpc
     \/ pc[t] = "start" /\ mainpc' = "abort" /\ UNCHANGED pc
  /\ UNCHANGED <<i, thread_store, names, files_lock, written, m>>

Lock(t) ==
  /\ Goto(t, "lock", IF t \in Writer THEN "set" ELSE "check") /\ m = Garbage /\ m' = t
  /\ UNCHANGED <<mainpc, i, thread_store, names, files_lock, written>>

Unlock(t) ==
  /\ Goto(t, "unlock", IF t \in Writer THEN "done" ELSE "read") /\ m' = Garbage
  /\ UNCHANGED <<mainpc, i, thread_store, names, files_lock, written>>

\* Mutant: the flag is set before the file is written.
MutantOpenForWriting(t) ==
  /\ files_lock' = files_lock \union {t[2]}
  /\ Goto(t, "open", "write") \/ Goto(t, "open", "done")
  /\ UNCHANGED <<mainpc, i, thread_store, names, written, m>>

\* fopen for writing fails: the writer ends and its flag is never set.
OpenForWriting(t) ==
  /\ Goto(t, "open", "write") \/ Goto(t, "open", "done")
  /\ UNCHANGED <<mainpc, i, thread_store, names, files_lock, written, m>>

WriteAndClose(t) ==
  /\ Goto(t, "write", "lock") /\ written' = written \union {t[2]}
  /\ UNCHANGED <<mainpc, i, thread_store, names, files_lock, m>>

Waiting == {r \in Reader : pc[r] = "wait"}

\* pthread_cond_signal wakes one of the readers that wait, of whatever file.
SetFlagAndSignal(t) ==
  /\ pc[t] = "set" /\ files_lock' = files_lock \union {t[2]}
  /\ \/ Waiting = {} /\ pc' = [pc EXCEPT ![t] = "unlock"]
     \/ \E r \in Waiting : pc' = [pc EXCEPT ![t] = "unlock", ![r] = "lock"]
  /\ UNCHANGED <<mainpc, i, thread_store, names, written, m>>

write_in_file(t) ==
  \/ Start(t) \/ OpenForWriting(t) \/ WriteAndClose(t) \/ Lock(t) \/ SetFlagAndSignal(t)
  \/ Unlock(t)

\* while (*(cur_file->lock_ptr) != 1) pthread_cond_wait(&cond, &m)
CheckFlag(t) ==
  /\ \/ t[2] \in files_lock /\ Goto(t, "check", "unlock") /\ UNCHANGED m
     \/ t[2] \notin files_lock /\ Goto(t, "check", "wait") /\ m' = Garbage
  /\ UNCHANGED <<mainpc, i, thread_store, names, files_lock, written>>

\* The file is read, or cannot be opened; either way the reader ends.
ReadFile(t) ==
  /\ Goto(t, "read", "done")
  /\ UNCHANGED <<mainpc, i, thread_store, names, files_lock, written, m>>

read_file(t) == Start(t) \/ Lock(t) \/ CheckFlag(t) \/ Unlock(t) \/ ReadFile(t)

SpuriousWakeup(t) ==
  /\ Goto(t, "wait", "lock")
  /\ UNCHANGED <<mainpc, i, thread_store, names, files_lock, written, m>>

Next ==
  /\ Running
  /\ \/ main
     \/ \E t \in Writer : write_in_file(t)
     \/ \E t \in Reader : read_file(t) \/ SpuriousWakeup(t)

Spec == Init /\ [][Next]_vars

\* Every thread is scheduled and gets the mutex it asks for.
FairSpec ==
  /\ Spec
  /\ WF_vars(Running /\ main)
  /\ \A t \in Writer : WF_vars(Running /\ write_in_file(t)) /\ SF_vars(Running /\ Lock(t))
  /\ \A t \in Reader : WF_vars(Running /\ read_file(t)) /\ SF_vars(Running /\ Lock(t))

-------------------------------------------------------------------------------

\* A reader opens its file only when the writer has closed it, under a name that is
\* still allocated: the readers whose name main freed early, because their writer
\* could not be started, never get past the flag, and the clean-up comes after
\* the joins.  (Lines 119-127, 186, 196 and 239.)
ReadsFinishedFile ==
  Running => \A f \in File : pc[<<"r", f>>] = "read" => f \in written /\ names[f] = "live"

\* The threads main has started are all in thread_store, each once, so that the
\* joins reach every one of them although a failed turn leaves a hole in the count.
AllStored ==
  \A t \in Thread : pc[t] # "none" =>
    /\ \E j \in DOMAIN thread_store : thread_store[j] = t
    /\ \A j, l \in DOMAIN thread_store : thread_store[j] = t /\ thread_store[l] = t => j = l

\* Main's loops have started the threads of the turns before i, and no others.
LoopInv ==
  /\ mainpc \in {"writers", "readers"} => i <= Files
  /\ mainpc = "check" => i <= 2 * Files
  /\ mainpc = "writers" => Len(thread_store) <= i - 1
  /\ mainpc = "readers" => Len(thread_store) <= Files + i - 1
  /\ \A f \in File :
       /\ mainpc = "writers" /\ f >= i => pc[<<"w", f>>] = "none"
       /\ mainpc = "writers" \/ (mainpc = "readers" /\ f >= i) => pc[<<"r", f>>] = "none"

\* A writer that was started has a live name; its file is written before its flag is
\* set, and a reader passes only a set flag.
FlagInv ==
  \A f \in File :
    /\ pc[<<"w", f>>] # "none" /\ mainpc # "exit" => names[f] = "live"
    /\ f \in written => pc[<<"w", f>>] # "none"
    /\ pc[<<"w", f>>] \in {"lock", "set"} \/ f \in files_lock => f \in written
    /\ pc[<<"r", f>>] \in {"unlock", "read"} => f \in files_lock

OnlyStarted ==
  \A j \in DOMAIN thread_store : thread_store[j] \in Thread => pc[thread_store[j]] # "none"

\* The inductive invariant behind the two.
FilesInv == TypeOK /\ AllStored /\ OnlyStarted /\ LoopInv /\ FlagInv

\* When every thread was created and has got going, the process does not end before
\* they have: "Wait for all threads to complete" (line 226).  It does, when
\* free(res) aborts it after the first join.
WaitsForAll ==
  ~Running /\ (\A t \in Thread : pc[t] \notin {"none", "start"})
    => \A t \in Thread : pc[t] = "done"

\* When every flag is set the wait for all threads (line 226) comes to its end.  It
\* does not, when a writer's signal has woken the reader of another file.
WaitEnds == files_lock = File ~> ~Running \/ mainpc = "cleanup"
===============================================================================
