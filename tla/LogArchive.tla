------------------------------ MODULE LogArchive -------------------------------
(***************************************************************************)
(* create_log, of src/net/tcp/server/fileserver/log.c: when the file       *)
(* server starts it moves the old logs to a directory of their own, with   *)
(* arch_logs and with move_files_to_dir, move_file, copy_file and          *)
(* delete_file of filesystem.c, and opens a new log.                       *)
(* A file is a sequence of bytes; EOF is what fgetc's end of file becomes  *)
(* as a char.                                                              *)
(***************************************************************************)
EXTENDS Integers, Sequences, FiniteSets, Functions

CONSTANTS
  Logs,        \* names that begin with the pattern
  Others,      \* other entries of the log directory
  PAGESIZE,
  Contents,    \* what a file may hold
  NewLog,      \* a name with the pattern that no file has
  EOF

VARIABLES
  orig,              \* the log directory as it was
  logs, arch,        \* the two directories: contents by name
  arch_dir,          \* the archive directory exists
  entries,           \* what readdir has not returned yet
  file,              \* the entry in hand, or EOF
  pos, at_end, error,\* of src_f: the position, feof and ferror
  file_buf,          \* file_buf up to index
  apc,
  failed,            \* the logs for which a call on one of the two files has failed
  log_file           \* the name of the new log once it is open, or EOF

vars == <<orig, logs, arch, arch_dir, entries, file, pos, at_end, error, file_buf, apc, failed,
          log_file>>

Init ==
  /\ orig \in [Logs \union Others -> Contents] /\ logs = orig /\ arch = <<>>
  /\ arch_dir \in BOOLEAN /\ entries = DOMAIN logs /\ file = EOF
  /\ pos = 0 /\ at_end = FALSE /\ error = FALSE /\ file_buf = <<>>
  /\ apc = "create_log" /\ failed = {} /\ log_file = EOF

copy == <<pos, at_end, error, file_buf>>
Goto(from, to) == apc = from /\ apc' = to

\* Memory for the descriptor and for its queue, or create_log returns NULL.
malloc ==
  /\ Goto("create_log", "arch_logs") \/ Goto("create_log", "null")
  /\ UNCHANGED <<orig, logs, arch, arch_dir, entries, file, copy, failed, log_file>>

\* check_dir, create_dir, which may fail unseen, and opendir of the log directory, without
\* which every log stays where it is.
create_dir ==
  /\ Goto("arch_logs", "readdir") \/ Goto("arch_logs", "new_log")
  /\ arch_dir' \in {TRUE, arch_dir}
  /\ UNCHANGED <<orig, logs, arch, entries, file, copy, failed, log_file>>

readdir(f) ==
  /\ Goto("readdir", IF f \in Logs THEN "fopen" ELSE "readdir")
  /\ f \in entries /\ entries' = entries \ {f}
  /\ file' = IF f \in Logs THEN f ELSE EOF
  /\ UNCHANGED <<orig, logs, arch, arch_dir, copy, failed, log_file>>

\* readdir returns NULL at the end, and on an error before it.
closedir ==
  /\ Goto("readdir", "new_log")
  /\ UNCHANGED <<orig, logs, arch, arch_dir, entries, file, copy, failed, log_file>>

\* copy_file opens both files, the new one empty.
OpenBoth ==
  /\ arch_dir /\ Goto("fopen", "loop")
  /\ arch' = [f \in DOMAIN arch \union {file} |-> IF f = file THEN <<>> ELSE arch[f]]
  /\ pos' = 0 /\ at_end' = FALSE /\ error' = FALSE /\ file_buf' = <<>>
  /\ UNCHANGED <<orig, logs, arch_dir, entries, file, failed, log_file>>

\* One of them cannot be opened, the new one for sure when there is no directory.
OpenFails ==
  /\ Goto("fopen", "delete") /\ failed' = failed \union {file}
  /\ UNCHANGED <<orig, logs, arch, arch_dir, entries, file, copy, log_file>>

\* Nobody looks how much is written.
fwrite(data) ==
  \E w \in 0 .. Len(data) :
    /\ arch' = [arch EXCEPT ![file] = @ \o SubSeq(data, 1, w)]
    /\ failed' = IF error \/ w < Len(data) THEN failed \union {file} ELSE failed

\* file_buf[index++] = fgetc(src_f), and the write of a buffer that is full.
Store(c) ==
  IF Len(file_buf) + 1 = PAGESIZE
  THEN fwrite(Append(file_buf, c)) /\ file_buf' = <<>>
  ELSE file_buf' = Append(file_buf, c) /\ UNCHANGED <<arch, failed>>

\* A turn of the loop: the end is noticed by the fgetc that finds nothing.
fgetc ==
  /\ ~at_end /\ ~error /\ Goto("loop", "loop")
  /\ IF pos < Len(logs[file])
     THEN Store(logs[file][pos + 1]) /\ pos' = pos + 1 /\ UNCHANGED at_end
     ELSE Store(EOF) /\ at_end' = TRUE /\ UNCHANGED pos
  /\ UNCHANGED <<orig, logs, arch_dir, entries, file, error, log_file>>

\* The disk fails; the copy ends there.
FgetcFails ==
  /\ ~at_end /\ ~error /\ Goto("loop", "loop") /\ Store(EOF) /\ error' = TRUE
  /\ UNCHANGED <<orig, logs, arch_dir, entries, file, pos, at_end, log_file>>

\* What is left in the buffer goes out without its last byte, which is the EOF.
CopyEnds ==
  /\ at_end \/ error
  /\ Goto("loop", "delete")
  /\ fwrite(SubSeq(file_buf, 1, Len(file_buf) - 1))
  /\ UNCHANGED <<orig, logs, arch_dir, entries, file, copy, log_file>>

\* move_file deletes the old file, copied or not.
delete_file ==
  /\ Goto("delete", "readdir") /\ file' = EOF
  /\ logs' \in {logs, Restrict(logs, DOMAIN logs \ {file})}
  /\ UNCHANGED <<orig, arch, arch_dir, entries, copy, failed, log_file>>

copy_file == OpenBoth \/ OpenFails \/ fgetc \/ FgetcFails \/ CopyEnds
move_files_to_dir == copy_file \/ delete_file \/ closedir \/ \E f \in Logs \union Others : readdir(f)

arch_logs == create_dir \/ move_files_to_dir

\* The new log is named after the second in which it is opened: a name that no file has,
\* or that of a log of the same second, which fopen empties if it is still there.  Nobody
\* looks whether fopen failed.
OpenLog ==
  /\ Goto("new_log", "done")
  /\ \/ \E log_name \in Logs \union {NewLog} :
          /\ log_file' = log_name
          /\ logs' = [f \in DOMAIN logs \union {log_name} |-> IF f = log_name THEN <<>> ELSE logs[f]]
     \/ UNCHANGED <<logs, log_file>>
  /\ UNCHANGED <<orig, arch, arch_dir, entries, file, copy, failed>>

create_log == malloc \/ arch_logs \/ OpenLog

Next == create_log

\* One thread, whose calls return.
Fairness == WF_vars(Next)

Spec == Init /\ [][Next]_vars /\ Fairness

-------------------------------------------------------------------------------

\* copy_file is right but for a file that ends one byte before a full buffer: its copy has
\* the EOF as one more byte.
Copied(content) ==
  IF Len(content) % PAGESIZE = PAGESIZE - 1 THEN Append(content, EOF) ELSE content

\* A log that has left its directory, or whose name the new log has taken, is in the
\* archive as copy_file copies it, unless a call failed for it, which does not keep it from
\* being deleted.  A log that readdir has not returned, and what is no log, stays.
ArchiveKept ==
  /\ \A f \in Others : f \in DOMAIN logs /\ logs[f] = orig[f]
  /\ entries \subseteq DOMAIN logs
  /\ \A f \in Logs \ (failed \union entries) :
       f \notin DOMAIN logs \/ apc \in {"new_log", "done"}
         => f \in DOMAIN arch /\ arch[f] = Copied(orig[f])
  /\ \A f \in DOMAIN logs \ {log_file} : logs[f] = orig[f]
  /\ apc = "null" => logs = orig

ArchiveEnded == apc \in {"done", "null"}
===============================================================================
