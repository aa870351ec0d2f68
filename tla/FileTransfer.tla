----------------------------- MODULE FileTransfer ------------------------------
(***************************************************************************)
(* A download from the file server: the Go client of src/net/tcp/client,   *)
(* with a goroutine per file and one that draws the progress, and          *)
(* send_file in the server's src/net/tcp/server/fileserver/net.c, with a   *)
(* thread per connection.  Routine r asks for the file r of the server,    *)
(* whose bytes are 1 .. size[r]; a TCP stream is a sequence of lines and   *)
(* bytes, which may break.  When the server's pool refuses a connection is *)
(* in FileServer; here it is a fault.                                      *)
(***************************************************************************)
EXTENDS Integers, Sequences, FiniteSets, SequencesExt

CONSTANTS
  Routine,      \* the paths of the command line
  PAGESIZE,     \* bytes send_file reads at a time
  Requests,     \* what may be asked for: of each path the size, or NOFILE, and the base name
  Directories,  \* what destPath may hold at first: sets of file names
  MaxFaults     \* connections, threads, reads and writes that fail

NOFILE == -1
Old == [k \in 1 .. 3 |-> <<0, k>>]   \* what a file holds that was there before

VARIABLES
  size, base,       \* of the file each routine asks for
  listing,          \* the names that are in destPath at first
  opType,
  pc, dest, offset, \* of each GetFile: where it is, its destFilePath, and how far it has written
  existed,          \* os.OpenFile found a file of this name
  local,            \* the files in destPath: a function from names to contents
  routinesStatus,   \* the routines whose EndFlag DownloadVisualization has seen
  client,           \* startRoutins: "wait", "closed", "exit"; or "panic"
  spc, fpos,        \* of each server thread: where send_file is, and the position in its file
  up, down,         \* the two streams of each connection
  conn,             \* "none", "open", "eof" (closed by the server) or "reset"
  server,           \* "up", or how it ended: "segv", "sigpipe"
  faults, bad, cut  \* the faults so far, the files with a read that failed, or a write

work == <<dest, offset, existed, local, cut>>
net == <<up, down, conn>>
clientVars == <<pc, work, routinesStatus, client>>
serverVars == <<spc, fpos, server, bad>>
requestVars == <<size, base, listing, opType>>
vars == <<requestVars, clientVars, serverVars, net, faults>>

Init ==
  /\ \E q \in Requests : size = [r \in Routine |-> q[r].size] /\ base = [r \in Routine |-> q[r].base]
  /\ opType \in {"GET", "POST"}
  /\ pc = [r \in Routine |-> IF opType = "GET" THEN "dial" ELSE "done"]
  /\ dest = [r \in Routine |-> <<>>] /\ offset = [r \in Routine |-> 0]
  /\ existed = [r \in Routine |-> FALSE]
  /\ listing \in Directories /\ local = [f \in listing |-> Old]
  /\ routinesStatus = {} /\ client = "wait"
  /\ spc = [r \in Routine |-> "none"] /\ fpos = [r \in Routine |-> 0]
  /\ up = [r \in Routine |-> <<>>] /\ down = [r \in Routine |-> <<>>]
  /\ conn = [r \in Routine |-> "none"] /\ server = "up" /\ faults = 0
  /\ bad = {} /\ cut = {}

Running(r) == client \in {"wait", "closed"} /\ pc[r] # "done"
Goto(r, from, to) == Running(r) /\ pc[r] = from /\ pc' = [pc EXCEPT ![r] = to]

-------------------------------------------------------------------------------
\* GetFile, in the client.

\* makeConnection, which the listening socket answers, and the request.
Dial(r) ==
  /\ server = "up" /\ Goto(r, "dial", "response")
  /\ conn' = [conn EXCEPT ![r] = "open"] /\ up' = [up EXCEPT ![r] = <<"GET">>]
  /\ spc' = [spc EXCEPT ![r] = "accept"]
  /\ UNCHANGED <<requestVars, work, routinesStatus, client, fpos, server, bad, down, faults>>

DialFails(r) ==
  /\ Goto(r, "dial", "done")
  /\ \/ server # "up" /\ UNCHANGED faults
     \/ faults < MaxFaults /\ faults' = faults + 1
  /\ UNCHANGED <<requestVars, work, routinesStatus, client, serverVars, net>>

\* The first line of the answer: anything but OK is answered with STOP.
ReadResponse(r) ==
  /\ pc[r] = "response" /\ down[r] # <<>> /\ down' = [down EXCEPT ![r] = Tail(@)]
  /\ LET ok == Head(down[r]) = "OK" IN
     /\ Goto(r, "response", IF ok THEN "size" ELSE "done")
     /\ up' = [up EXCEPT ![r] = Append(@, IF ok THEN "GO" ELSE "STOP")]
  /\ UNCHANGED <<requestVars, work, routinesStatus, client, serverVars, conn, faults>>

\* The line with the size begins with the zero byte that ended the line before it.
ReadSize(r) ==
  /\ Goto(r, "size", "path") /\ Len(down[r]) >= 2
  /\ down' = [down EXCEPT ![r] = SubSeq(@, 3, Len(@))]
  /\ UNCHANGED <<requestVars, work, routinesStatus, client, serverVars, up, conn, faults>>

\* A read finds the connection closed in the middle of a line, or broken.
ReadFails(r) ==
  /\ \/ conn[r] = "eof" /\ Len(down[r]) < (IF pc[r] = "size" THEN 2 ELSE 1)
        /\ (Goto(r, "response", "done") \/ Goto(r, "size", "done"))
     \/ conn[r] = "reset" /\ \E from \in {"response", "size", "read"} : Goto(r, from, "done")
  /\ UNCHANGED <<requestVars, work, routinesStatus, client, serverVars, net, faults>>

\* Mutant: no number.
MutantDestName(b) == <<b, 0>>

\* The name without a number if nothing in the directory begins with it, otherwise with
\* the number of entries that do.  A file name is a base name and a number, 0 for none.
DestName(b) ==
  LET sameName == {f \in DOMAIN local : IsPrefix(b, f[1])}
  IN  <<b, Cardinality(sameName)>>

MakeDestFilePath(r) ==
  /\ Goto(r, "path", "open") /\ dest' = [dest EXCEPT ![r] = DestName(base[r])]
  /\ UNCHANGED <<requestVars, offset, existed, local, cut, routinesStatus, client, serverVars, net, faults>>

\* The directory cannot be read, or the file not be opened: the connection is closed.
PathFails(r) ==
  /\ Goto(r, "path", "done") \/ Goto(r, "open", "done")
  /\ faults < MaxFaults /\ faults' = faults + 1 /\ down' = [down EXCEPT ![r] = <<>>]
  /\ UNCHANGED <<requestVars, work, routinesStatus, client, serverVars, up, conn>>

\* os.OpenFile with O_CREATE and without O_TRUNC.
OpenFile(r) ==
  /\ Goto(r, "open", "read")
  /\ existed' = [existed EXCEPT ![r] = dest[r] \in DOMAIN local]
  /\ local' = IF dest[r] \in DOMAIN local THEN local
              ELSE [f \in DOMAIN local \union {dest[r]} |-> IF f = dest[r] THEN <<>> ELSE local[f]]
  /\ UNCHANGED <<requestVars, dest, offset, cut, routinesStatus, client, serverVars, net, faults>>

\* What the file holds after a write of data at the offset.
Written(content, off, data) ==
  SubSeq(content, 1, off) \o data \o SubSeq(content, off + Len(data) + 1, Len(content))

\* WriteByte for each byte, and Flush.  Nobody looks at their errors: a write that fails
\* leaves a part of the bytes, and the bufio.Writer writes nothing from then on.
Flush(r, data) ==
  \E w \in 0 .. Len(data) :
    /\ local' = [local EXCEPT ![dest[r]] = Written(@, offset[r], SubSeq(data, 1, w))]
    /\ offset' = [offset EXCEPT ![r] = @ + w]
    /\ \/ r \notin cut /\ w = Len(data) /\ UNCHANGED <<cut, faults>>
       \/ /\ r \notin cut /\ w < Len(data) /\ cut' = cut \union {r}
          /\ faults < MaxFaults /\ faults' = faults + 1
       \/ r \in cut /\ w = 0 /\ UNCHANGED <<cut, faults>>

\* reader.Read returns some of what has come; it is written, and drawn if the progress is
\* due, which depends on *TotalOffset, and on when the other goroutine has changed it.
Read(r) ==
  /\ Goto(r, "read", "progress") \/ ((offset[r] > 0 \/ r \in cut) /\ Goto(r, "read", "read"))
  /\ \E k \in 1 .. Len(down[r]) :
       /\ down' = [down EXCEPT ![r] = SubSeq(@, k + 1, Len(@))]
       /\ Flush(r, [j \in 1 .. k |-> <<r, down[r][j]>>])
  /\ UNCHANGED <<requestVars, dest, existed, routinesStatus, client, serverVars, up, conn>>

ReadEof(r) ==
  /\ conn[r] = "eof" /\ down[r] = <<>> /\ Goto(r, "read", "end")
  /\ UNCHANGED <<requestVars, work, routinesStatus, client, serverVars, net, faults>>

GetFileSize(r) ==
  /\ Goto(r, "stat", "done")
  /\ UNCHANGED <<requestVars, work, routinesStatus, client, serverVars, net, faults>>

-------------------------------------------------------------------------------
\* DownloadVisualization, which meets a routine at the channel, and startRoutins.

allRoutineDone == routinesStatus = Routine

\* It draws, and adds to *TotalOffset.
Progress(r) ==
  /\ ~allRoutineDone /\ Goto(r, "progress", "read")
  /\ UNCHANGED <<requestVars, work, routinesStatus, client, serverVars, net, faults>>

End(r) ==
  /\ ~allRoutineDone /\ Goto(r, "end", "stat")
  /\ routinesStatus' = routinesStatus \union {r}
  /\ UNCHANGED <<requestVars, work, client, serverVars, net, faults>>

\* wg.Wait() returns and the channel is closed.
CloseChannel ==
  /\ client = "wait" /\ (\A r \in Routine : pc[r] = "done") /\ client' = "closed"
  /\ UNCHANGED <<requestVars, pc, work, routinesStatus, serverVars, net, faults>>

\* The closed channel gives arguments that are all zero, with no *TotalOffset to add to.
ReceiveZero ==
  /\ client = "closed" /\ ~allRoutineDone /\ client' = "panic"
  /\ UNCHANGED <<requestVars, pc, work, routinesStatus, serverVars, net, faults>>

MainExit ==
  /\ client = "closed" /\ client' = "exit"
  /\ UNCHANGED <<requestVars, pc, work, routinesStatus, serverVars, net, faults>>

-------------------------------------------------------------------------------
\* The server's main_loop for connection r, and send_file in its thread.

ServerGoto(r, from, to) == server = "up" /\ spc[r] = from /\ spc' = [spc EXCEPT ![r] = to]

\* send: what it gives the stream, and where the thread goes on; on a connection that is
\* broken, or closed by the client, it fails.
SendThen(r, data, from, to) ==
  \/ /\ conn[r] = "open" /\ ServerGoto(r, from, to)
     /\ down' = [down EXCEPT ![r] = IF pc[r] = "done" THEN @ ELSE @ \o data]
  \/ /\ conn[r] = "reset" \/ pc[r] = "done"
     /\ ServerGoto(r, from, "error_exit") /\ UNCHANGED down

\* The connection is stored and has its thread.
start_client_serving_routine(r) ==
  /\ ServerGoto(r, "accept", "request")
  /\ UNCHANGED <<requestVars, clientVars, fpos, server, bad, net, faults>>

\* store_connection refuses it: nobody serves or closes the socket.
StoreRefused(r) ==
  /\ faults < MaxFaults /\ faults' = faults + 1 /\ ServerGoto(r, "accept", "orphan")
  /\ UNCHANGED <<requestVars, clientVars, fpos, server, bad, net>>

\* pthread_create fails: release_connection closes the socket, with the request unread if
\* it has come.
ThreadFails(r) ==
  /\ faults < MaxFaults /\ faults' = faults + 1 /\ ServerGoto(r, "accept", "released")
  /\ conn' \in {[conn EXCEPT ![r] = how] : how \in {"eof", "reset"}}
  /\ UNCHANGED <<requestVars, clientVars, fpos, server, bad, up, down>>

\* serve_connection reads the request, send_file opens the file.
open_file(r) ==
  /\ up[r] # <<>> /\ up' = [up EXCEPT ![r] = Tail(@)]
  /\ ServerGoto(r, "request", IF size[r] = NOFILE THEN "send_err" ELSE "send_ok")
  /\ UNCHANGED <<requestVars, clientVars, fpos, server, bad, down, conn, faults>>

\* Both lines go out with the zero byte that ends the string.
SendOk(r) ==
  /\ SendThen(r, <<"OK", "NUL">>, "send_ok", "recv")
  /\ UNCHANGED <<requestVars, clientVars, fpos, server, bad, up, conn, faults>>

SendErr(r) ==
  /\ SendThen(r, <<"ERR", "NUL">>, "send_err", "error_exit")
  /\ UNCHANGED <<requestVars, clientVars, fpos, server, bad, up, conn, faults>>

\* recv, whose failure counts as anything but STOP.
Recv(r) ==
  /\ IF up[r] # <<>>
     THEN /\ ServerGoto(r, "recv", IF Head(up[r]) = "STOP" THEN "error_exit" ELSE "send_size")
          /\ up' = [up EXCEPT ![r] = Tail(@)]
     ELSE (conn[r] = "reset" \/ pc[r] = "done") /\ ServerGoto(r, "recv", "send_size") /\ UNCHANGED up
  /\ UNCHANGED <<requestVars, clientVars, fpos, server, bad, down, conn, faults>>

SendSize(r) ==
  /\ SendThen(r, <<size[r]>>, "send_size", "loop")
  /\ UNCHANGED <<requestVars, clientVars, fpos, server, bad, up, conn, faults>>

\* fread and send: feof is true after a read that came short, so a file of whole pages
\* needs one more, of nothing.
SendPage(r) ==
  LET left == size[r] - fpos[r]
      read_cnt == IF left < PAGESIZE THEN left ELSE PAGESIZE IN
  /\ SendThen(r, [j \in 1 .. read_cnt |-> fpos[r] + j], "loop",
              IF read_cnt < PAGESIZE THEN "close" ELSE "loop")
  /\ fpos' = [fpos EXCEPT ![r] = @ + read_cnt]
  /\ UNCHANGED <<requestVars, clientVars, server, bad, up, conn, faults>>

\* The disk fails: ferror is seen at the next turn.
FileError(r) ==
  /\ faults < MaxFaults /\ faults' = faults + 1 /\ bad' = bad \union {r}
  /\ ServerGoto(r, "loop", "error_exit")
  /\ UNCHANGED <<requestVars, clientVars, fpos, server, net>>

\* close_file, and release_connection, which closes the socket.
Close(r) ==
  /\ ServerGoto(r, "close", "released") \/ (size[r] # NOFILE /\ ServerGoto(r, "error_exit", "released"))
  /\ conn' = [conn EXCEPT ![r] = IF @ = "open" THEN "eof" ELSE @]
  /\ UNCHANGED <<requestVars, clientVars, fpos, server, bad, up, down, faults>>

\* The end of the process closes every socket; one with something unread in it is reset.
ServerEnds(how) ==
  /\ server' = how
  /\ conn' = [r \in Routine |-> IF conn[r] # "open" THEN conn[r]
                                ELSE IF up[r] # <<>> THEN "reset" ELSE "eof"]

\* close_file at error_exit when there is no file.
CloseNull(r) ==
  /\ size[r] = NOFILE /\ ServerGoto(r, "error_exit", "released") /\ ServerEnds("segv")
  /\ UNCHANGED <<requestVars, clientVars, fpos, bad, up, down, faults>>

\* The size is sent without MSG_NOSIGNAL.
SigPipe(r) ==
  /\ conn[r] = "reset" /\ ServerGoto(r, "send_size", "released") /\ ServerEnds("sigpipe")
  /\ UNCHANGED <<requestVars, clientVars, fpos, bad, up, down, faults>>

\* The network breaks a connection.
Reset(r) ==
  /\ conn[r] = "open" /\ Running(r) /\ faults < MaxFaults /\ faults' = faults + 1
  /\ conn' = [conn EXCEPT ![r] = "reset"]
  /\ UNCHANGED <<requestVars, clientVars, serverVars, up, down>>

-------------------------------------------------------------------------------

GetFile(r) ==
  \/ Dial(r) \/ DialFails(r) \/ ReadResponse(r) \/ ReadSize(r) \/ ReadFails(r)
  \/ MakeDestFilePath(r) \/ PathFails(r) \/ OpenFile(r) \/ Read(r) \/ ReadEof(r)
  \/ Progress(r) \/ End(r) \/ GetFileSize(r)

send_file(r) ==
  \/ open_file(r) \/ SendOk(r) \/ SendErr(r) \/ Recv(r) \/ SendSize(r) \/ SendPage(r)
  \/ FileError(r) \/ Close(r) \/ CloseNull(r) \/ SigPipe(r)

main_loop(r) == start_client_serving_routine(r) \/ StoreRefused(r) \/ ThreadFails(r)

startRoutins == CloseChannel \/ MainExit

Next ==
  \/ startRoutins \/ ReceiveZero
  \/ \E r \in Routine : GetFile(r) \/ main_loop(r) \/ send_file(r) \/ Reset(r)

\* Both schedulers run whoever can go on; what is sent arrives.
Fairness ==
  /\ WF_vars(startRoutins)
  /\ \A r \in Routine : WF_vars(GetFile(r)) /\ WF_vars(main_loop(r)) /\ WF_vars(send_file(r))

Spec == Init /\ [][Next]_vars /\ Fairness

-------------------------------------------------------------------------------

Alone(r) == ~existed[r] /\ \A q \in Routine \ {r} : dest[q] = dest[r] => pc[q] \in {"path", "open"}

\* A file a routine has to itself is a prefix of the server's, and when DownloadVisualization
\* has counted it as done it is the whole of it, unless the server died on the way or could
\* not read it, or the client could not write it.  The client does not tell the difference:
\* it never uses the two sizes, and looks at no error of the write.
DownloadsKept ==
  \A r \in Routine :
    (pc[r] \in {"read", "progress", "end", "stat"} \/ r \in routinesStatus) /\ Alone(r) =>
      /\ local[dest[r]] = [k \in 1 .. offset[r] |-> <<r, k>>]
      /\ r \in routinesStatus /\ server = "up" /\ r \notin bad \union cut => offset[r] = size[r]

\* A file that was in the directory stays as it was if the numbers in the names had no gap.
OldFilesKept ==
  (\A f \in listing : \A k \in 0 .. f[2] - 1 : <<f[1], k>> \in listing) =>
    \A f \in listing : local[f] = Old

\* The server ends on a file it cannot open or on a connection that broke before the size
\* was sent; the client panics when all downloads are over, and one of them has failed.
Casualties ==
  /\ server = "segv" => \E r \in Routine : size[r] = NOFILE /\ pc[r] # "dial"
  /\ server = "sigpipe" => \E r \in Routine : conn[r] = "reset" /\ r \notin routinesStatus
  /\ client = "panic" => (\A r \in Routine : pc[r] = "done") /\ routinesStatus # Routine

\* The client waits for the answer on a connection the server has dropped without closing
\* it, and for nothing else.
Stranded ==
  /\ server = "up" /\ \E r \in Routine : pc[r] # "done"
  /\ \A r \in Routine : pc[r] = "done" \/ (pc[r] = "response" /\ spc[r] = "orphan")

ClientEnded == client \in {"exit", "panic"}
===============================================================================
