-------------------------------- MODULE UdpLog ---------------------------------
(***************************************************************************)
(* src/net/udp: the server becomes a daemon, and main_loop writes what it  *)
(* receives to a log and answers "OK!", until it receives "OFF"; a client  *)
(* sends a line, waits for the answer and goes on.  The socket is the      *)
(* loopback's, which loses datagrams when it is full or not there, and     *)
(* keeps the others in order.                                              *)
(***************************************************************************)
EXTENDS Naturals, Sequences

CONSTANTS Client, MaxTexts   \* lines a client's user enters

OFF == 0     \* other lines are numbers

VARIABLES
  cpc, sent, answers,   \* of each client: "text", "read" or "stopped"; its lines; its answers
  queue, reply,         \* datagrams on their way, to the server and to each client
  len,                  \* not initialised: "negative", "short" or "enough" for an address
  log, unlogged,        \* the log file; the lines whose write failed
  server                \* "start", "daemon", "bind", "loop", "deaf" or "off"

vars == <<cpc, sent, answers, queue, reply, len, log, unlogged, server>>

Init ==
  /\ cpc = [c \in Client |-> "text"] /\ sent = [c \in Client |-> <<>>]
  /\ answers = [c \in Client |-> 0]
  /\ queue = <<>> /\ reply = [c \in Client |-> 0]
  /\ len \in {"negative", "short", "enough"}
  /\ log = <<>> /\ unlogged = {} /\ server = "start"

Server(from, to) ==
  /\ server = from /\ server' \in to
  /\ UNCHANGED <<cpc, sent, answers, queue, reply, len, log, unlogged>>

validate_dir_path == Server("start", {"daemon", "off"})

\* Two forks and a setsid, each of which may fail; the process that is left goes on.
start_daemon == Server("daemon", {"bind", "off"})

\* When socket or bind fails, which nobody looks at, main_loop never receives anything.
\* It returns at once when the log cannot be opened.
open_log == Server("bind", {"loop", "deaf", "off"})

main == validate_dir_path \/ start_daemon \/ open_log

\* SIGURG ends the server where it is.
signal_handler == \E where \in {"start", "daemon", "bind", "loop", "deaf"} : Server(where, {"off"})

\* A line, which the network may lose; where no server listens the write or the read fails.
Write(c) ==
  /\ cpc[c] = "text" /\ Len(sent[c]) < MaxTexts
  /\ \E text \in {Len(sent[c]) + 1, OFF} :
       LET datagram == <<c, text>> IN
       /\ sent' = [sent EXCEPT ![c] = Append(@, text)]
       /\ queue' \in {queue, IF server = "loop" THEN Append(queue, datagram) ELSE queue}
  /\ cpc' = [cpc EXCEPT ![c] = "read"]
  /\ UNCHANGED <<answers, reply, len, log, unlogged, server>>

\* The answer, of which as much is kept as the line was long.
Read(c) ==
  /\ cpc[c] = "read" /\ reply[c] > 0
  /\ reply' = [reply EXCEPT ![c] = @ - 1] /\ answers' = [answers EXCEPT ![c] = @ + 1]
  /\ cpc' = [cpc EXCEPT ![c] = "text"]
  /\ UNCHANGED <<sent, queue, len, log, unlogged, server>>

\* STOP at the prompt, or an error of the socket when no server listens.
Stop(c) ==
  /\ cpc[c] = "text" \/ (cpc[c] = "read" /\ server # "loop")
  /\ cpc' = [cpc EXCEPT ![c] = "stopped"]
  /\ UNCHANGED <<sent, answers, queue, reply, len, log, unlogged, server>>

\* Mutant: an OFF is a line like the others.
MutantMainLoop ==
  /\ server = "loop" /\ queue # <<>> /\ queue' = Tail(queue)
  /\ log' = Append(log, Head(queue)) /\ reply' = [reply EXCEPT ![Head(queue)[1]] = @ + 1]
  /\ UNCHANGED <<cpc, sent, answers, len, unlogged, server>>

\* recvfrom reads len before it sets it.  A negative one makes it fail, for ever, with the
\* line in buf: only OFF is understood.  A short one cuts the address the answer goes to.
\* The answer goes out whether or not the line was written to the log; a line of which a
\* part was written counts as not written.
main_loop ==
  /\ server = "loop" /\ queue # <<>> /\ queue' = Tail(queue)
  /\ LET c == Head(queue)[1]
         text == Head(queue)[2] IN
     IF text = OFF
     THEN server' = "off" /\ UNCHANGED <<log, unlogged, reply, len>>
     ELSE /\ UNCHANGED server
          /\ len' = IF len = "short" THEN "enough" ELSE len
          /\ \/ len # "negative" /\ log' = Append(log, Head(queue)) /\ UNCHANGED unlogged
             \/ unlogged' = unlogged \union {Head(queue)} /\ UNCHANGED log
          /\ reply' \in {reply, IF len = "enough" THEN [reply EXCEPT ![c] = @ + 1] ELSE reply}
  /\ UNCHANGED <<cpc, sent, answers>>

Next == main \/ signal_handler \/ main_loop \/ \E c \in Client : Write(c) \/ Read(c) \/ Stop(c)

\* The server's loop goes on while there is something to receive.
Fairness == WF_vars(main_loop)

Spec == Init /\ [][Next]_vars /\ Fairness

-------------------------------------------------------------------------------

Of(c) == SelectSeq(log, LAMBDA d : d[1] = c)

\* The log holds lines of each client in the order they were entered, each once; a client
\* that has its answer to a line has this line in the log, unless its write failed, which
\* the answer does not tell.
AnsweredIsLogged ==
  \A c \in Client :
    /\ \A j, k \in DOMAIN Of(c) : j < k => Of(c)[j][2] < Of(c)[k][2]
    /\ \A j \in DOMAIN Of(c) : sent[c][Of(c)[j][2]] = Of(c)[j][2]
    /\ cpc[c] = "text" =>
         \A k \in DOMAIN sent[c] : <<c, sent[c][k]>> \in {log[j] : j \in DOMAIN log} \union unlogged
    /\ \A j \in DOMAIN log : log[j] \notin unlogged

OffArrived == \E k \in DOMAIN queue : queue[k][2] = OFF
ServerEnded == server = "off"
===============================================================================
