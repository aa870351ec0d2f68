----------------------------- MODULE KafkaConsumer -----------------------------
(***************************************************************************)
(* src/golang/kafka/consumer/consumer.go with StoreButtonEventsAsync of    *)
(* db/database.go: mainLoop turns messages into events and hands batches   *)
(* of them to goroutines that write to the database; errorHandle collects  *)
(* their errors.  The k-th message carries the event k.  A batch has       *)
(* batchSize places from the start, so len(batch) == batchSize holds at    *)
(* every message, and an event is always written to the first place.       *)
(***************************************************************************)
EXTENDS Naturals, FiniteSets

CONSTANTS
  MaxMessages, MaxStores   \* bounds on the messages and on the goroutines

NONE == 0

VARIABLES
  got,            \* messages received
  parsed,         \* events parsed from them
  batch,          \* the event in the first place of the batch
  loop,           \* mainLoop: "select", "parse" when it has failed there, "done"
  stores,         \* goroutines: number, event, and "store" or "send"
  started,        \* goroutines started
  stored, failed, \* events committed, events rolled back
  lost,           \* events that are in no row although StoreButtonEvents has returned nil
  err_closed,     \* errCh is closed
  handler,        \* errorHandle: "range" or "done"
  messages,       \* Messages() is open
  main            \* "wait" for the signal, "send" to EndCh, "join", "end", "panic"

vars == <<got, parsed, batch, loop, stores, started, stored, failed, lost, err_closed, handler,
          messages, main>>

Running == main \notin {"end", "panic"}

Init ==
  /\ got = 0 /\ parsed = {} /\ batch = NONE /\ loop = "select"
  /\ stores = {} /\ started = 0 /\ stored = {} /\ failed = {} /\ lost = {}
  /\ err_closed = FALSE /\ handler = "range" /\ messages = TRUE /\ main = "wait"

-------------------------------------------------------------------------------
\* mainLoop.

\* storeBatchAsync: a goroutine gets a copy of the batch, which is cleared.
storeBatchAsync ==
  /\ started < MaxStores /\ started' = started + 1
  /\ stores' = stores \union {<<started + 1, batch, "store">>}

\* A message arrives: the batch is stored first; then the event, if the message is one,
\* is put in its place.
Message ==
  /\ Running /\ loop = "select" /\ messages /\ got < MaxMessages
  /\ got' = got + 1 /\ storeBatchAsync
  /\ \/ batch' = got + 1 /\ parsed' = parsed \union {got + 1}
     \/ batch' = NONE /\ UNCHANGED parsed
  /\ UNCHANGED <<loop, stored, failed, lost, err_closed, handler, messages, main>>

\* A key without a colon: parseButtonEvents looks for the part after it.
MalformedKey ==
  /\ Running /\ loop = "select" /\ messages /\ got < MaxMessages
  /\ got' = got + 1 /\ storeBatchAsync
  /\ batch' = NONE /\ loop' = "parse" /\ main' = "panic"
  /\ UNCHANGED <<parsed, stored, failed, lost, err_closed, handler, messages>>

Tick ==
  /\ Running /\ loop = "select"
  /\ storeBatchAsync /\ batch' = NONE
  /\ UNCHANGED <<got, parsed, loop, stored, failed, lost, err_closed, handler, messages, main>>

\* The deferred close of errCh and wg.Done().
Return == loop' = "done" /\ err_closed' = TRUE

\* Messages() has been closed by the library, and the loop sees it.
MessagesClosed ==
  /\ Running /\ messages /\ messages' = FALSE
  /\ UNCHANGED <<got, parsed, batch, loop, stores, started, stored, failed, lost, err_closed, handler, main>>

LoopClosed ==
  /\ Running /\ loop = "select" /\ ~messages /\ Return
  /\ UNCHANGED <<got, parsed, batch, stores, started, stored, failed, lost, handler, messages, main>>

-------------------------------------------------------------------------------
\* StoreButtonEventsAsync, in the goroutine s.

\* A goroutine that sees no error.  The event is in the table, or nowhere: nobody looks at
\* the error of tx.Commit, and where SELECT has found no row the event goes into an UPDATE
\* of a row that is not there.
Commit(s) ==
  /\ Running /\ s[3] = "store"
  /\ stores' = stores \ {s}
  /\ \/ stored' = stored \union ({s[2]} \ {NONE}) /\ UNCHANGED lost
     \/ lost' = lost \union ({s[2]} \ {NONE}) /\ UNCHANGED stored
  /\ UNCHANGED <<got, parsed, batch, loop, started, failed, err_closed, handler, messages, main>>

Rollback(s) ==
  /\ Running /\ s[3] = "store"
  /\ stores' = (stores \ {s}) \union {<<s[1], s[2], "send">>}
  /\ failed' = failed \union ({s[2]} \ {NONE})
  /\ UNCHANGED <<got, parsed, batch, loop, started, stored, lost, err_closed, handler, messages, main>>

\* errors <- err, with errorHandle at the other end, or on a closed channel.
SendError(s) ==
  /\ Running /\ s[3] = "send"
  /\ IF err_closed THEN main' = "panic" /\ UNCHANGED stores
     ELSE handler = "range" /\ stores' = stores \ {s} /\ UNCHANGED main
  /\ UNCHANGED <<got, parsed, batch, loop, started, stored, failed, lost, err_closed, handler, messages>>

StoreButtonEventsAsync == \E s \in stores : Commit(s) \/ Rollback(s) \/ SendError(s)

errorHandle ==
  /\ Running /\ handler = "range" /\ err_closed /\ handler' = "done"
  /\ UNCHANGED <<got, parsed, batch, loop, stores, started, stored, failed, lost, err_closed, messages, main>>

-------------------------------------------------------------------------------
\* main.

Signal ==
  /\ main = "wait" /\ main' = "send"
  /\ UNCHANGED <<got, parsed, batch, loop, stores, started, stored, failed, lost, err_closed, handler, messages>>

\* EndCh <- true, which mainLoop receives.
End ==
  /\ main = "send" /\ loop = "select" /\ Return /\ main' = "join"
  /\ UNCHANGED <<got, parsed, batch, stores, started, stored, failed, lost, handler, messages>>

\* wg.Wait().
Join ==
  /\ main = "join" /\ loop = "done" /\ handler = "done" /\ stores = {}
  /\ main' = "end"
  /\ UNCHANGED <<got, parsed, batch, loop, stores, started, stored, failed, lost, err_closed, handler, messages>>

Next ==
  \/ Message \/ MalformedKey \/ Tick \/ MessagesClosed \/ LoopClosed
  \/ StoreButtonEventsAsync \/ errorHandle \/ Signal \/ End \/ Join

\* The goroutines and main go on when they can; the database answers, if only by the
\* timeout of StoreButtonEventsAsync.  Messages, ticks and the signal may come or not.
Fairness ==
  /\ WF_vars(LoopClosed) /\ WF_vars(StoreButtonEventsAsync) /\ WF_vars(errorHandle)
  /\ WF_vars(End) /\ WF_vars(Join)

Spec == Init /\ [][Next]_vars /\ Fairness

-------------------------------------------------------------------------------

Pending == {s[2] : s \in {t \in stores : t[3] = "store"}} \ {NONE}

\* Every event has one fate: it is in the batch, with the one goroutine that stores it, in
\* the database, rolled back with its error, or lost by its own goroutine's commit or
\* UPDATE, which nobody is told of.  No event is stored twice, and none is lost on its way
\* to the database but the one that is in the batch when mainLoop ends.  When main has
\* ended no goroutine is left; a goroutine that has an error to send panics only after
\* mainLoop has ended.
EventsKept ==
  /\ parsed = ({batch} \ {NONE}) \union Pending \union stored \union failed \union lost
  /\ Cardinality(parsed) = Cardinality({batch} \ {NONE}) + Cardinality(Pending)
                             + Cardinality(stored) + Cardinality(failed) + Cardinality(lost)
  /\ main = "end" => stores = {} /\ parsed \ (stored \union failed \union lost) \subseteq {got}
  /\ main = "panic" => loop \in {"parse", "done"}

\* After a signal the consumer ends, in order or in a panic, unless Messages() was closed
\* before: then nobody receives from EndCh, and main waits for ever.
ConsumerStops == main = "send" ~> (main \in {"end", "panic"} \/ ~messages)
===============================================================================
