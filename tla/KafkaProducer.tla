----------------------------- MODULE KafkaProducer -----------------------------
(***************************************************************************)
(* src/golang/kafka/producer/producer.go: HTTP handlers hand events to     *)
(* mainLoop over an unbuffered channel, which passes them to the library's *)
(* asynchronous producer.  main goes on to the signal only when            *)
(* ListenAndServe has returned; until then the signal, which NotifyContext *)
(* has taken over, has no effect.                                          *)
(***************************************************************************)
EXTENDS Naturals, FiniteSets

CONSTANTS
  Request,     \* the requests that arrive
  MaxErrors    \* bound on the errors of the asynchronous producer

NONE == "none"

VARIABLES
  req,         \* "new", "send" (to InputCh), "ok", "refused"
  loop, event, \* mainLoop: "select", "write" with its event, "done"
  input,       \* events accepted by AsyncProducer.Input()
  errors,      \* errors waiting in AsyncProducer.Errors()
  raised,      \* how many there have been
  dropped,     \* events that writeAsync has not passed on
  signalled, main   \* "start", "serve", "wait", "end_ch", "join", "end"; or "panic"

vars == <<req, loop, event, input, errors, raised, dropped, signalled, main>>

Init ==
  /\ req = [r \in Request |-> "new"] /\ loop = "select" /\ event = NONE
  /\ input = {} /\ errors = 0 /\ raised = 0 /\ dropped = {}
  /\ signalled = FALSE /\ main = "start"

\* When it fails, main says so and goes on with a nil pointer, which mainLoop and main
\* itself follow at once: the program panics.
NewProducerState ==
  /\ main = "start" /\ main' \in {"serve", "panic"}
  /\ UNCHANGED <<req, loop, event, input, errors, raised, dropped, signalled>>

\* ButtonEventsHandler: refused for its method or its body, or at ch <- be.  The server
\* takes requests until ListenAndServe returns; handlers in progress go on.
Handle(r) ==
  /\ req[r] = "new" /\ main = "serve"
  /\ \E l \in {"send", "refused"} : req' = [req EXCEPT ![r] = l]
  /\ UNCHANGED <<loop, event, input, errors, raised, dropped, signalled, main>>

\* mainLoop receives from a handler, which answers 200.
Receive(r) ==
  /\ main # "end" /\ loop = "select" /\ req[r] = "send"
  /\ req' = [req EXCEPT ![r] = "ok"] /\ event' = r /\ loop' = "write"
  /\ UNCHANGED <<input, errors, raised, dropped, signalled, main>>

\* The select of writeAsync: the event goes to the library, or an error is taken from it
\* and the event is forgotten.
writeAsync ==
  /\ loop = "write" /\ loop' = "select"
  /\ \/ input' = input \union {event} /\ UNCHANGED <<errors, dropped>>
     \/ errors > 0 /\ errors' = errors - 1 /\ dropped' = dropped \union {event} /\ UNCHANGED input
  /\ UNCHANGED <<req, event, raised, signalled, main>>

\* The library reports that an event could not be delivered.
ProducerError ==
  /\ raised < Cardinality(input) /\ raised < MaxErrors
  /\ raised' = raised + 1 /\ errors' = errors + 1
  /\ UNCHANGED <<req, loop, event, input, dropped, signalled, main>>

Signal ==
  /\ ~signalled /\ signalled' = TRUE
  /\ UNCHANGED <<req, loop, event, input, errors, raised, dropped, main>>

\* ListenAndServe returns only with an error.
ServeFails ==
  /\ main = "serve" /\ main' = "wait"
  /\ UNCHANGED <<req, loop, event, input, errors, raised, dropped, signalled>>

Signalled ==
  /\ main = "wait" /\ signalled /\ main' = "end_ch"
  /\ UNCHANGED <<req, loop, event, input, errors, raised, dropped, signalled>>

\* EndCh <- true, which mainLoop receives.
EndLoop ==
  /\ main = "end_ch" /\ loop = "select" /\ loop' = "done" /\ main' = "join"
  /\ UNCHANGED <<req, event, input, errors, raised, dropped, signalled>>

\* wg.Wait(), and the deferred Close of the producer.
Join ==
  /\ main = "join" /\ loop = "done" /\ main' = "end"
  /\ UNCHANGED <<req, loop, event, input, errors, raised, dropped, signalled>>

Next ==
  \/ \E r \in Request : Handle(r) \/ Receive(r)
  \/ NewProducerState \/ writeAsync \/ ProducerError \/ Signal
  \/ ServeFails \/ Signalled \/ EndLoop \/ Join

\* mainLoop and main go on when they can; the select of mainLoop chooses EndCh in the end.
Fairness ==
  /\ WF_vars(NewProducerState) /\ WF_vars(Signalled) /\ SF_vars(EndLoop) /\ WF_vars(Join)
  /\ WF_vars(writeAsync) /\ WF_vars(\E r \in Request : Receive(r))

Spec == Init /\ [][Next]_vars /\ Fairness

-------------------------------------------------------------------------------

\* An event that was answered with 200 is with the library, or about to be written, or
\* it was dropped, and as many errors of earlier events were reported in its stead.
AnsweredIsSent ==
  LET writing == IF loop = "write" THEN {event} ELSE {} IN
  /\ {r \in Request : req[r] = "ok"} = input \union writing \union dropped
  /\ input \intersect dropped = {}
  /\ Cardinality(dropped) + errors = raised

\* After a signal the producer ends, or has panicked at its start, if ListenAndServe has
\* failed; else it serves on.
ProducerStops == signalled /\ main \notin {"start", "serve"} ~> main \in {"end", "panic"}
===============================================================================
