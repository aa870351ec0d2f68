------------------------------ MODULE SimpleMerge ------------------------------
(***************************************************************************)
(* src/golang/channels/simpleMerge.go: Merge forwards two channels into    *)
(* one, with a goroutine for each and one that closes the result; main     *)
(* fills and closes the two, and reads the result to its end.              *)
(***************************************************************************)
EXTENDS Naturals, Sequences

CONSTANTS Inputs   \* what the two channels hold when Merge is called

VARIABLES
  chan,      \* the two channels, closed, with what is left in them
  held,      \* what each forwarder has received and not yet sent
  done,      \* forwarders that have called wg.Done
  out, closed,
  received,  \* what main has printed
  main       \* "range" or "end"

vars == <<chan, held, done, out, closed, received, main>>

Forwarder == {1, 2}

\* len(a) + len(b), when Merge makes the channel.
Capacity == Len(Inputs[1]) + Len(Inputs[2])

Init ==
  /\ chan = Inputs /\ held = [f \in Forwarder |-> <<>>] /\ done = {}
  /\ out = <<>> /\ closed = FALSE /\ received = <<>> /\ main = "range"

Receive(f) ==
  /\ f \notin done /\ held[f] = <<>> /\ chan[f] # <<>>
  /\ held' = [held EXCEPT ![f] = <<Head(chan[f])>>]
  /\ chan' = [chan EXCEPT ![f] = Tail(@)]
  /\ UNCHANGED <<done, out, closed, received, main>>

Send(f) ==
  /\ held[f] # <<>> /\ Len(out) < Capacity
  /\ out' = out \o held[f] /\ held' = [held EXCEPT ![f] = <<>>]
  /\ UNCHANGED <<chan, done, closed, received, main>>

\* Mutant: a forwarder returns without wg.Done().
MutantDone(f) ==
  /\ f \notin done /\ held[f] = <<>> /\ chan[f] = <<>>
  /\ UNCHANGED vars

Done(f) ==
  /\ f \notin done /\ held[f] = <<>> /\ chan[f] = <<>>
  /\ done' = done \union {f}
  /\ UNCHANGED <<chan, held, out, closed, received, main>>

\* wg.Wait() returns, and the result is closed.
Close ==
  /\ done = Forwarder /\ ~closed /\ closed' = TRUE
  /\ UNCHANGED <<chan, held, done, out, received, main>>

MainReceive ==
  /\ main = "range" /\ out # <<>>
  /\ received' = Append(received, Head(out)) /\ out' = Tail(out)
  /\ UNCHANGED <<chan, held, done, closed, main>>

MainEnd ==
  /\ main = "range" /\ out = <<>> /\ closed /\ main' = "end"
  /\ UNCHANGED <<chan, held, done, out, closed, received>>

Next ==
  \/ \E f \in Forwarder : Receive(f) \/ Send(f) \/ Done(f)
  \/ Close \/ MainReceive \/ MainEnd

\* The Go scheduler runs every goroutine that can go on.
Fairness ==
  /\ \A f \in Forwarder : WF_vars(Receive(f) \/ Send(f) \/ Done(f))
  /\ WF_vars(Close) /\ WF_vars(MainReceive \/ MainEnd)

Spec == Init /\ [][Next]_vars /\ Fairness

-------------------------------------------------------------------------------

\* What the two forwarders let through stays in the order of each input, and when main
\* has read to the end nothing is missing.
Merged ==
  /\ \A f \in Forwarder :
       LET Mine(v) == \E k \in DOMAIN Inputs[f] : Inputs[f][k] = v
       IN  SelectSeq(received \o out, Mine) \o held[f] \o chan[f] = Inputs[f]
  /\ main = "end" => Len(received) = Capacity

\* main comes to the end of the merged channel.
MergeEnds == <>(main = "end")
===============================================================================
