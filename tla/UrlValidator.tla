----------------------------- MODULE UrlValidator ------------------------------
(***************************************************************************)
(* src/golang/fanIn-fanOut/validator.go: urls of three priorities go       *)
(* through three channels to a pool of workers, which ask for each url and *)
(* wait for the answer or for the deadline; merge collects the responses   *)
(* and main prints them, the high priority first.  A url is a number, and  *)
(* urls[u] is its priority.                                                *)
(***************************************************************************)
EXTENDS Integers, Sequences, FiniteSets

CONSTANTS
  UrlLists,    \* what makeUrls may return
  workersCnt   \* at least 3

Priority == {0, 1, 2}   \* High, Middle, Low
Worker == 0 .. workersCnt - 1

VARIABLES
  urls, sent,      \* the feeder's list, and how far it is
  in, in_closed,   \* chansInput: contents, and how many are closed
  wpc, url, resp,  \* of each worker: "range", "select", "send", "done"; its url and response
  async,           \* getRespAsync goroutines, as worker and url
  expired,         \* the deadline of the context is over
  responses,       \* what merge has collected from each of chansOutput
  out_closed,      \* chansOutput are closed
  filled,          \* how many responses fillOutputChannel has sent
  out, closed,     \* the channel from merge to main
  printed, main

feed == <<urls, sent, in, in_closed>>
pool == <<wpc, url, resp, async, expired>>
collect == <<responses, out_closed>>
result == <<filled, out, closed, printed, main>>
vars == <<feed, pool, collect, result>>

NONE == 0

Init ==
  /\ urls \in UrlLists /\ sent = 0
  /\ in = [p \in Priority |-> <<>>] /\ in_closed = 0
  /\ wpc = [w \in Worker |-> "range"] /\ url = [w \in Worker |-> NONE]
  /\ resp = [w \in Worker |-> <<>>] /\ async = {} /\ expired = FALSE
  /\ responses = [p \in Priority |-> <<>>] /\ out_closed = FALSE
  /\ filled = 0 /\ out = <<>> /\ closed = FALSE /\ printed = <<>> /\ main = "range"

-------------------------------------------------------------------------------
\* The goroutine that feeds the workers.

Feed ==
  /\ sent < Len(urls)
  /\ LET p == urls[sent + 1] IN
     /\ Len(in[p]) < workersCnt
     /\ in' = [in EXCEPT ![p] = Append(@, sent + 1)]
  /\ sent' = sent + 1
  /\ UNCHANGED <<urls, in_closed, pool, collect, result>>

CloseInput ==
  /\ sent = Len(urls) /\ in_closed < 3
  /\ in_closed' = in_closed + 1
  /\ UNCHANGED <<urls, sent, in, pool, collect, result>>

\* checkUrl, in worker w, which serves the priority w % 3.

p(w) == w % 3

Take(w) ==
  /\ wpc[w] = "range" /\ in[p(w)] # <<>>
  /\ in' = [in EXCEPT ![p(w)] = Tail(@)]
  /\ url' = [url EXCEPT ![w] = Head(in[p(w)])]
  /\ async' = async \union {<<w, Head(in[p(w)])>>}
  /\ wpc' = [wpc EXCEPT ![w] = "select"]
  /\ UNCHANGED <<urls, sent, in_closed, resp, expired, collect, result>>

\* getRespAsync has slept its time, and the worker takes its response: that of its url,
\* or one it has given up waiting for.
Answer(w) ==
  /\ wpc[w] = "select"
  /\ \E a \in async :
       /\ a[1] = w /\ async' = async \ {a}
       /\ resp' = [resp EXCEPT ![w] = <<a[2], "answer">>]
  /\ wpc' = [wpc EXCEPT ![w] = "send"]
  /\ UNCHANGED <<feed, url, expired, collect, result>>

\* <-ctx.Done().
Timeout(w) ==
  /\ wpc[w] = "select" /\ expired
  /\ resp' = [resp EXCEPT ![w] = <<url[w], "500">>]
  /\ wpc' = [wpc EXCEPT ![w] = "send"]
  /\ UNCHANGED <<feed, url, async, expired, collect, result>>

\* The worker hands its response to the collector of its priority.
Send(w) ==
  /\ wpc[w] = "send"
  /\ responses' = [responses EXCEPT ![p(w)] = Append(@, resp[w])]
  /\ wpc' = [wpc EXCEPT ![w] = "range"]
  /\ resp' = [resp EXCEPT ![w] = <<>>] /\ url' = [url EXCEPT ![w] = NONE]
  /\ UNCHANGED <<feed, async, expired, out_closed, result>>

WorkerDone(w) ==
  /\ wpc[w] = "range" /\ in[p(w)] = <<>> /\ in_closed > p(w)
  /\ wpc' = [wpc EXCEPT ![w] = "done"]
  /\ UNCHANGED <<feed, url, resp, async, expired, collect, result>>

checkUrl(w) == Take(w) \/ Answer(w) \/ Timeout(w) \/ Send(w) \/ WorkerDone(w)

\* The 900 milliseconds are over.
Expire ==
  /\ ~expired /\ ~out_closed /\ expired' = TRUE
  /\ UNCHANGED <<feed, wpc, url, resp, async, collect, result>>

-------------------------------------------------------------------------------
\* The rest of the pipeline.

\* Mutant: the channels are closed with the feeder, not with the workers.
MutantCloseOutput ==
  /\ in_closed = 3 /\ ~out_closed
  /\ out_closed' = TRUE
  /\ UNCHANGED <<feed, pool, responses, result>>

\* wg.Wait() of the pool returns: the workers and the feeder are done.
CloseOutput ==
  /\ in_closed = 3 /\ \A w \in Worker : wpc[w] = "done"
  /\ ~out_closed /\ out_closed' = TRUE
  /\ UNCHANGED <<feed, pool, responses, result>>

Collected == responses[0] \o responses[1] \o responses[2]

\* merge: the collectors are done, fillOutputChannel sends what they have.
FillOutput ==
  /\ out_closed /\ filled < Len(Collected) /\ Len(out) < Len(urls)
  /\ out' = Append(out, Collected[filled + 1]) /\ filled' = filled + 1
  /\ UNCHANGED <<feed, pool, collect, closed, printed, main>>

Close ==
  /\ out_closed /\ filled = Len(Collected) /\ ~closed /\ closed' = TRUE
  /\ UNCHANGED <<feed, pool, collect, filled, out, printed, main>>

merge == FillOutput \/ Close

printResult ==
  /\ main = "range"
  /\ IF out # <<>> THEN printed' = Append(printed, Head(out)) /\ out' = Tail(out) /\ UNCHANGED main
     ELSE closed /\ main' = "end" /\ UNCHANGED <<printed, out>>
  /\ UNCHANGED <<feed, pool, collect, filled, closed>>

Next ==
  \/ Feed \/ CloseInput \/ Expire \/ CloseOutput \/ merge \/ printResult
  \/ \E w \in Worker : checkUrl(w)

\* The Go scheduler runs every goroutine that can go on, and a getRespAsync that sleeps
\* wakes up.  The deadline may be over or not.
Fairness ==
  /\ WF_vars(Feed \/ CloseInput) /\ WF_vars(CloseOutput) /\ WF_vars(merge) /\ WF_vars(printResult)
  /\ \A w \in Worker : WF_vars(checkUrl(w))

Spec == Init /\ [][Next]_vars /\ Fairness

-------------------------------------------------------------------------------

Priorities(s) == [k \in 1 .. Len(s) |-> urls[s[k][1]]]

\* What is printed is in the order of priority; at the end there are as many responses as
\* urls, one for each unless the deadline was over: after it a worker may take the late
\* answer to an earlier url for that to its own.
Validated ==
  /\ LET q == Priorities(printed) IN \A j, k \in DOMAIN q : j < k => q[j] <= q[k]
  /\ main = "end" =>
       /\ Len(printed) = Len(urls)
       /\ ~expired => {printed[k][1] : k \in DOMAIN printed} = DOMAIN urls

\* Nobody sends to a channel that is closed.
NoSendAfterClose == out_closed => \A w \in Worker : wpc[w] = "done"

\* main comes to the end, whatever the deadline does.
ValidatorEnds == <>(main = "end")
===============================================================================
