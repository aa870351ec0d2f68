------------------------------ MODULE MCChannels -------------------------------
(***************************************************************************)
(* The Go programs around channels: a behaviour is one of SimpleMerge's,   *)
(* of UrlValidator's, of KafkaConsumer's or of KafkaProducer's, while the  *)
(* variables of the others stay at their start.                            *)
(***************************************************************************)
EXTENDS KafkaConsumer, Sequences

CONSTANTS workersCnt, Request, MaxErrors

VARIABLES
  program,
  chan, held, done, merge_out, merge_closed, received, merge_main,
  urls, sent, in, in_closed, wpc, url, resp, async, expired, responses, out_closed, filled,
  out, closed, printed, print_main,
  req, producer_loop, event, input, errors, raised, dropped, signalled, producer_main

\* main's two channels, of three and of two strings.
M == INSTANCE SimpleMerge WITH
       Inputs <- <<<<1, 2, 3>>, <<4, 5>>>>,
       out <- merge_out, closed <- merge_closed, main <- merge_main

\* Four urls in one channel, which two workers serve; and urls of all priorities.
V == INSTANCE UrlValidator WITH
       UrlLists <- {<<0, 0, 0, 0>>, <<2, 0, 1>>}, main <- print_main

P == INSTANCE KafkaProducer WITH loop <- producer_loop, main <- producer_main

mergeVars == <<chan, held, done, merge_out, merge_closed, received, merge_main>>
urlVars == <<urls, sent, in, in_closed, wpc, url, resp, async, expired, responses, out_closed,
             filled, out, closed, printed, print_main>>
producerVars == <<req, producer_loop, event, input, errors, raised, dropped, signalled,
                  producer_main>>
mcvars == <<program, vars, mergeVars, urlVars, producerVars>>

MCInit ==
  /\ program \in {"consumer", "merge", "urls", "producer"}
  /\ Init /\ M!Init /\ V!Init /\ P!Init
  /\ program # "urls" => Len(urls) = 3

MCNext ==
  /\ UNCHANGED program
  /\ \/ program = "consumer" /\ Next /\ UNCHANGED <<mergeVars, urlVars, producerVars>>
     \/ program = "merge" /\ M!Next /\ UNCHANGED <<vars, urlVars, producerVars>>
     \/ program = "urls" /\ V!Next /\ UNCHANGED <<vars, mergeVars, producerVars>>
     \/ program = "producer" /\ P!Next /\ UNCHANGED <<vars, mergeVars, urlVars>>

MCSpec ==
  /\ MCInit /\ [][MCNext]_mcvars
  /\ \/ program = "consumer" /\ Fairness
     \/ program = "merge" /\ M!Fairness
     \/ program = "urls" /\ V!Fairness
     \/ program = "producer" /\ P!Fairness

-------------------------------------------------------------------------------

\* What goes into the channels comes out once and in order, and nobody sends to a closed
\* one but a goroutine of the kafka consumer that is late; what the consumer's database and
\* the producer lose is named: see SimpleMerge!Merged, UrlValidator!Validated and
\* NoSendAfterClose, KafkaConsumer!EventsKept and KafkaProducer!AnsweredIsSent.
ChannelsKeep ==
  /\ program = "merge" => M!Merged
  /\ program = "urls" => V!Validated /\ V!NoSendAfterClose
  /\ program = "consumer" => EventsKept
  /\ program = "producer" => P!AnsweredIsSent

\* The programs come to their end: the two that read a channel until it is closed always,
\* the two of kafka after a signal, unless the library has closed the messages or the
\* HTTP server goes on.
ProgramsEnd ==
  /\ program = "merge" => M!MergeEnds
  /\ program = "urls" => V!ValidatorEnds
  /\ program = "consumer" => ConsumerStops
  /\ program = "producer" => P!ProducerStops
===============================================================================
