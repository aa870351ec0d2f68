-------------------------------- MODULE MsgFifo --------------------------------
(***************************************************************************)
(* What the log's message queue promises: messages come out in the order   *)
(* they went in, each one once, until the queue is thrown away.            *)
(***************************************************************************)
EXTENDS Sequences

CONSTANTS Msg, None

VARIABLES queue,  \* the messages in the queue, oldest first
          taken   \* the reader's buffer

Init == queue = <<>> /\ taken = None

Put(m) == queue' = Append(queue, m) /\ UNCHANGED taken

Clear == taken' = None /\ UNCHANGED queue

Take == queue # <<>> /\ taken = None /\ taken' = Head(queue) /\ queue' = Tail(queue)

Discard == queue' = <<>> /\ UNCHANGED taken

Next == (\E m \in Msg : Put(m)) \/ Clear \/ Take \/ Discard

Spec == Init /\ [][Next]_<<queue, taken>>
===============================================================================
