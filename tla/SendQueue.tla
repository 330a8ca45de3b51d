------------------------------ MODULE SendQueue ------------------------------
(***************************************************************************)
(* What the sending side of a connection promises to the code that writes  *)
(* a response: packets leave in the order in which they were flushed, one  *)
(* for every report of the SDK, and none disappears but with the           *)
(* connection. A flush may refuse a packet, which then never was in the    *)
(* queue. The promise holds for as long as memory lasts (reliable).        *)
(***************************************************************************)
EXTENDS Integers, Sequences

VARIABLES queue, reliable

Init == queue = <<>> /\ reliable = TRUE

\* One packet, whatever it is, comes behind the packets q.
OneBehind(q) ==
  /\ Len(queue') = Len(q) + 1
  /\ \A i \in DOMAIN q : queue'[i] = q[i]

\* A packet is flushed.
Flushed == OneBehind(queue)

\* The oldest packet is sent.
Sent == queue # <<>> /\ queue' = Tail(queue)

\* The oldest packet is sent, and the next part of the response is flushed.
SentAndFlushed == queue # <<>> /\ OneBehind(Tail(queue))

\* The connection is gone.
Closed == queue' = <<>>

\* Without memory no promise is made, and memory does not come back.
Next ==
  \/ reliable = TRUE /\ reliable' = TRUE /\ (Flushed \/ Sent \/ SentAndFlushed \/ Closed)
  \/ reliable' = FALSE

Spec == Init /\ [][Next]_<<queue, reliable>>
=============================================================================
