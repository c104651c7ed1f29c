----------------------------- MODULE EgressPort -----------------------------
(***************************************************************************)
(* One port with a BEgressQueue, on its own: packets arrive at its data    *)
(* queues, pauses come and go, and the port sends.  Shows what the round   *)
(* robin gives to the queues of one priority.                              *)
(***************************************************************************)
EXTENDS Naturals, Sequences, FiniteSets

CONSTANTS
  QueueNum,     \* Settings::QUEUENUM
  Room          \* bound: packets in a queue

VARIABLE port   \* a record of BEgressQueue

P == INSTANCE BEgressQueue

DataQ == 1 .. QueueNum - 1

\* third.cc: queue 0 first, then the data queues, which obey pauses.
Init == port = P!NewPort(<< <<0>>, [k \in DataQ |-> k] >>, DataQ, QueueNum)

\* DoEnqueue.
Arrive(id) == Len(port.queues[id]) < Room /\ port' = P!Enqueue(port, id, "packet")

\* QbbNetDevice::Receive, a frame that pauses or resumes a queue.
ReceivePFC(id, value) == port' = P!Pause(port, id, value)

\* DequeueAndTransmit.
Serve == P!CanDequeue(port) /\ port' = P!Dequeue(port)

Next == Serve \/ \E id \in DataQ : Arrive(id) \/ \E value \in BOOLEAN : ReceivePFC(id, value)

\* A port goes on while it may send: the end of one packet, an arrival and a
\* resume all call DequeueAndTransmit.
Spec == Init /\ [][Next]_port /\ WF_port(Serve)

\* The queues of one priority are served round robin: none that waits and is
\* not paused waits for ever while its neighbours are served.  "RR in same
\* priority" (broadcom-egress-queue.cc:174), "RR of different priorities"
\* (broadcom-egress-queue.h:136).
RoundRobin ==
  \A id \in DataQ :
    \/ []<>(port.queues[id] = << >> \/ P!IsPaused(port, id))
    \/ []<><<Len(port'.queues[id]) < Len(port.queues[id])>>_port
=============================================================================
