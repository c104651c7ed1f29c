---------------------------- MODULE BEgressQueue ----------------------------
(***************************************************************************)
(* The egress queue of a switch port (broadcom-egress-queue.cc): FIFO      *)
(* queues grouped by priority, one more for every VOQ that is registered,  *)
(* and the choice of the next packet, DoDequeueRR.  A port is a record     *)
(*   queues     : id -> packets, in order                                  *)
(*   priorities : m_priorities[0], sequences of ids, the highest first     *)
(*   rrlasts    : m_rrlasts[0], a position for each priority               *)
(*   ctrls      : the ids that obey a pause (m_pfc_ctrls)                  *)
(*   paused     : m_paused of the port's QbbNetDevice, a partial function  *)
(*   dstQ       : m_dstQ_map, destination -> id of its VOQ                 *)
(* Rate limiters are off in the flow controls that use this module, and    *)
(* the limit on the bytes of a port is out of reach.                       *)
(***************************************************************************)
EXTENDS Naturals, Sequences, FiniteSets

\* SetPriority and SetPFCCtrl; the queues are numbered from 0.
NewPort(priorities, ctrls, queueNum) ==
  [queues |-> [id \in 0 .. queueNum - 1 |-> << >>], priorities |-> priorities,
   rrlasts |-> [k \in DOMAIN priorities |-> 0], ctrls |-> ctrls,
   paused |-> << >>, dstQ |-> << >>]

IsPaused(port, id) == id \in DOMAIN port.paused /\ port.paused[id]

\* A map with one key more, or one value changed.
Put(map, key, value) == [k \in DOMAIN map \cup {key} |-> IF k = key THEN value ELSE map[k]]

Pause(port, id, value) == [port EXCEPT !.paused = Put(@, id, value)]

Enqueue(port, id, p) == [port EXCEPT !.queues[id] = Append(@, p)]

\* RegisterVOQ, RegisterNewQ: a destination paused for the first time gets
\* a queue of its own, the last of the lowest priority.
RegisterVOQ(port, dst) ==
  LET id == Cardinality(DOMAIN port.queues)
  IN IF dst \in DOMAIN port.dstQ THEN port
     ELSE [port EXCEPT !.queues = Put(@, id, << >>),
                       !.priorities[Len(port.priorities)] = Append(@, id),
                       !.ctrls = @ \cup {id},
                       !.dstQ = Put(@, dst, id)]

MaySend(port, id) == port.queues[id] # << >> /\ (id \in port.ctrls => ~IsPaused(port, id))

\* The places DoDequeueRR looks at: <<priority, offset from the last>>.
IdAt(port, turn) ==
  LET ids == port.priorities[turn[1]] IN ids[((turn[2] + port.rrlasts[turn[1]]) % Len(ids)) + 1]

Turns(port) ==
  {turn \in UNION {{k} \X (0 .. Len(port.priorities[k]) - 1) : k \in DOMAIN port.priorities} :
     MaySend(port, IdAt(port, turn))}

CanDequeue(port) == Turns(port) # {}

FirstTurn(port) ==
  CHOOSE turn \in Turns(port) :
    \A other \in Turns(port) : turn[1] < other[1] \/ (turn[1] = other[1] /\ turn[2] <= other[2])

NextQ(port) == IdAt(port, FirstTurn(port))

\* DoDequeueRR after its search: the loop has moved on to the next priority
\* when the pointer is written, and what is written is the offset.  Behind
\* the last priority the write falls outside the vector, into memory that
\* nothing reads.
Dequeue(port) ==
  LET turn == FirstTurn(port) id == NextQ(port) below == turn[1] + 1
  IN [port EXCEPT !.queues[id] = Tail(@),
                  !.rrlasts = IF id # 0 /\ below \in DOMAIN @ THEN [@ EXCEPT ![below] = turn[2]] ELSE @]
=============================================================================
