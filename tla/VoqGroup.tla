------------------------------ MODULE VoqGroup ------------------------------
(***************************************************************************)
(* A group of virtual output queues of a switch (voq.cc, voq-group.cc):    *)
(* which destination waits in which VOQ, when a VOQ is created and when it *)
(* is released.  A group is a record of two partial functions              *)
(*   VOQs     : id of a VOQ -> the packets in it, in order                 *)
(*   dst2voq  : destination -> id of its VOQ   (dynamic hash only)         *)
(* The operators are the methods; Floodgate composes them with the window  *)
(* of a destination.                                                       *)
(***************************************************************************)
LOCAL INSTANCE Integers
LOCAL INSTANCE Sequences

CONSTANTS
  VoqLimit,     \* m_voq_limit: how many VOQs the group has; 0: one per destination
  DynamicHash,  \* m_dynamic_hash: a VOQ is bound to a destination only while it holds packets of it
  APHash        \* [dst -> Nat]: the hash the code takes of the destination's id

\* A map of the code with an entry set, and one erased.
Put(f, x, y) == [z \in DOMAIN f \cup {x} |-> IF z = x THEN y ELSE f[z]]
Without(f, x) == [z \in DOMAIN f \ {x} |-> f[z]]

EmptyGroup == [VOQs |-> << >>, dst2voq |-> << >>]

\* The VOQ of a destination as a set: empty when the code returns -1.
FindVOQId(group, dst) ==
  IF VoqLimit = 0 THEN {dst}
  ELSE IF ~DynamicHash THEN {APHash[dst] % VoqLimit}
  ELSE {group.dst2voq[d] : d \in DOMAIN group.dst2voq \cap {dst}}

\* A destination without a VOQ takes a free one, the one with the largest
\* id, and shares one by its hash when all are in use.
GetVOQId(group, dst) ==
  LET found == FindVOQId(group, dst)
      free  == (0 .. VoqLimit - 1) \ DOMAIN group.VOQs
  IN IF found # {} THEN CHOOSE id \in found : TRUE
     ELSE IF free # {} THEN CHOOSE id \in free : \A i \in free : i <= id
     ELSE APHash[dst] % VoqLimit

\* FindVOQ: the packets waiting in the VOQ of a destination, if it has one.
FindVOQ(group, dst) == {id \in FindVOQId(group, dst) : id \in DOMAIN group.VOQs}

\* GetVOQ and VOQ::Enqueue.
EnqueueVOQ(group, dst, p) ==
  LET id == GetVOQId(group, dst)
      q  == IF id \in DOMAIN group.VOQs THEN group.VOQs[id] ELSE << >>
  IN [VOQs    |-> Put(group.VOQs, id, Append(q, p)),
      dst2voq |-> IF DynamicHash THEN Put(group.dst2voq, dst, id) ELSE group.dst2voq]

\* Mutant: the binding of a destination survives its last packet.
ReleaseVOQKeepDst(group, id, dst, buffering) ==
  IF DynamicHash /\ buffering = 0 /\ group.VOQs[id] = << >>
    THEN [group EXCEPT !.VOQs = Without(@, id)]
    ELSE group

\* VOQDequeueCallback: with a dynamic hash a destination that has no packet
\* left loses its VOQ, and a VOQ without packets is released.
ReleaseVOQ(group, id, dst, buffering) ==
  IF DynamicHash /\ buffering = 0
    THEN [VOQs    |-> IF group.VOQs[id] = << >>
                        THEN Without(group.VOQs, id)
                        ELSE group.VOQs,
          dst2voq |-> Without(group.dst2voq, dst)]
    ELSE group

\* VOQ::CheckAndSendOne once the window allows it: the head leaves, and what
\* it leaves behind is released.  buffering counts the destination's bytes
\* that stay.
PopVOQ(group, id, dst, buffering) ==
  ReleaseVOQ([group EXCEPT !.VOQs[id] = Tail(@)], id, dst, buffering)
=============================================================================
