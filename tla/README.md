# Pyrrha-NS3: a verification project

The repository is a packet-level simulator of datacenter networks: ns-3 with
RDMA hosts, shared-buffer switches and several hop-by-hop flow controls (PFC,
Pyrrha's congestion isolation, Floodgate, BFC, destination PFC over VOQs). Its
README names `switch-node.cc/h` and `switch-mmu.cc/h` as the core logic; those
are what this project models first. Paths below are relative to
`src/src/point-to-point/model/` unless they begin with another directory.

A discrete-event simulator runs one event handler to its end before the next,
so a handler is one atomic action here. What interleaves is the order of
events: arrivals, transmissions, control frames and scheduled rounds of
different devices, all of which take time to get somewhere.

## 1. The system

| component | state it keeps | operations | talks to |
|---|---|---|---|
| Switch MMU, PFC accounting (`switch-mmu.cc:94-182`) | `ingress_bytes`, `hdrm_bytes`, `shared_used_bytes`, `egress_bytes`, `paused` | admission, update and removal at ingress and egress, pause and resume tests | called by the switch node |
| Switch node, data path (`switch-node.cc:217-540`) | `m_bytes`, and the queues of its devices | `SendToDev`, `SwitchNotifyDequeue` | MMU, devices |
| Switch node, PFC (`switch-node.cc:902-976`) | `m_paused` of the devices | `CheckAndSendPfc`, `CheckAndSendResume`, `SwitchReceivePFC` | neighbours, by frames |
| Congestion isolation (`switch-node.cc:676-744`, `982-1444`, `switch-mmu.cc:904-1034`) | CAM entries, the CIQs, `upstream_paused`, `m_paused` | `ReceiveCI`, `NotifyEnqueue_CI`, `NotifyDequeue_CI`, `DoHierQRR` | neighbours, by CI packets |
| QbbNetDevice (`qbb-net-device.cc`) | transmitter, `m_paused`, queue 0 for control, a host's queue pairs | `DequeueAndTransmit`, `Receive`, `SendPfc`, `SendCIPacket`, `Resume` | channel, node, RDMA driver |
| QbbChannel (`qbb-channel.cc`) | none besides events in flight | `TransmitStart` | both devices |
| Floodgate (`switch-mmu.cc:234-786`, `switch-node.cc:1447-1666`) | windows, PSNs, timers, VOQs | `CheckVOQWin`, `ResumeVOQWin`, `SendSwitchACK`, `SendSYN`, `SynTimeout` | neighbours, VOQ groups |
| VOQ, VOQGroup (`../util/voq*.cc`) | packets by destination, map from destination to VOQ | `GetVOQ`, `Enqueue`, `CheckAndSendAll`, `Dequeue` | Floodgate |
| BFC (`switch-mmu.cc:789-869`) | flow table, pause counters | queue assignment, count and discount of pauses | switch node |
| VOQ + destination PFC (`switch-mmu.cc:872-900`) | `m_buffering_bytes`, `m_buffering_egress_bytes` | `CheckVOQPause`, `CheckVOQResume` | switch node |
| BEgressQueue (`src/src/network/utils/broadcom-egress-queue.cc`) | queues by level and priority, round robin pointers | enqueue, `DoDequeueRR`, `RegisterCIQ`, release | devices |
| RDMA transport (`rdma-hw.cc`, `rdma-operation.cc`, `rdma-queue-pair.cc`) | sequence numbers, IRN bitmap, timers | send, receive, go-back-N and selective repeat | devices |
| Congestion control (`rdma-hw.cc`) | rates and windows in floating point | DCQCN, HPCC, TIMELY, DCTCP, Swift, MIBO | transport |
| Routing (`switch-node.cc:758-891`) | tables, DRILL memory | ECMP hash, DRILL choice | switch node |
| Scenario (`src/scratch/third.cc`, `settings.cc`, `flow-generator.cc`) | configuration | topology, traffic, statistics | everything |

### What is hard, and what makes each part correct

*PFC.* The release of a packet does not know where its admission charged it,
so the counters must stay exact whatever order packets leave in; a paused
ingress is resumed only when one of its own packets leaves; frames and packets
cross on the link; the shared budget is an unsigned subtraction; and PFC is
worth its name only if the headroom covers what is sent before a pause lands.

*Congestion isolation.* A tree of paused queues spreads over switches, each
knowing its neighbours only. Every relation is kept twice: a CIQ's status in
the CAM entry and in the device, a child's status at the parent and at the
child itself. Pauses, resumes, deallocs and merges cross packets and each
other. Correct means the copies agree, packets keep their order through
changing queues, nothing waits for ever, flows that avoid the congestion are
not held back, and the tree is dismantled at the end.

*Floodgate.* A window per destination is charged at one switch and given back
by the next, through counters withheld, timers and switch ACKs. Credit must be
neither lost nor doubled; packets let through must not overtake those in a VOQ;
VOQs shared by several destinations and windows that wait for each other must
not close a circle; and what loss does to two sets of absolute counters has to
be found and repaired by SYN.

*VOQ groups.* A limited number of VOQs is bound to destinations and released
while other destinations wait in the same one.

*BFC and VOQ + destination PFC.* Both pause less than a priority: one queue of
the neighbour, or one destination. BFC assigns flows to queues on the fly, so
a pause is counted under a queue the flow may have left; a VOQ is created when
the first pause arrives, so packets of a flow lie in two queues at once.
Correct means the two ends of a link agree, no pause outlives its reason, and
packets stay in order.

*BEgressQueue.* It promises round robin among the queues of a priority.

*RDMA transport.* A message is reported complete at both ends, each with its own
records, while data, ACKs, NACKs and two kinds of timers are late, lost or both.

`PROJECT.json` lists the hazards at their lines with the properties that would
catch them.

## 2. Modules

| module | what it models |
|---|---|
| `SwitchMmu` | the memory management unit under PFC: counters, admission, thresholds |
| `PfcHop` | one PFC hop: upstream devices, links, the switch, its downstream devices; uses `SwitchMmu` |
| `Sums` | `CellSum`, the sum of a function, in the form the proofs can use |
| `PfcHopProofs` | types, the shared budget, alternation of frames, no loss; exactness of all byte counters, what a paused ingress holds, the buffer as a whole |
| `CongestionIsolation` | switches, links and hosts under congestion isolation |
| `CiRoutes` | what routes owe congestion isolation: distances to roots and the trees of upstream devices |
| `CiHandlerProofs` | what each handler of a switch under congestion isolation preserves |
| `CiProofs` | the invariant of the system from event to event, and the theorems, order included |
| `VoqGroup` | a group of VOQs as a data structure: binding, hashing, release |
| `Floodgate` | switches, links and hosts under Floodgate; uses `VoqGroup` |
| `QueueProofs` | lemmas that several proofs cite: sums over queues, order in queues, smallest and greatest elements |
| `FloodgateInvariant` | what holds between any two events of Floodgate: VOQs, windows, absolute counters, the order of packets from hop to hop; and what a handler of a switch does to it |
| `FloodgateProofs` | that Floodgate keeps it, handler by handler and event by event, and the theorems |
| `BEgressQueue` | the egress queue of a port as a data structure: priorities, registration, `DoDequeueRR` |
| `QueuePfc` | switches, links and hosts under BFC or VOQ + destination PFC; uses `BEgressQueue` |
| `QueuePfcProofs` | that both ends of a link agree on what is paused under BFC and VOQ + destination PFC |
| `EgressPort` | one port of `BEgressQueue` on its own |
| `Transfer` | abstract: what the transport promises of a message |
| `GoBackN`, `Irn` | the transport with each recovery scheme; both implement `Transfer` |
| `GoBackNProofs`, `IrnProofs` | their invariants and refinements |
| `MCPfcHop`, `MCPfcDst`, `MCCiChain`, `MCCiFork`, `MCFloodgate`, `MCQueuePfc`, `MCGoBackN`, `MCIrn` | instances for TLC |

Settings of the simulator that are read before it starts are chosen in the
initial state: `Configuration` is a set of records, the variable `settings` is
one of them and never changes. One run covers several configurations that way,
and a theorem covers all of them. The settings an operator reads have names of
their own (`DeallocOn`, `ByteCounter`, ...).

A handler ends, in the code, with an attempt to transmit; whether the
transmitter is idle depends on when it started its last packet. Time is not
modelled, so a transmission is an action of its own that comes at any time
after, which covers both cases. Control frames leave through queue 0, which
has strict priority, and are put on the link by the handler that sends them.

### SwitchMmu and PfcHop

The MMU's arrays are functions from port and "fine" (a priority under
`PAUSE_PG`, a destination under `PAUSE_DST`). `a >> pfc_a_shift` is a division by
`Alpha`. The threshold's unsigned subtraction wraps modulo `UintRange`; the other
counters are integers, which `TypeOK` keeps from falling below zero. Sums over
ports and over queues are cardinalities of histograms (`Sums!CellSum`), because the
library's theorems on cardinality apply to that form, and no induction is
needed to see what one packet more adds.

| action | code |
|---|---|
| `UpstreamSend` | a packet of the upstream device goes on the link (`qbb-net-device.cc` `DequeueAndTransmit`) |
| `SendToDev` | arrival at the switch: admission, drop or enqueue, `CheckAndSendPfc` |
| `Dequeue` | transmission and `SwitchNotifyDequeue`: release, `CheckAndSendResume` |
| `ReceivePfc` | the upstream device handles a PFC frame |
| `SwitchReceivePause`, `SwitchReceiveResume` | the switch's own egress queue is paused and resumed by the next hop |

The link holds at most `WireCap` packets; a frame takes at most `FrameDelay`
transmissions of the upstream device to take effect. Together they are the
round trip the headroom has to cover (`src/scratch/third.cc:4486` configures four
bandwidth-delay products). `DownCap` bounds how often the next hop may pause
without having received a packet: a pause is sent only on an enqueue.

Not in the model: `pfc_mode` `PAUSE_OFF` (no scenario sets it), ECN, routing
(a packet kind carries its egress), the branches of the same handlers for the
other flow controls.

### CongestionIsolation

State of a switch: `entries` (the CAM), `rootChild` (`upstream_paused`), the
default queue `oq` and a CIQ per port and root, `paused` (`m_paused`), `hier`
(whether `DoHierQRR` is scheduled) and `hol` (the threshold made of
`bytes_up_data`). A port is named by the node at its other end. A CIQ is named
by its root: `oport_ciq` and `ciq_root_map` are a bijection from roots to queue
numbers at each port, so the numbers carry nothing else.

| action | code |
|---|---|
| `HostSend` | the host's device picks a flow that is not held back (`GetNextQindex`, `PAUSE_SPOT`) |
| `HostReceive` | data for the receiver, or a CI signal at the sender |
| `Receive` | `SendToDev` for data (`MatchQ`, `NotifyEnqueue_CI`), `ReceiveCI` for a signal |
| `Transmit` | a device transmits data of its default queue, with `NotifyDequeue_CI` |
| `DoHierQRR` | one round of the hierarchical scheduler over all ports; ports that are idle may transmit at once |

The pieces of the handlers are operators from one state of a switch to the
next, composed in the order of the calls in the code. `wire` and `ctrl` collect
what a handler transmits and which signals it schedules; they are empty
between handlers. Signals leave through queue 0, which has the highest
priority, so they precede data the device has not started to transmit; the
model appends both to the link in that order.

Parameters: `PauseTh` and `ResumeTh` in packets (all packets have one size), the
settings `congestion_merge`, `dealloc_on`, `only_down_port_enable`, and `hol`, the
values the thresholds of up ports may have. `bytes_up_data`
(`switch-mmu.h:210`) is read at `switch-mmu.cc:966` and assigned nowhere, so each
switch gets an arbitrary one of the thresholds in `settings.hol`. `nearest_match` stays at its default
(false); routing is by the path in the routing tag. `WireCap` bounds the data
packets on a link.

### VoqGroup and Floodgate

The code keeps two sets of counters, `m_wins` for credits and absolute PSNs;
both are functions of one state. `nxtData` and `rcvAck` count the bytes sent and
given back from the start, so that `m_wins` is `Window - (nxtData - rcvAck)`; a
counter of credits due is `nxtAck - lstAck`. The two modes differ in what a frame
carries and how it is applied.

| action | code |
|---|---|
| `HostSend` | a host's packet reaches its ToR: `SendToDev`, `CheckVOQWin` |
| `Receive` | `ReceiveData` (`SendToDev`), `ReceiveAck` (`ResumeVOQWin`, `RecoverWin`, then the VOQs), `ReceiveSYN` (`CheckSYN`) |
| `Transmit` | `DequeueAndTransmit` with `SwitchNotifyDequeue`: credits counted, switch ACKs sent when due |
| `CreditTimeout` | the credit timer of an ingress or destination |
| `SynTimeout` | `SynTimeout`, `GetSwitchSYNTag`, `SendSYN` |

Loss is a choice of the receiver's error model or of admission control, up to
`maxLoss`. A SYN is dequeued without ever having been admitted; with assertions
on, `RemoveFromEgressAdmission` then ends the program (`aborted`, setting
`ndebug`). `burst` is a bound, not a setting of the code: the packets of a host
reach its ToR back to back.

The loops over VOQs and destinations (`CheckAndSendVOQ`, `CheckAndSendAll`) are
one recursive function, `SendWhile`: a line of turns, of which the first sends a
packet and lines up again, or leaves. It takes as many steps as there are
turns and bytes in VOQs; by then no turn is left, because each step sends at
least a byte or shortens the line. The maps of a `VOQGroup` are functions whose
domains grow and shrink with `Put` and `Without`.

### BEgressQueue, QueuePfc and EgressPort

A port is a record, and `BEgressQueue` gives the operators on it. `DoDequeueRR` is
translated as it is, pointers included: it looks for the first queue of the
highest priority, from the pointer on, that holds a packet and is not paused;
the pointer it then writes is that of the next priority.

| action of `QueuePfc` | code |
|---|---|
| `HostSend` | a QP that is not paused sends (`GetNextQindex`, `DequeueQindex`), its packet reaches the ToR: `SendToDev` with `MatchQ` |
| `Transmit` | `DequeueAndTransmit` with `SwitchNotifyDequeue`: flow table, counters, resumes |
| `Receive` | data at the next switch (`SendToDev`), or a pause frame (`SwitchReceivePFC`, or the NIC's part of `QbbNetDevice::Receive`) |

`fc_mode` is in `settings`. Under BFC the number of a queue in a new flow entry is
not initialised when `GetUsableQ` reads it, and its conditions bind `&&` before
`||`; `TableSeen` and `UsedQ` keep both. Whether the sticky time of an entry is
over is a free choice. `egress_bytes` and the `m_buffering` counters change with
the queues and are read off them; bytes are packets of one size, and all links
have one bandwidth-delay product.

### Transfer, GoBackN and Irn

One queue pair, its messages, the receiver and the links between, which keep
the order and may lose up to `maxLoss` packets or answers.

| action | code |
|---|---|
| `SendAny` | `ShouldSndData` and `GetNxtPacket`; with IRN also the entries they drop (`Settle`), resend (`Resend`) and add (`SendNew`) |
| `ReceiveAnswer` | `ReceiveAck`: `Acknowledge`, `Recover`, `AckIrnState`, `SackIrnState`, `MsgComplete` |
| `ReceiveData` | `ReceiveUdp` with `ReceiverCheckSeq` (go-back-N) or `UpdateIrnState` (IRN) |
| `Timeout` | `RecoverMSG`, the timeout of the queue pair. It resets one of the messages that are all sent, if there is one, and any others whose timer is over; that a timer set for one message alone may fire while another is all sent is left out, since the two resets commute |
| `PacketTimeout` | `IrnTimerHandler`, the timer of a packet |
| `Lose` | an admission or error model drops what is first on a link |

Sequence numbers count packets. `IsWinBound` keeps the unsigned subtraction of
`GetOnTheFly`. When a timer fires is free, so the timers of length zero that the
code ends up with (`SetUpIrn` is never called) are among the behaviours.

`Transfer` says: a message is reported at the receiver once, with all its packets
there, and at the sender once, after that. Both modules instantiate it with
`got <- received` and `finished <- [m \in Msg |-> list[m] = "finished"]`; `Refines` is
its specification.

## 3. Runs

| run | instance | checks |
|---|---|---|
| `PfcHop` | 2 ingresses into 1 egress, dynamic thresholds (alpha 2 and 1), packets of 1 and 2 units, headroom for exactly the packets in flight | all properties of `PfcHop`; `PauseEnds` under fairness |
| `PfcDst` | a ToR for `srcToR_dst_pfc` without dynamic thresholds: one port paused per destination (two of them) with a static threshold, one paused per priority with a dynamic one, an uncontrolled queue with a short limit, shared-buffer check on | `PausedHoldsBytes` while the dynamic threshold wraps and packets are dropped for lack of headroom and at the egress |
| `CiChain` | 2 senders, ToR, spine, ToR, receiver; 2 or 3 packets; five settings: shipped with three packets, with a packet from each sender, up ports as roots, without dealloc, without merge | types, agreement of all copies, order, no deadlock; unmerged trees vanish |
| `CiFork` | 1 sender, 2 receivers, the link to the first may never transmit | the other flow is delivered |
| `CiLeak` | shipped settings, 2 packets | violated: see findings |
| `Floodgate` | 4 ToRs, an aggregation switch and a core; an incast under three settings, traffic both ways, loss under two settings | credit, order, VOQs, no stall, absolute counters, SYN |
| `FgSynFresh` | the last switch ACK is lost | violated |
| `GoBackN` | messages of 3 and 2 packets; window none, 1 or 2; with or without NACK reaction and timeout; 0 or 2 losses | types, `AckedDelivered`, refinement; lossless transfers finish |
| `GbnDrop` | one message, one packet lost, both reactions on | violated |
| `Irn` | messages of 1 packet and 3; 1 or 2 losses | `NothingForgotten`, `AckedStaysAcked`, refinement; drops never keep a message from finishing |
| `QueuePfc` | 4 hosts at 2 switches, 2 data queues; BFC under four settings, destination PFC with three metrics | agreement of the two ends, order, no stall |
| `EgressPort` | 2 data queues of one priority, 2 packets each | violated |

Why the bounds suffice.

*PFC.* The shared buffer is smaller than what one upstream device can send, so
both ingresses pass the threshold, use headroom, pause, resume and interfere
through the shared threshold. The queues need no bound: PFC bounds them, and
in `PfcDst` the check of the shared buffer. There `DownCap` is 0: the downstream
device never pauses, which for a safety property is no loss, since a dequeue
may be late anyway.

*Congestion isolation.* With `only_down_port_enable` the two ports towards the
receiver can be roots, one while the other already is: trees overlap and
merge, a merge finds the old entry held by packets or already gone, and a
dealloc and a pause cross on a link. The up port of the first ToR becomes a
third root when up ports are controlled too. The second sender gives an entry
of the first ToR two children. `PauseTh` 0 makes each waiting packet a cause of
congestion, and one data packet per link leaves signals and data to cross at
every hop. Not exercised: more than three switches on a path, several CIQs of
one root on different ports of one switch, more than one packet per link.

*Floodgate.* The window is one and a half packets in the incast, so full windows,
a short last packet that would fit, and a VOQ that two destinations share all
occur; a byte counter of 3 withholds credits, one of 100 leaves them to the
timer. Both ways, three packets each with windows of one are the fewest with
which the two directions would wait for each other if their destinations were
in one group (the circle needs a VOQ of each of two switches to be blocked by
the other direction); to keep that setting small the packets of a host come in
a burst. Two losses cover a lost packet whose SYN or switch ACK is lost, too.

*QueuePfc.* Two data queues and thresholds of one packet make pauses, resumes and
reassignments frequent. Reached are: a pause and a resume of one queue on a link
together, a counter of two, two flows in one paused queue, two flows of a host
stopped by one frame, two ingresses paused for one destination, a host and a
switch paused at once, and a VOQ with packets after its resume beside older
packets in the common queue.

*Transport.* Three packets are the fewest in which a gap, a packet after the gap
and one still to be sent differ; two losses reach a lost retransmission. In `Irn`
one loss may be that of an answer (a run with two finds no more and takes twice
as long; the theorems cover any number). The second message shows the lists
and the one timer shared.

`CHECK_DEADLOCK FALSE` stands wherever the bounded traffic ends: the system
stops when all has arrived. `NoStall` or a liveness property takes the place of
the deadlock check and says that it stops only then.

### Properties worth naming

* `AccountingExact` ties every byte counter to the contents of the queues.
  `SharedWithinBudget` keeps the unsigned threshold from wrapping;
  `BufferNotExceeded` says the whole of the switch fits into its buffer though no
  test looks at the whole. `PausedHoldsBytes` is why `PauseEnds`: a pause ends
  because a packet of the paused ingress is there to be dequeued. `PfcDst` checks it
  where `SharedWithinBudget` fails: the destinations of a port with a static
  threshold take more than the shared budget, and the threshold of the other
  port is then huge, until the buffer drains and it is small again.
  `FramesAlternate` is the assertion in `Resume` (`qbb-net-device.cc:546`),
  `NoHeadroomDrop` is losslessness.
* `StatusAgrees` and `PauseAgreement` (congestion isolation) relate the two
  copies of a status, the second through the signals still on the link.
  `CounterExact` ties `iport_counter` to the CIQs, `CiqServed` covers the assertions
  of `NotifyDequeueFromCIQ_CI`. `NoStall`, `Isolation`, `InOrder`, `TreesReleased` are
  the promises of the protocol as a whole.
* `WindowConserved`: for every hop and destination, what was sent is what was
  acknowledged, held or under way, with either set of counters. `HeadLacksWindow`:
  a VOQ waits only for lack of window. `VoqAccounting`: packets are where their
  destination is bound. `PsnOrder` and `UnderwayNotReceived` say what absolute
  counters may never do under loss, `SynSettles` what an answered SYN repairs.
* `PauseAgreement` (`QueuePfc`): each reason counted is carried by a packet in a
  queue, and the neighbour holds back what this switch wants, once the frames
  on the link have arrived. The exception is the id 0 under BFC: a NIC ignores
  frames for its ACK queue (`qbb-net-device.cc:600`), and the first QP has id 0
  (`src/scratch/third.cc:229`), so that QP is never paused.
* `InOrder` (`QueuePfc`): under VOQ + destination PFC it rests on the search of
  `DoDequeueRR` beginning at the first queue every time. With the round robin
  repaired, the queue of a VOQ may be served before older packets of the same
  flow in the common queue.
* `NothingForgotten`: under IRN every packet marked as sent and not acknowledged has
  a timer, an entry in the queue of retransmissions, or is still to be sent. The
  third case is real: sending anew after `snd_nxt` went back, `SendNewPacket` marks
  one packet more than was sent (it needs a second message with packets never sent
  when a timeout goes back, hence the sizes 1 and 3 of run `Irn`). `AckedStaysAcked`: a SACK never
  takes an acknowledgement back. `AckedDelivered`: under go-back-N the sender takes
  for delivered only what the receiver has accepted in order.

### Fairness

`PfcHop`: a scheduled event happens. Weak fairness for arrival on each link,
arrival of frames, and transmission by an egress device with something
unpaused to send; the next hop's pause ends (it is a switch of the same kind).
Nothing makes an upstream device send. `CongestionIsolation`: weak fairness of
"any event besides a transmission on a congested link" -- the simulator runs on
while an event is scheduled. Every event consumes something (a packet's
progress or a signal), so no finer fairness is needed for `Isolation`. For the
same reason a round of `DoHierQRR` that moves nothing is a stuttering step.
`GoBackN` and `Irn`: weak fairness of sending (an idle device asks its queue
pairs), of arrival in each direction and of timers (events that are scheduled);
none of loss. `EgressPort`: weak fairness of serving -- the end of a packet, an
arrival and a resume each call `DequeueAndTransmit`. `Floodgate` and `QueuePfc` check
safety and what holds when nothing is left to do, without fairness.

### Findings

`CiLeak`. When a merge reaches a switch that holds nothing for the new root,
`ReceiveCI` creates a CAM entry and a CIQ with status RESUME
(`switch-node.cc:1121-1138`). `CheckAndSendDealloc` runs on a dequeue from that
CIQ, on a resume for it, or on a dealloc from further up. If no more packets
take this path there is none of the three, and the entry, the CIQ and the
root's record of this switch stay, although the node is a leaf with an empty
CIQ, for which the comment at `switch-node.cc:1353-1357` promises release and a
dealloc signal. Later traffic through the CIQ cures it. Without merge
(`TreesReleasedUnmerged` in `CiChain`) all trees disappear.

`FgSynFresh`. `GetSwitchSYNTag` names a destination whose last switch ACK came
*within* the last period, where its comment (`switch-mmu.cc:766`) asks for one that
has been silent. When the last ACK is lost no SYN asks for it.

`GbnDrop`. Under go-back-N `ReceiveUdp` also records packets beyond a gap, so the
lost packet, once it arrives, completes the message; its ACK carries only the
number behind that packet, the rest is sent again, and a completed message is
not answered any more. The sender never reports the message, whatever the
reaction to NACKs and the timeout, though `settings.h:351-354` says only their
absence does that.

`EgressPort`. `DoDequeueRR` writes its pointer after the loop has moved on to the
next priority (`broadcom-egress-queue.cc:237`), and writes the offset of the
search. The pointer it reads stays 0 and a busy queue starves the later ones of
its priority, against "RR in same priority" (line 174). If the priority served is
the last, the write falls behind the end of the vector.

Met while reading, outside what a run shows: with `ctrl_all_egress` the loop of
`SwitchReceivePFC` overwrites the destination by the first device's VOQ id
(`switch-node.cc:931`); with `reset_only_ToR_switch_win` a window is registered
under the id of a ToR and looked up under the host's (`switch-mmu.cc:266`), so
nothing would be sent; `SendPfc` reads the length of queue `qIndex` even where
`qIndex` is a destination or a QP (`qbb-net-device.cc:679`), into a field nobody
reads.

## 4. Proofs

Checked by TLAPS, for every value of the constants that the named assumptions
allow (`MmuTypes`, `BudgetIsPositive`, `HopTypes`, `GoBackNParameters`,
`IrnParameters`, `CiParameters`, `EqualCost`, `QueuePfcParameters`,
`FloodgateParameters`, `FlowsRouted`).

`PfcHopProofs`:

* `TypeCorrect`: `Spec => []TypeOK`, action by action; inductive as it stands.
* `SharedAccountingCorrect`: `shared_used_bytes` is the sum over ingresses of
  what they hold above the reserve. Inductive with `TypeOK`. `SharedByAdmission`
  and `SharedByRelease` show that an admission or release changes the counter as
  much as the excess of the one ingress it touches; `CellsChange` shows the sum
  of a histogram changes by the change of one entry.
* `BudgetKept`: the shared buffer is not overdrawn if all thresholds are
  dynamic. From `TypeOK` and the budget: an admission into the shared buffer
  passes the threshold test, and a threshold is at most what is left of the
  budget (`ThresholdBound`); before the budget is overdrawn the unsigned
  subtraction is a plain one.
* `FramesAlternateCorrect`: the frames on the way to an upstream device
  alternate, start with what it is not, and end with what the switch believes.
  Sending needs `paused` to change; receiving takes the first frame off.
* `Lossless`: nothing is dropped at the headroom if `m` bounds the packet size
  and each headroom is at least `m * (WireCap + FrameDelay)`. The invariant is
  `LossInv(m)`: types, alternation, packets being on the link of their ingress,
  and `HeadroomFits(m)`: what an ingress has in its headroom, plus `m` for each
  packet on the link, plus `m` for each the upstream device can still send
  before it is paused, is at most the headroom. `NoHeadroomDrop` alone is not
  inductive: it says nothing of how full the headroom may be when a pause is
  still on its way.

Also in `PfcHopProofs`, for the byte counters:

* `AccountingCorrect`: every byte counter is the sum of the sizes of the packets
  it stands for. Inductive are `TypeOK`, `OwnQueue` (a packet is in the queue of its
  own egress) and `AccountingExact` together: the release of a packet must find
  its bytes still counted. Sums are cardinalities of sets of cells, one cell for
  each byte of each packet in a queue, so what an append or a tail does to a sum
  follows from facts about finite sets, not from induction along the queue.
* `PausedHolds`: a paused ingress holds bytes, from the same invariant and the
  fact that a resume is tested on every release.
* `BufferKept`: with dynamic thresholds and one lossless class per ingress
  (`own`), what is in the switch fits into its buffer. `RoomInv(own)` bounds each
  ingress by reserve, shared part and headroom; it is inductive with `TypeOK` and
  `SharedWithinBudget`, and the bounds are added up by `CellsBelow`.

`GoBackNProofs`: `IInv` is `TypeOK`, `AckedDelivered`, and three facts about what is
under way: an answer says no more than the receiver has (`AnswersTrue`), data
belongs to its message (`DataOfMessage`), and a message is finished or complete for
a reason (`DoneForAReason`). `AckedDelivered` alone is not inductive, because an ACK
under way could say anything. From `IInv`: `TypeCorrect`, `AckedIsDelivered` and
`Refinement` (`Spec => Refines`): a reception is an `Arrive`, the last ACK a `Finish`,
everything else a stutter.

`IrnProofs`: `IInv` is types, `DataOfMessage`, `WindowCovers` (at the receiver, what
has arrived lies before `next`, and a message is complete exactly when all of it
has arrived), `AnswersTrue`, `AckedTrue` (the sender takes for acknowledged only
what has arrived) and `GapsOpen`: no packet in the gap that a SACK under way
reports is acknowledged at the sender or by an answer before it. From it
`AckedStays` (links keep the order of answers, so a SACK never meets an
acknowledgement inside its gap) and `Refinement`.

`TypeCorrect` and `NoneForgotten` (`Spec => []NothingForgotten`) need a second
invariant, `SenderInv`. `NothingForgotten` is not inductive: `snd_nxt` goes back, and
not always to where it was, so `snd_nxt <= k` does not keep a packet from being
forgotten when the next timeout moves `snd_nxt` up to `snd_una`. `Provided` says
instead that a packet marked too early was never sent (`NeverSent`): no timer, no
entry, nothing on a link and no acknowledgement has its number or a greater one. It
also says that a packet not marked was never sent. `WaitsTimed` is what lets a
message wait. What `ShouldSndData` keeps of a queue is in Irn a function of
the ranks of its open entries (`Requeued`), because no prover knows `SelectSeq`;
`Ranks` and `RequeuedOpen` show that it holds exactly the open entries.

`CiHandlerProofs` and `CiProofs`: the types and safety of congestion isolation, for
every fabric, every set of flows, thresholds and settings.

* What is said of one switch is `Sane(s, n, pausedBefore)`: types (`State`); every
  entry, child and signal belongs to the tree of its root (`OnTree`); a packet is
  in a queue of the port it leaves by, in a CIQ only if it crosses its root
  (`InPlace`); `m_paused` and `oport_status` agree (`Agree`); a CIQ that holds a packet
  is registered and a round is scheduled (`Served`); `iport_counter` is exact
  (`Counted`); and what is on record of an upstream device is what the signals
  scheduled will make of it (`Told`), where `pausedBefore` says what the device
  will be without them. None of the properties is inductive alone: a counter
  is exact only because a merge or a release never removes a CIQ with packets
  (`Served`), and `PauseAgreement` needs that each signal comes from a tree
  neighbour, so that a switch obeys it as its sender thinks it does.
* Each piece of a handler keeps a switch sane whatever `pausedBefore` is
  (`CiHandlerProofs`: `EnqueueCIQSane`, `DequeueCIQSane`, `ReleasedSane`, `JoinedSane`,
  `MergedSane`, ..., up to `ReceiveDataSane`, `ReceiveCISane`, `RoundSane`). A piece is
  first shown to do what a named predicate says (`Notified`, `Released`, `Joined`,
  `Merged`), and that to keep the switch sane.
* `CiInv` says that every switch is sane with `Reaching`, what the signals on its
  links will make of the devices at their ends (`PausedAfter`). When a handler
  ends, its signals move to the links, which changes both sides alike
  (`SwitchStep`); the device that takes a signal off a link obeys it (`PausedBy`).
* Induction over a round (`DoHierQRR` visits ports and CIQs one by one) is done
  with the least index at which a claim would fail (`Least`), since an induction
  theorem with an operator parameter cannot be used.
* The theorems: `TypeCorrect`, `NoCiqAbandoned`, `CountersExact`, `StatusesAgree`,
  `PausesAgree`.
* `CiParameters` says that a path leads from a host through switches to a host
  without meeting a node twice, and that a host has one device. `EqualCost` is what
  the protocol needs of routing: all routes from a switch to a root are equally
  long, along flows and along the detours of merge signals. An entry keeps the
  hop count of the signal that created it; were a later route longer,
  `MatchNextCongestionRoot` could put a packet back into the CIQ it came from.
  ECMP in a fabric that routes up and then down satisfies it: for all 40 flows of a
  two-pod fat tree with every equal-cost path, the smallest `Tree` closed under the
  rule of merges has one distance for each switch and root. TLC evaluates
  `EqualCost` for the instances of `CiChain` and `CiFork`.

Also in `CiProofs`: `PacketsInOrder`, `Spec => []InOrder`, from `CiInv` and `OrderInv`.

* The queues of a flow at a switch form a line (`Lane`): what is on the wire, the
  OQ, and the CIQs of the roots on the path, the nearest first. `SwitchLine` says
  that each holds the flow's packets in order, and that a queue nearer the wire
  has the earlier ones; the CIQs of one flow at one port are told apart by their
  distance.
* A round keeps the line (`MoveKeeps`, `RoundKeeps`): `MatchNextCongestionRoot` looks
  for the farthest CIQ nearer than the one the packet leaves, so every queue the
  packet passes has no CIQ and, by `Served` and `InPlace`, no packet of its flow.
  A packet that arrives goes to the farthest CIQ, behind all others
  (`EntersLine`); `ReceiveCI` moves no packet (`ReceiveCIStill`).
* `FlowLined` joins the links and the switches of a path into one line
  (`Lined`): whatever is nearer the receiver was sent earlier, and what is under
  way are the packets `Len(received)` to `sent - 1`, each once. A handler takes
  packets off one link and puts packets on the next (`LinedPasses`), a host adds
  packet `sent` (`LinedSends`), and the first packet on the last link can only be
  number `Len(received)` (`LinedReceives`). `InOrder` alone is not inductive: it says
  nothing of the packets under way.
* It needs `EqualCost`, by which the hop count of an entry is the distance of its
  root, and nothing of pauses: they decide when a packet moves, not whereto.

`QueuePfcProofs`: `PausesAgree`, `Spec => []PauseAgreement`, for every fabric, set of
flows, hash, queue ids, loss and settings of the two flow controls.

* The invariant `QInv`: every port, table, counter, NIC and frame is well formed
  (`Typed`, `WiresOK`): VOQs of different destinations are different queues, data
  stays out of queue 0 under BFC, a packet under way came from a neighbour and
  names a queue of that neighbour; the counters are exact (`Counted`); both ends
  agree (`AgreedOver`). None can do without the others: a resume is sent when a
  counter reaches zero, so the ends agree only if it counts what is there; the
  counter is decremented for the reason a packet carries, so it stays above zero
  only if it was exact; and two destinations are paused independently only if
  their VOQs differ.
* A handler begins by taking a data frame off a link or putting one on, which
  changes no agreement (`DataTaken`, `DataSent`: what the frames make of a pause,
  `PausedAfter`, changes with the first and the last frame as `Obeyed` says). Then
  `SendToDev` stores the packet (`FlowStored`, `VOQStored`) or drops it
  (`LossKeeps`), or `SwitchNotifyDequeue` lets it go (`FlowSent`, `VOQSent`): on each
  link either nothing is said and nothing new is wanted, or one frame is sent
  that says what is wanted now (`Told`), which keeps the ends agreed
  (`AgreedStep`). The end that receives a pause frame obeys it and no other link is
  concerned (`NicHears`, `SwitchHears`, `AgreedReceive`).
* The number of packets that carry a reason is the cardinality of a set of places
  (`Marked`): a packet appended adds one (`ReasonsMore`), the first one taken off
  shifts the places behind it, a bijection (`ReasonsLess`).
* `MatchQ` matters only as far as it names a queue of the port and changes no
  pause (`MatchQOK`), so agreement does not depend on which queue GetUsableQ finds,
  on the value it reads in an entry nobody has set, or on the sticky time; and
  `DoDequeueRR` only in that it takes the first packet of a queue that may send
  (`FirstTurnOK`), whatever its pointers are.
* `QueuePfcParameters` says that switches and hosts are different nodes, that a
  host is the next hop of its own packets only, and of one switch only (its
  ToR), and gives the settings their types. Links go both ways, as
  `QbbChannel::Attach` makes them. TLC evaluates it for the instance of `QueuePfc`.

`FloodgateProofs`: `VoqsAgree`, `HeadsLackWindow`, `PsnsInOrder`, `PacketsInOrder`,
`UnderwayBeyond`, `WindowsConserved` and `TypesOK`, that is `VoqAccounting`,
`HeadLacksWindow`, `PsnOrder`, `InOrder`, `UnderwayNotReceived`, `WindowConserved` and
`TypeOK`, all that the runs check of it as invariants but `NoStall`, for every
fabric, set of flows, hash, window, loss and combination of the settings.

* The invariant `FloodgateInv` (module `FloodgateInvariant`) says of each switch (`StateOK`) that every packet in
  a VOQ waits in the VOQ its destination is bound to and no other (`Placed`), that
  `m_buffering` counts what waits (`Counted`), that with a dynamic hash a binding
  or a VOQ exists only while something waits (`Needed`), that a VOQ waits only for
  lack of window (`Waits`, `Lacks`), and that its counters are in order (`Owes`); of
  each queue and link (`Queued`, `Carried`) what a packet or frame on it may be;
  and of each link (`Pair`) how the counters of its two ends and the frames on it
  are ordered. None stands alone. `m_buffering` says when `PopVOQ` may release a
  binding, so the binding is right only if it counts; a window is restored for
  one destination, so what may be waiting for it must be in the VOQ it is bound
  to; and a counter is ordered after an arrival only if no frame under way says
  more than its sender knew.
* The VOQs of a switch are sent by `SendWhile`. That it ends (`SendWhileIs`) is the
  one induction over a loop: the line and the bytes in VOQs together get shorter
  at each turn, and the least number of turns at which a claim would fail
  (`Smallest`) stands in for an induction theorem, which would need an operator
  parameter. A turn sends the first packet of one VOQ (`Sent`), which
  keeps the packets of every other VOQ, and only a turn that could not send leaves the line.
* Each handler is first shown to do what a predicate on the one switch says
  (`Served`, `Joined`, `WinChecked`, `Acked`), then that to keep the links of that
  switch ordered (`Pair`), and then the whole (`SystemOK`).
* Order. A packet of a flow takes the port at once or waits in a VOQ, and the code
  relies on the test of `CheckVOQWin` that a packet waits when others of its
  destination do. `LinedAt` says of one switch and one destination that the packets
  in the port come before those in the VOQ; `Numbered` of a queue that its packets
  are apart, in order and between two numbers. For each flow there is a line of
  such numbers along its route (`FlowLines`): what has entered each switch and what
  has left it, so that a packet on a link lies between what left one end and what
  entered the other. The proof shows for `CheckVOQWin` and for each turn of
  `SendWhile` that the switch stays lined (`Joined`, `Moved`), once for any numbering
  of packets (`KeyOK`), and then for each event that the line still holds
  (`HostFlows`, `TransmitFlows`, `DataFlows` and the rest). Losses only thin the line.
* With the PSN for a number the same facts give `UnderwayNotReceived`. A PSN is
  given out when a packet enters the port, so the port holds all PSNs after some `c`
  without a gap (`Covers`, `PsnPort`), and the link those between `m_rcv_data_psn` and
  `c`, in order (`HopOK`). A packet that arrives, kept or dropped by the admission
  control, moves `m_rcv_data_psn` to its PSN, which the rest are beyond.
* Windows. Of each hop `HopBytes` says that the bytes its sender has charged, less
  those still in its port, are those the next switch has passed on, those it
  holds and those on the link, and `HopPaid` that what the next switch has
  given back has arrived or is on the link that leads back: a sum of credits with
  relative counters; with absolute ones the last PSN, which some ACK on the link
  carries unless the sender has it. With absolute counters the first half needs
  the order again: a packet that leaves sets `m_nxt_ack_psn` to the PSN it came
  with, and that adds its size only if no byte between the two is elsewhere. So
  `HopBytes` also lines up what the switch holds for a hop by incoming PSN
  (`InKey`): packets in order between two numbers have no more bytes than lie
  between them (`Packed`), and as these have exactly as many, there is no gap and
  the next packet begins where the last one ended (`NextIn`, and `NextPsn` for
  the link). Each handler
  is split by what it does to a hop: what its sender has sent (`SideSame`,
  `LeavesSide`), what the next switch holds (`StoresKept`, `Entered`, `Unheld`), and
  what is given back (`StillPaid`). The balance is part of `FloodgateInv` as long as
  `losses = 0`: a lost frame, data or credit, takes its bytes out of it, and with the
  SYN timer a SYN credits data that has yet to arrive.
* `FloodgateParameters` says that routes lead over links, that links go both ways
  (`QbbChannel::Attach`: `Routed`, `Link`) and that a host has one ToR.
* `QueueProofs` has what these and the proofs of `QueuePfc` share: what `Append`,
  `Tail` and concatenation do to the range of a queue, to a sum over it and to the
  order of its packets (`Rising`, `Numbered`, `Covers`).

Model-checked only: all liveness (`PauseEnds`, `Isolation`, `LosslessFinishes`,
`DropsFinish`), which needs ENABLED; `NoStall` of `CongestionIsolation`, `Floodgate`
and `QueuePfc` and `TreesReleasedUnmerged`, which say that no state without an
event is a bad one, so a proof would need a measure over the whole fabric that
shows who waits for whom; and `InOrder` of `QueuePfc`, which rests on where the
pointers of `DoDequeueRR` and the registered queues stand, of which `QInv` says
nothing.

## 5. Order of work, and what is left

Done: PFC with its proofs, congestion isolation, Floodgate with its VOQs, the
transport with its refinements and proofs, BFC, destination PFC and the egress
queue. Left, in this order:

1. A proof of `InOrder` for `QueuePfc`, and one of what an answered SYN repairs in
   the windows of `Floodgate`.
2. Routing: DRILL with reordering at the receiver (`AllowDisOrder`).
3. Floodgate's per-port window and `HOST_PER_PACKET_ACK`; PFC and Floodgate
   together; `ctrl_all_egress`.

## 6. Not modelled, and why

Congestion control of the hosts and ECN compute rates in floating point and
only decide how fast a host sends. Headers are serialisation without state.
Settings, scenario, flow generator and scripts are configuration and output.
The ns-3 modules are vendored, and most of the repository's lines are their
generated Python bindings and build scripts; what is used of them is that a
handler runs alone and events at the same time run in the order they were
scheduled. Within the parts that are modelled: `PAUSE_OFF` (no scenario sets it);
of Floodgate the per-port window, `adaptive_win`, `HOST_PER_PACKET_ACK` and
`reset_only_ToR_switch_win` (see above); of the transport tokens and credits, back
to zero, round robin among messages, and IRN's window, which compares a count of
packets with bytes and so never binds; of `BEgressQueue` rate limiters, PIFO and
pauses by destination or QP at a switch port.
