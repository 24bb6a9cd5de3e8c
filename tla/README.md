# A verification project for the MF-TDMA MAC in ns-3

The repository is an ns-3.27 tree with one module of its own, `src/src/darpa/`: a
multi-frequency TDMA medium access control in which stations agree, two by two, on
the slots of a superframe they use. Everything else in the tree is stock ns-3 and is
not modelled. The files named below without a directory are in
`src/src/darpa/model/`.

A superframe lasts a second and is divided into timeslots of 50 ms on several
channels. Some slots are *broadcast slots*, created at start-up, in which control
packets compete (slotted ALOHA); all others are free until two stations agree that
one of them sends in it to the other.

## 1. Inventory

### Components and how they interact

| component | state | operations | talks to |
|---|---|---|---|
| slot grid (`MFTDMASlotGrid`) | per cell: state, peer, last use, id of a removal | queries, setters with their rules, aborts | owned by the slot selection |
| external slot grid (`MFTDMAExternalSlotGrid`) | per cell: used by others, age | set, clear, find idle | owned by the slot selection |
| slot selection (`SlotSelectionAIModule`, `RandomSlotSelection`, "the AI") | the two grids; pending TX proposals, RX selections, removals with their timeouts; failure counters per slot | `process_message`, `interloop_steps` every 10 ms | the MAC, over the bus |
| MAC-AI bus (`MFTDMAMacNetDevice`) | transaction counter; the scheduled zero-delay events | `SendMacAIMessage` | both sides |
| MAC (`MFTDMAMac`) | procedures table, the lock, lists of control acknowledgements, timers | `Send`, `Receive`, `process_AI_message`, `process_other_MAC` every 5 ms, `tx_MAC` | bus, table, queues, channel |
| acknowledgements (`Acknowledgment`) | packets that wait for an acknowledgement, statistics | add, update, remove, `check_ack_timeout` | called by the MAC |
| superframe table (`TDMA_table`, `TDMA_slot`) | use and peer of every cell, counters, one queue per peer | `add_slot`, `remove_slot`, wake-ups, add packets | called by the MAC and the controller |
| queues (`TDMA_queue`) | packets in classes of priority | push, get, timeout | owned by the table |
| controller (`MFTDMAController`) | the pending events | starts every periodic activity, switches the receiver | MAC, slot selection |
| channel (`DarpaWirelessChannel`) | packets being sent | add, schedule, collide, deliver | MAC of the stations in range |
| neighbour table | stations heard, with age | update, age | table (broadcast slots) |

A new slot is a conversation. The first packet for a peer (`TDMA_MAC_send`) or a
queue that lost packets (`process_other_MAC`) makes the MAC ask its slot selection for
proposals (GET); they become PROPOSED_TX in the grid and go to the peer in an ADD_SLOT
packet. The peer's slot selection picks one (PROPOSED_RX), its MAC answers with a
RESULT packet and makes the choice final (SET, SETR, entry in the table); the sender
does the same when the result arrives, or answers with a DELETE if its offer is gone.
Both announce the slot to third parties, and all stations advertise their tables now
and then. An idle or failing slot is removed by either end in the same manner.

Once a slot exists, data flows: `tx_MAC` runs every millisecond and sends the head of the
peer's queue in the data part of a UNICAST_SEND timeslot; the receiver gathers the numbers
it got in a buffer and returns them in the last milliseconds of the same timeslot;
`process_other_MAC` puts what was not acknowledged in time back at the head of the queue
and drops, from its end, what is too old. All frames pass through one queue in the
channel, which destroys those that share a channel and a millisecond. Every station's
controller tunes its receiver with a chain of timers computed from the table.

### What is hard

There are no threads: everything is an event of the simulator. The difficulty is in

* **interleaving**: messages on the bus are events of their own. A request, a packet,
  a timer and the answer to an older request of one instant are handled in the order
  they were scheduled, with other messages in between, against one grid and one lock;
* **delay and loss**: a control packet waits for a broadcast slot, may collide, is sent
  up to three times and may be processed several times, so a RESULT or a DELETE may
  come after the offer or the slot it is about is gone and the cell is used again;
* **timeouts** of proposals, selections, removals, external slots and acknowledgements,
  each of which must undo all of what it undoes;
* **limits**: lists of ten acknowledgements, ten proposals, a counter of three tries,
  five acknowledgement frames per timeslot, queue indices of 16 bits, a counter of 8;
* **position in time**: transmission, reception and the controller each look ahead by
  their own offset; one millisecond of difference shows only at a slot's boundary.

`PROJECT.json` lists the hazards line by line, with the property that would notice each.

### What makes the components right

* slot grid and selection: one transmission and one reception per timeslot, broadcast
  slots left alone, no offer or removal that its timeout will not find;
* MAC and table: every answer finds its procedure, the lock is neither lost nor leaked,
  the table and the grid agree between instants;
* two stations: the ends of a slot agree, or a message that restores agreement is under way;
* acknowledgements: a bounded number of transmissions, none given up early, none
  forgotten, an acknowledgement that means reception;
* application data: a queue whose two counters are true to it, a known fate for every
  packet, acknowledgements that mean reception, are bounded and leave in their timeslot;
* channel and controller: frames delivered in the order of their timestamps and only if
  alone, the receiver on the right channel whenever a known slot begins;
* failure monitor: a slot is condemned on evidence of its own, a dead slot is freed.

## 2. The modules

    SlotGrid  <-  SlotSelection  <-  SlotProtocol  <-  MCSlotProtocol
                     |     |                ^- SlotProtocol_proofs  <-  Agreement_proofs  <-  TwoEnds_proofs
                     |     ^- SlotSelection_proofs
                     |     ^- MCSlotSelection
                     '- implements RadioSchedule
    ControlTransfer  <-  MCControlTransfer
         ^- ControlTransfer_proofs
    PacketQueue  <-  DataTransfer  <-  MCDataTransfer
                        |     ^- DataTransfer_proofs
                        '- implements ClassQueues
    WirelessChannel  <-  Radio  <-  MCRadio
                           ^- Radio_proofs
    SlotMonitor  <-  MCSlotMonitor
         ^- SlotMonitor_proofs

**SlotGrid** has the class's queries and setters as operators on a grid, a function from
cells to records. Build options as compiled: `USE_RX_TX_SAME_TIMESLOT` on,
`SLOT_ALLOCATION_EXPOSED_NODE` off.

**SlotSelection** models one slot selection per station: one action per handler of
`process_message` and one for `interloop_steps`. `bus[n]` is the order of the zero-delay
events between MAC and slot selection. Which idle cells, proposals and external slots
have timed out is a choice; so is the random order of proposals, and which slots the
failure monitor condemns. The MAC is *open*: it takes what is addressed to it and sends
any request at any time (`MacStep`); packets that it receives wait on the same bus
(`PacketHeard`) and are none of the slot selection's business. What holds here holds for
every MAC that answers a removal with OK, as this one does whatever its table says
(`mftdma-mac.cc:998`). A NOK would orphan the cell's mark (`process_set_response` forgets
the transaction and keeps the mark); that none comes is not shown by `RemovalsTracked` but
by `ImplementsSlotSelection`, for the real MAC.

**RadioSchedule** is the abstract specification: a transmitter and a receiver per
timeslot, each idle, on offer to one peer or committed to one. There are no messages,
ids or timers. The refinement mapping takes the cells of a timeslot to the uses of its
two radios (`Radio` in SlotSelection).

**SlotProtocol** puts the real MAC in place of the open one and connects stations:
`process_AI_message` and `Receive` are one action per case, `Drain` handles the head of
a bus and `Tick` is what the clock brings (application packets, queue timeouts,
statistics, advertisements, slot selection timers, transmissions, retransmissions).
Timers put their messages on the bus before a packet of the same tick is handled, and a
station receives at most one packet at a time, for two would collide. With
`Reliable = FALSE` any packet may be lost and a packet with an acknowledgement may be
received up to `Tries` times; with `Reliable = TRUE` each is received once. `Prompt` is a
hypothesis on the load of the broadcast slots: when a station asks for slots to a peer
whose last offer has expired, neither that offer nor its result is still on the way. A station's
instants touch no other station, so `Drain` takes them one after the other.
`ImplementsSlotSelection` says that this MAC is one that SlotSelection allows; the
refinement mapping is the identity, since both modules have one bus.

**ControlTransfer** models the acknowledgement of control packets that SlotProtocol
abstracts: the queue of the broadcast slots, `ack_needed_map` with its retry counters,
and the two lists `control_acks` and `received_control_acks`. A transmission and its
reception are one step (milliseconds, against timeouts of a second and more). The
history variables `copies`, `acks` and `got` are read by no action.

**PacketQueue** has `TDMA_queue` as operators on a record of the packets and the two
indices the code keeps beside them. The low class is ordered as `OLDER_DATA_LAST` has it.
Nothing but one packet at a time is ever taken, so `queue_get_data_mcs_gain` is a `Tail`
and an adjustment of both indices.

**DataTransfer** models unicast data from a station S to a station R, millisecond by
millisecond: `ProcessOther` (the timeouts, when their period has come), `TxMac` of both
stations (one of `SendData`, `SendAck`, `SendLastAck`, `SendNothing`), `Receive` (a frame
taken two milliseconds ago arrives or is lost). `phase` runs them in the order in which
the simulator does; the application's packets and the changes of the table come between
any two of them. `queue` is S's queue for R, `left` and `timer` are `ack_needed_map`
(retry counter and age), `buffer` and `acks` are R's `ack_buffer_map` and the
acknowledgement queues of its RECEIVE timeslots. An entry whose packet waits for its
retransmission has a timestamp in the far future in the code: `timer = Off`. Two stations
have at most one transmission per millisecond between them, so `air` is a sequence. Times
are ages, capped one above the limit they are compared with. `got`, `acked`, `failed`,
`expired`, `sends` and `fresh` are history variables.

**ClassQueues** is the abstract specification of the queue: two lists, of which the high
one is served first and the low one is cut from its end; no packet changes its class or
overtakes one of its own.

**WirelessChannel** and **Radio** model one station's ear: the channel's packet vector
with its single event (`AddPacket`, `Send`, the collision check that erases while it
walks), and the chain of `rx_MAC_start`, `rx_MAC_first_event`, `rx_MAC_second_event` with
the plan of `table_get_next_rx_message_no2`. `now` is the real millisecond; table and
transmission look `Lead` ahead of it, the timers `RxOffset`. `Broadcast` has at most one
cell in a timeslot, because `table_create_static_bc_slots` puts the broadcast slots a
quarter or a third of the superframe apart. Other stations are the frames
they hand over, of which those that are `mine` should be heard. The events of one
millisecond may run in any order, which is more than the simulator does.

**SlotMonitor** is one cell of `RandomSlotSelection`'s statistics, with the two ways in
which a station gives up a slot by itself; the superframe is the unit of time. It is the
part that SlotSelection leaves to chance.

Every module that code is translated into has its *mutants* next to the definition they
alter: plausible bugs, one for every property of a passing run, which that run detects.

## 3. The runs

| run | module, cfg | what it shows | instance |
|---|---|---|---|
| slot_selection | MCSlotSelection | TypeOK, OneTransmission, OneReception, BroadcastAlone, OffersTracked, RemovalsTracked; SlotSelection implements RadioSchedule | 1 station, 2 peers, 3 x 2 cells, 1 reserved |
| protocol_lossy | MCSlotProtocol, MCProtocolLossy.cfg | ProtocolTypeOK, AnswersExpected, SelectionConfirmed, LockHeld, LockReleased; SlotProtocol implements SlotSelection | 2 stations, 2 cells, packets lost and sent twice |
| protocol_reliable | MCProtocolReliable.cfg | AllocatedInTable, TableAllocated, SenderHasListener, ListenerHasSender | 2 stations, 2 cells, nothing lost |
| protocol_three | MCProtocolThree.cfg | the two ends agree with a third station | 3 stations, 1 cell, nothing lost |
| protocol_ghost | MCProtocolGhost.cfg | *violates* AllocatedInTable | 2 stations, 1 cell, packets lost and sent twice |
| control_transfer | MCControlTransfer | TransferTypeOK, BoundedTransmissions, GivenUpAfterAllTries, AcknowledgedWasReceived, OneCopyQueued | 2 stations, 2 packets each, list of 1 |
| control_flush | MCControlFlush.cfg | *violates* RetransmissionQueued | the sources' limits: 3 tries, list of 10 |
| data_transfer | MCDataTransfer | DataTypeOK, QueueSound, NothingForgotten, AcknowledgedDelivered, TriesUsed, NoFalseAlarm, AcksLeaveInSlot; the queue implements ClassQueues | 2 timeslots of 6 ms, 3 packets, 2 tries, 1 fault |
| data_backlog | MCDataTransfer, MCDataBacklog.cfg | AckSlotBounded, PacketsSettle | room for one acknowledgement frame, a buffer of one |
| older_data_last | MCDataTransfer, MCDataOrder.cfg | *violates* OlderDataLast | as data_transfer |
| slot_monitor | MCSlotMonitor | MonitorTypeOK, EvidenceNeeded, DeadSlotRemoved | the sources' thresholds, a counter of 2 bits |
| radio | MCRadio | RadioTypeOK, OnlyLoneFramesHeard, KnownCellsHeard | 3 timeslots of 5 ms, 2 channels, 2 changes of the table |

Deadlock is not checked in the protocol, selection and control runs: a station with
nothing to do and its bounds used up may stop. Data, monitor and radio run for ever, and
there it is checked.

### Bounds, and why they are enough

* **Cells.** A rule of the grid relates cells of one timeslot, or all cells of one peer:
  two channels and two timeslots give both, and a third timeslot is for the broadcast
  slot, so that an offer can span two. The protocol runs have one channel: a peer's choice
  between two cells is what they need, the grid's rules are checked by `slot_selection`.
* **Peers.** Rules compare a peer with another: two. In `protocol_three`, three stations
  want one cell, so that a late message can meet a cell that belongs to somebody else.
* **MaxProposals** is 2: one proposal is taken and one withdrawn.
* **MaxId** bounds the transactions. With two to six of them a removal, an allocation and
  the re-allocation of the same cell fit into one behaviour.
* **MaxBus** bounds what timers add to a bus; handlers are never bounded. With 1, a timer's
  message and a packet share an instant. **MaxHeard**, one more, bounds the bus on which
  the open MAC of SlotSelection still receives a packet.
* **MaxQueue** (protocol) bounds the packets of a station in flight when it *begins*
  something new; answers are always queued. `protocol_reliable` has ids up to 5 and two
  packets: an offer can expire while its packets are on the way, and a removal of either
  end cross with the other's. Longer explorations of the same configuration with ids up to
  11 and six packets in flight found nothing else.
* **Tries** is 2 where packets are repeated: one repetition already meets an old copy. In
  `control_transfer` it is 2 with a list of one acknowledgement, so the list overflows
  with two packets; **MaxCopies** stops the exchange that can then go on for ever.
* **A short timeslot.** The milliseconds of a timeslot differ only by what they are for: a
  guard, data, the gap, acknowledgements. `data_transfer` has two of data and two of
  acknowledgement in 6 ms, and a buffer of two, so that a full buffer and the rest at the
  end of the timeslot both happen; `data_backlog` has one of acknowledgement and a buffer
  of one, so three milliseconds of data overflow it. **Timeout** is longer than a
  timeslot by the lead, as 60 ms are longer than 50, and **QueueTimeout** spans a whole
  superframe, so a packet can expire in the queue.
* **MaxPackets** is 3: a retransmission, a packet behind it and a new one between them.
  **MaxFaults** is 1 lost frame or removed timeslot. It bounds the environment; what the
  code does about a fault is not bounded, and the proofs do not depend on it.
* **slot_monitor** has the thresholds of `RandomSlotSelection.h:16-20`; **Wrap** is 4
  for 256, **MaxSamples** one more than is needed for a judged frame, **Record** the least
  at which the history can tell enough evidence from less.
* **radio** has timeslots of 5 ms (guard, two of data, gap, one of acknowledgement), three
  of them, because sleeping over a timeslot that asks for nothing needs one before and one
  after; frames of **MaxQueue** = 3 make a collision and a bystander; two changes of the
  table remove a cell and add another. The 50 ms that the controller waits without any slot
  keep it aligned only because a timeslot has 50 ms: the model waits a timeslot.
* Symmetry permutes stations (peers in `slot_selection`), in runs without liveness only.

The runs of a lossless radio state the agreement of the two ends, under two hypotheses.

* `Reliable`. On a radio that repeats packets the agreement does not hold at every moment,
  and is not claimed: a repeated ADD_SLOT makes the receiver allocate a slot that its
  sender never learns of.
* `Prompt`. A RESULT does not say which offer it answers: `allocate_slot` asks for a
  proposal to that peer that is open and a cell that is proposed to it. If an offer expires
  (`TRANSACTION_TIMEOUT_MS` is 12000, `RandomSlotSelection.h:15`) while its ADD_SLOT or
  RESULT still waits for a broadcast slot, and the station offers slots to the same peer
  again, the old result is taken for an answer to the new offer, and so is the DELETE that
  follows a refusal. Then the two ends of a slot, and a grid and its table, disagree
  although nothing was lost; without the hypothesis TLC finds this with one cell, two
  stations, ids up to 8 and five packets in flight. Nothing in the code excludes it but
  twelve seconds being long for a queue of control packets, and that is what `Prompt`
  says. It lets everything else through: an offer that expires while its packets are on
  the way is refused in the end, and the refusal must reach the listener; offers to other
  peers, selections and removals meet the late packets freely.

### Fairness

* `ProtocolFairSpec` asks strong fairness of each station's `Drain`: messages on the bus
  are events at the current time, and the simulator handles them before the clock moves.
  It is strong because the model takes the instants of the stations in turn, so a station
  may wait while another drains. Nothing is assumed of timers, transmissions or the radio.
* `FairSpec` of DataTransfer asks weak fairness of the step of the clock and the handlers
  that run in it (`Milliseconds`): the simulator schedules them for ever. The application
  and the slot selection are not relied on, and faults are bounded.
* `FairSpec` of SlotMonitor asks it of the clock and of the periodic check of idle slots,
  and strong fairness of the MAC's answer to a removal (`RemovalDone`). The MAC answers
  every removal (`mftdma-mac.cc:998`) by zero-delay events of the instant in which it is
  asked, twelve seconds before `check_removal_timeouts` would give up. The model allows
  more: removals may expire, but not all of them for ever; with weak fairness, or none,
  TLC finds the cell asked for and expired in turn and never freed. Traffic and the other
  end are not relied on.

`PacketsSettle` has one way out, a sender without a timeslot: `queue_check_timeout` never
looks at the high class, so a retransmission waits until a slot is allocated again.
`DeadSlotRemoved` says that a cell of which the other end is gone is free again in the
end, not only that its removal is asked for. It has one way out as well: a station that
sends one to five packets per superframe into a dead slot refreshes it with their
failures (`process_stats`) and is never judged, because `ACK_RECEIVED_THRESHOLD` is 5,
although the comment at `RandomSlotSelection.cc:305` speaks of ten.

### What the violations show

* **protocol_ghost.** A RESULT is received twice; its second copy shares an instant with
  the start of a removal of the same slot. The slot selection confirms it as a
  retransmission before it hears that the removal is done, and the MAC, which has just
  removed the slot from its table, adds it again. Nothing removes this entry any more.
  When the cell is later allocated for reception, `add_slot` refuses it silently while
  the MAC announces the slot: `mftdma-mac.cc:1117` says the slot is added.
* **control_flush.** `tx_MAC` meets a packet that is acknowledged already and asks for
  the next; the next is appended to the container and the loop looks at the first again,
  until the queue is empty. A packet whose retransmission waited there is never
  retransmitted nor dropped, though `acknowledgment.cc:356` says one of the two happens.
* **older_data_last.** `tdma_queue.h:16` has older data last, so that the timeout finds it
  at the end. A new packet is put behind as many of its class as `previous_packets_per_second`
  counts. Departures are subtracted from that counter (`tdma_table.cc:1268`), but
  `mftdma-mac.cc:634` overwrites it with the undiminished one right before it is used. A
  packet accepted after one of its period was sent is queued behind an older packet.

## 4. What is proved

Every theorem is for all values of the constants that satisfy the modules' assumptions;
the bounds of the runs play no part.

**SlotSelection_proofs**, for any number of stations, timeslots and frequencies up to 255,
any ids, offers and announcements, and the open MAC: `TypeCorrect`, `OneTransmissionHolds`,
`OneReceptionHolds`, `BroadcastAloneHolds`, `OffersTrackedHolds`, `RemovalsTrackedHolds`,
the six invariants of `slot_selection`. They follow from `InductiveInvariant`. `IInv` is
needed because none of the invariants is inductive alone:

* *sound grids* (`Sound`): one transmission, one reception, broadcast slots alone, and a
  peer on every cell in use, without which a removal request would name no station;
* *books* (`Offered`, `Marked`): offers and marks are exactly those their timeouts track.
  `AllocateTxBooks` is the heart of it: the final allocation turns one offer into a
  transmission, and the timeslot is sound afterwards only because the peer's other offers
  are withdrawn in the same step and offers of one timeslot all go to one peer;
* *ids*: transactions under way have ids above 0 and below the next one, so that a fresh
  mark is unlike any other and never the 0 that stands for none;
* *start-up* (`BcFirst`): until the message with the broadcast slots is handled it is the
  first on the bus and the grid is empty, so reserving them overwrites nothing.

The first part of the module proves for each setter what it keeps of a grid, the second
one lemma per action. The assumptions are those of the modules: 0 is no station's
address, at most 255 timeslots and frequencies, the reserved slots are cells.

The third part of the module proves `ImplementsRadioScheduleHolds`, that SlotSelection
implements RadioSchedule (`ImplementsRadioSchedule`). The initial states are `InitSchedule`;
`StepSchedule` maps every step to one of the schedule or to a stutter, with `IInv` before
and after it. Soundness is what the mapping needs: only because the offers of a timeslot
all go to one peer does an allocation or a timeout change its transmitter as a whole
(`TxOffers`, `AllocateTXRadio`, `WithdrawnAt`), and only because a timeslot has one
reception does an expired selection leave an idle receiver (`AbortRXRadio`). A proposal is
an abstract offer because a peer with no open proposal has no cell on offer, which is what
`Offered` says.

**DataTransfer_proofs**, first: `TransferTypes` (every variable has its type, and an
acknowledgement slot its room, which the types of the other actions need),
`DataTypeCorrect`, `QueueSoundHolds`, `AckSlotBoundedHolds`,
`AcknowledgedDeliveredHolds` and `ImplementsClassQueuesHolds`. The queue's soundness rests on one lemma per operation of
PacketQueue. For the last the invariant is `Truthful`: every number that is in R's buffer,
in an acknowledgement of a timeslot, or in a frame in the air is one R received. The
refinement cuts the deque at its boundary into the two lists of ClassQueues: each operation
of PacketQueue is one on a list, and the timeout, the only one that may take several
packets, a cut of the low list that leaves the high one alone.

Second, the fate of a packet: `NothingForgottenHolds` and `TriesUsedHolds`, from
`FateHolds`. Its invariant follows each packet (`Traced`): a packet has one copy in the queue at most; if
an entry awaits it, the entry's clock stands still exactly while that copy waits; if none
does and it is not queued, its fate is settled. `Counted` relates transmissions to the
tries that are left and to the copy, and holds until the packet is acknowledged, after
which a copy that was queued before starts with all its tries again. `Distinct` (no two
copies in the queue) is what makes removing the head remove *the* copy.

Third, where the acknowledgements are, millisecond by millisecond.
`AcksLeaveInSlotHolds` needs the hypothesis `AcksFit`: the acknowledgements of a timeslot
full of packets, and of a buffer one short of full, find a millisecond each. With the
source's values that is 43 + 11 - 1 < 11 * (6 - 1). Its invariant `Timely` says that only
the timeslot that runs has acknowledgements (`Alone`), never more than the packets heard so
far account for (`Filled`), and, once the data is over, never more than there are
milliseconds left for (`Leaving`). `NoFalseAlarmHolds` needs besides that the timeout is
not shorter than a timeslot (`Patient`, 50 <= 60 ms): as long as nothing was lost, every
entry is for a packet that is on its way, in the air, in R's buffer or in an
acknowledgement, and its clock shows no more than that way has taken (`OnTheWay`,
`OnTime`), so that none reaches the timeout (`CalmHolds`). `SourceTiming` proves that the source's values satisfy
both hypotheses; the instance of `data_transfer` does as well, that of `data_backlog`,
which is about an overflow, satisfies neither.

**Radio_proofs**: `ChannelOrdered`, that the vector of the channel is in the order of its
timestamps, since every frame is handed over the same time ahead; and, by it,
`OnlyLoneFramesHeardHolds`: the collision check looks only at frames up to the first of
another timestamp, which are all of that millisecond only if the vector is ordered. The
invariant says for every frame that is due which of its millisecond are still there.

`RadioTypeCorrect` and `KnownCellsHeardHolds` follow the receiver's chain of timers. The
heart of their invariant is `TimerOK`: the pending event is in one of five situations,
each of which says at which millisecond it runs and which cells the radio, and the channels
the event will tune to, already account for. The station is about to look at its table
(`Looks`); nothing changes until some timeslots from now and every cell known in between is
on the channel the radio has (`Sleeps`); it tunes once, or twice, at the first millisecond
(`TunesOnce`, `TunesTwice`); or it tunes in the gap (`TunesInGap`). A change of the table
only takes from what is known (`Fewer`). It follows in every state that the radio is where
the station is to hear (`RadioThere`); that a lone frame has been heard or is still in the
vector (`Hears`) is preserved because the collision check drops only frames that are not
alone. `OneEach`, a broadcast cell alone in its timeslot or one cell of each kind, is why
one channel of a kind is enough. The lemmas about `%` and the clock come first; the rest
speaks of milliseconds within a timeslot.

**SlotProtocol_proofs**, first: `AnswersExpectedHolds` and `LockHeldHolds`, from
`ProcedureInvariant`, for any number of stations and both radios. The invariant speaks of
one station's bus at a time (`BusSound`): an answer, or a request that will be answered,
has its procedure and no other message has the same id (`AwaitedKnown`, with `IdsFresh`
for new ones); an allocation has its answer on the way (`AllocationAwaited`); and at most
one message of the bus starts an allocation or may yet (`OneToken`). The last is why the
lock works: a packet is received only by a station that has no other packet on its bus,
and every handler that passes the token on does so in place of the message it consumed.
Between the instants only a received packet may be a token (`Idle`), so a request of the
application or a timeout never meets an open allocation.

Then the refinement: `ImplementsSlotSelectionHolds`. A step of the MAC or the radio maps to
`MacStep`, `PacketHeard` or a stutter (`StepSelection`), which needs to know that what it
puts on a bus is a message there is. That is `ProtocolInvariant`, which adds the types of
tables, procedures, packets and entries and, for ids, that one is set aside for every
message that may need one, so that no handler runs past `MaxId`; `ProtocolTypeCorrect` is
its consequence. By the refinement `ProtocolGrids` and `ProtocolSchedule` carry over to the
stations of the protocol what is proved of one slot selection: the five invariants of its
grid and books, and the schedule of two radios.

Last, `SelectionConfirmedHolds`. `ConfirmedInvariant` follows a selection through its
instant: the cells that are PROPOSED_RX in a grid are exactly those that messages on the bus
are about to confirm (`Confirmed`), and since such a message is the one that may allocate
(`OneToken`), nothing handled before it takes the cell.

**Agreement_proofs**: `AllocatedInTableHolds` and `TableAllocatedHolds`, that table and grid
of a station agree between the instants, with `Reliable` and `Prompt` as hypotheses, which the
runs `protocol_reliable` and `protocol_three` satisfy; `protocol_ghost` shows that the first is
needed. The argument has three layers.

* `InstantInvariant`, on any radio: the messages that come of a packet follow each other one
  at a time (`Derived`, `Once`); a statistic or a request of a timer is never handled after
  what the packet started (`Ordered`); a removal that is asked for and its report share an id
  with nothing else (`Marking`); and between the instants a bus holds only what ticks bring
  (`Rests`). The order matters: were a removal begun after the slot selection confirmed a cell
  and before the MAC heard of it, its report could free the cell while the table takes it.
* `ExchangeInvariant`: an exchange from x to p has six stages, from the proposal on x's bus to
  the grant on it, and is in one of them at a time (`Exclusive`); a request for slots to a peer
  with no open offer finds nothing of an earlier exchange under way (`Asked`), which is where
  `Prompt` is used; and what is under way names no cell in which x already sends to p
  (`Untold`). So a result never confirms a cell a second time, which is what happens in
  `protocol_ghost`.
* `TablesInvariant`: the table of a cell is that of the grid, unless a message of this instant
  says why not: the slot selection has allocated or freed it and its answer is on the bus
  (`Adding`, `Dropping`), or the MAC has removed it and the report is (`Ending`). A removal that
  is asked for is of a cell that is marked with its id, or has been freed since, and then nothing
  left on the bus can allocate it again in this instant (`Settling`). When the bus is empty no
  such message is left, and table and grid are equal.

**TwoEnds_proofs**: `SenderHasListenerHolds` and `ListenerHasSenderHolds`, that the two ends
of a slot agree, or a message that ends the disagreement is on its way. `Reliable` and
`Prompt` are hypotheses of the two properties themselves. The argument has three layers again.

* `PeersInvariant`, on any radio: no station has dealings with itself. Every message on its
  bus, packet in its queue, procedure and cell of its grid names another, so that the two ends
  of a slot are two grids and two queues.
* `EndsInvariant`: for two stations and a cell, what their grids say of it for each other
  (`Sending`, `Listening`, `Offering`, `Closing`), what has come from the other and is not done
  with (`Hears`), what waits in its queue (`Waits`), and in which order (`Later`). An open offer
  that meets its result meets a listener, unless a removal comes behind the result
  (`OfferFresh`); who sends a result does not send in the cell, and no two results cross
  (`ResultAlone`); a
  refusal that is not yet told leaves both ends without a sender (`RefusalAlone`); a sender has
  its listener unless a removal is on its way, and vice versa (`SenderSound`, `ListenerSound`);
  and what is being removed has been told, after the result if that waits still
  (`ClosingTold`). The order counts because a queue is first in, first out and the radio takes
  its head: a DELETE behind a RESULT frees what the result allocates, one before it would free
  nothing. Two removals may cross, and a refusal an offer made since in the other direction:
  this is why the six are implications and not the stages of one exchange.
* A step of one station is one of eleven kinds for the cell and the peer: an offer is made or
  sent, chosen, its result sent, granted or refused, the refusal sent, a removal sent, done or
  heard of, or nothing of it changes (`OfferMade` to `Freed`, `Alike`). That each keeps `Ends`
  for both stations at once is propositional. The rest of the module shows which kind each
  handler is: those of a packet and of what comes of it (`DerivedPairs`), all others
  (`PlainPairs`), and the ticks, for which a transmission only moves what is on its way from a
  queue to a bus where nothing of the same sender was heard before (`TransmitFlight`).

When both buses are empty only packets are on their way, and `EndsSender` and `EndsListener`
read the two properties off.

**ControlTransfer_proofs**: the five invariants of `control_transfer` (`TransferTypes`,
`TransmissionsBounded`, `GivenUpLast`, `AcknowledgementsTrue`, `CopiesSingle`), from
`TransferInvInductive`. Besides the types it says that a
number is used for one packet and one destination (`OneDestination`, `Numbered`); that an
acknowledgement in a queue is of a packet its sender received (`AcksTrue`); that a packet
whose acknowledgement is still in `received_control_acks` is over (`Remembered`); that a
packet has one copy, which its entry waits for (`OneCopy`); and that the transmissions made
and those to come add up (`Counted`): to the tries exactly until the packet is
acknowledged, and to at most the tries once more for each acknowledgement. The second part
is what an overflowing list costs: a copy queued before the acknowledgement, met after it
was forgotten, starts with all its tries again.

**SlotMonitor_proofs**: `MonitorTypes` and `EvidenceNeededHolds`, an action property, from
an invariant that bounds the failing frames by the statistics and failures seen since the
counters were reset.

Only model-checked: liveness (`LockReleased`, `PacketsSettle`, `DeadSlotRemoved`), which is
beyond the prover (as are ENABLED, induction over data and recursive operators). Every
invariant, action property and refinement of a passing run is proved.

## 5. What is not modelled

* Moving slots (SLOT_MOVE): its handlers are there, but nothing starts it.
* The exposed-node and multi-hop builds, which the sources switch off.
* `update_slot` and the resizing of the table: called by the table's own test or by nothing.
* Broadcast application data and several destinations at once: their queues are apart, they
  share the counter of accepted packets and `mac_index` (16 bits, whose wrap is left out).
* The odds with which a station sends in a millisecond of a broadcast slot (slotted ALOHA):
  it may or may not. They are the only use of the neighbour table, which in this build only
  grows.
* Interference slots: the calls of `AddInterferenceSlot` are commented out.
* Which five or four broadcast slots a table of a given number of channels has: the radio's
  instance has one, its proofs any with at most one in a timeslot. With more than seven channels and five broadcast slots,
  `table_create_static_bc_slots` writes a fifth entry (`tdma_table.cc:1995`) into
  `broadcast_slots[4]`, an array of four (`tdma_table.h:203`); the scenarios use fewer.
* Headers, padding, MCS tables, moving averages, logging, the installation helper, and
  ns-3 itself.

## 6. Plan

1. *Done*: SlotGrid, SlotSelection, RadioSchedule, SlotProtocol, ControlTransfer; queues and
   application data; channel and controller; the failure monitor; the proofs of section 4.
2. The return to agreement of two ends on a radio that repeats packets, as a liveness
   property of SlotProtocol composed with SlotMonitor.
