---------------------------- MODULE DataTransfer ----------------------------
(***************************************************************************)
(* Application packets from one station, S, to another, R: the queue of S, *)
(* the timeslots they share, the acknowledgements R gathers and returns at *)
(* the end of those timeslots, the timeouts and retransmissions of S.      *)
(*                                                                         *)
(* A timeslot has SlotLen milliseconds: a guard, DataMs for data, one in   *)
(* which nothing is sent and AckMs - 1 for acknowledgements.  Every        *)
(* millisecond both stations run process_other_MAC (when due) and tx_MAC,  *)
(* at the position <<slot, ms>> of the superframe, and a frame tx_MAC took *)
(* Lead milliseconds ago arrives.  phase names what is still to run.       *)
(* At the source NumSlots is 20, DataMs 43, AckMs 6, BufferSize 11, Tries  *)
(* 3, Timeout 60, QueueTimeout 1000 and OtherPeriod 5.                     *)
(***************************************************************************)
EXTENDS PacketQueue, Integers, FiniteSets

CONSTANTS
  NumSlots, DataMs, AckMs,  \* table_slot_count; the ms of a timeslot for data; TDMA_ACK_QUEUE_SIZE
  BufferSize,               \* ACK_BUFFER_SIZE
  Tries,                    \* RETRY_COUNTER_MAX
  Timeout, QueueTimeout,    \* ack_max_timeout and queue_timeout, in ms
  OtherPeriod,              \* process_other_mac_frequency
  MaxPackets, MaxFaults     \* bounds: packets the application sends; losses and removals

SlotLen  == 1 + DataMs + AckMs
Lead     == 2         \* ROUND_TX_MS_TO_HIGHER_VALUE + TX_OFFSET_MS
AckSlots == AckMs - 1 \* the size of the queue of a RECEIVE timeslot
MaxPps   == DataMs    \* max_packets_per_second

(* The acknowledgement part has a millisecond to send in, after its gap.   *)
ASSUME DataAssumption ==
  /\ {NumSlots, DataMs, BufferSize, Tries, Timeout, QueueTimeout, OtherPeriod} \subseteq Nat \ {0}
  /\ AckMs \in Nat \ {0, 1}
  /\ MaxPackets \in Nat /\ MaxFaults \in Nat

Slots   == 0 .. NumSlots - 1
Packets == 1 .. MaxPackets
Off     == Timeout + 2    \* an entry whose timestamp lies in the far future

VARIABLES
  slot, ms, phase,        \* the position of both tables, and what runs next in this ms
  queue,                  \* S: table_queues[R]
  pps, blocked, next,     \* S: packets_per_second, queue_is_blocked, mac_index
  left, timer,            \* S: ack_needed_map, retry_counter (0: no entry) and age of each entry
  sendSlots,              \* S: its UNICAST_SEND timeslots for R
  buffer,                 \* R: ack_buffer_map[S]
  acks,                   \* R: the acknowledgement queue of each RECEIVE timeslot
  recvSlots,              \* R: its RECEIVE timeslots for S
  air,                    \* the channel: what tx_MAC took, oldest first
  fresh,                  \* history: packets of S accepted since packets_per_second was reset
  got, acked, failed, expired, sends, faults   \* history

sender   == <<queue, pps, blocked, next, left, timer, fresh>>
receiver == <<buffer, acks>>
cells    == <<sendSlots, recvSlots>>
history  == <<got, acked, failed, expired, sends>>
vars == <<slot, ms, phase, sender, receiver, cells, air, history, faults>>

Silence == [type |-> "silence"]
Frames  == {Silence} \cup [type : {"data"}, slot : Slots, packet : Packets]
                     \cup [type : {"ack"}, slot : Slots, packets : Seq(Packets)]
Elements == [packet : Packets, type : HighType \cup LowType, age : 0 .. QueueTimeout + 1]

Init ==
  /\ slot = 0 /\ ms = Lead + 1 /\ phase = "tx"
  /\ queue = EmptyQueue /\ pps = 0 /\ blocked = FALSE /\ next = 1
  /\ left = [p \in Packets |-> 0] /\ timer = [p \in Packets |-> 0]
  /\ sendSlots = {0} /\ recvSlots = {0}
  /\ buffer = <<>> /\ acks = [s \in Slots |-> [data |-> <<>>, sent |-> 0]]
  /\ air = [i \in 1 .. Lead |-> Silence]
  /\ fresh = {} /\ got = {} /\ acked = {} /\ failed = {} /\ expired = {}
  /\ sends = [p \in Packets |-> 0] /\ faults = 0

-----------------------------------------------------------------------------
(* Mutant: one more packet before the queue is blocked. *)
AcceptLate ==
  /\ ~blocked /\ next <= MaxPackets
  /\ queue' = PushToPosition(queue, [packet |-> next, type |-> "APP_LOW_PRIORITY", age |-> 0], pps)
  /\ pps' = IF pps >= MaxPps THEN 0 ELSE pps + 1
  /\ blocked' = (pps >= MaxPps)
  /\ next' = next + 1
  /\ fresh' = fresh \cup {next}
  /\ UNCHANGED <<slot, ms, phase, left, timer, receiver, cells, air, history, faults>>

(* The application sends a packet: Send discards it while the queue is     *)
(* blocked, TDMA_MAC_send numbers it and counts it, table_add_packets      *)
(* queues it behind as many packets of its class as were counted before.   *)
Accept ==
  /\ ~blocked /\ next <= MaxPackets
  /\ queue' = PushToPosition(queue, [packet |-> next, type |-> "APP_LOW_PRIORITY", age |-> 0], pps)
  /\ pps' = IF pps + 1 >= MaxPps THEN 0 ELSE pps + 1
  /\ blocked' = (pps + 1 >= MaxPps)
  /\ next' = next + 1
  /\ fresh' = fresh \cup {next}
  /\ UNCHANGED <<slot, ms, phase, left, timer, receiver, cells, air, history, faults>>

-----------------------------------------------------------------------------
(* process_other_MAC runs every OtherPeriod ms, first in the first ms.     *)
OtherDue == ms % OtherPeriod = (Lead + 1) % OtherPeriod

(* Mutants: an entry whose clock stands still is due as well; the last try *)
(* is never given up.                                                      *)
DueEntriesStopped  == {p \in Packets : left[p] > 0 /\ timer[p] >= Timeout + 1}
DueEntriesWithMore == {p \in Packets : left[p] > 1 /\ timer[p] = Timeout + 1}

(* check_ack_timeout: the entries that are due lose a try.  One without    *)
(* tries left is dropped; the others stop their clock and their packets go *)
(* to the front of the queue, one after the other.                         *)
DueEntries == {p \in Packets : left[p] > 0 /\ timer[p] = Timeout + 1}
Again      == {p \in DueEntries : left[p] > 1}
Retransmission(p) == [packet |-> p, type |-> "RETRANSMISSION", age |-> 0]
Queued(order) == PushFrontAll(queue, [i \in DOMAIN order |-> Retransmission(order[i])])

(* queue_check_timeout, for which the age of a packet in its queue counts. *)
Old(e) == e.age > QueueTimeout

ProcessOther ==
  /\ phase = "other" /\ phase' = "tx"
  /\ IF OtherDue
     THEN /\ left'  = [p \in Packets |-> IF p \in DueEntries THEN left[p] - 1 ELSE left[p]]
          /\ timer' = [p \in Packets |-> IF p \in Again THEN Off ELSE timer[p]]
          /\ failed' = failed \cup (DueEntries \ Again)
          /\ \E order \in [1 .. Cardinality(Again) -> Again] :
               /\ \A i, j \in DOMAIN order : i < j => order[i] > order[j]
               /\ IF ms = Lead + 1
                  THEN \E k \in 0 .. Len(Queued(order).data) :
                         /\ IsCut(Queued(order), k, Old)
                         /\ queue' = Cut(Queued(order), k)
                         /\ expired' = expired \cup
                              {Queued(order).data[j].packet : j \in k + 1 .. Len(Queued(order).data)}
                  ELSE queue' = Queued(order) /\ UNCHANGED expired
     ELSE UNCHANGED <<left, timer, failed, queue, expired>>
  /\ UNCHANGED <<slot, ms, pps, blocked, next, fresh, receiver, cells, air, got, acked, sends, faults>>

-----------------------------------------------------------------------------
(* tx_MAC: table_get_next_tx_message forgets what the previous timeslot    *)
(* sent; then S sends the first packet of its queue in the data part of a  *)
(* UNICAST_SEND timeslot, R the first acknowledgement of the queue of a    *)
(* RECEIVE timeslot in the acknowledgement part.                           *)
Before(s) == (s + NumSlots - 1) % NumSlots
Cleared   == [acks EXCEPT ![Before(slot)].sent = 0]

(* The counter of packets per timeslot is reset where it was first read. *)
CountPackets ==
  IF ms = Lead + 1
  THEN pps' = 0 /\ blocked' = FALSE /\ fresh' = {}
  ELSE UNCHANGED <<pps, blocked, fresh>>

(* Mutant: what is in the buffer waits for more packets. *)
SendsLastNever == FALSE

SendsData == ms \in 1 .. DataMs /\ slot \in sendSlots /\ ~IsEmpty(queue)
SendsAck  == ms > DataMs + 1 /\ slot \in recvSlots /\ acks[slot].data # <<>>
SendsLast == ms = SlotLen - 1 /\ slot \in recvSlots /\ acks[slot].data = <<>> /\ buffer # <<>>

(* Mutant: the clock starts with the entry only. *)
RestartedOnce(p) == IF left[p] = 0 THEN [timer EXCEPT ![p] = 0] ELSE timer

(* update_ack_needed_in_map: every transmission starts the clock again. *)
Restarted(p) == [timer EXCEPT ![p] = 0]

SendData ==
  LET p == Head(queue.data).packet IN
  /\ SendsData
  /\ queue' = GetData(queue)
  /\ left' = [left EXCEPT ![p] = IF @ = 0 THEN Tries ELSE @]
  /\ timer' = Restarted(p)
  /\ sends' = [sends EXCEPT ![p] = IF @ <= Tries THEN @ + 1 ELSE @]
  /\ air' = Append(air, [type |-> "data", slot |-> slot, packet |-> p])
  /\ acks' = Cleared
  /\ UNCHANGED buffer

SendAck ==
  /\ SendsAck
  /\ air' = Append(air, [type |-> "ack", slot |-> slot, packets |-> Head(acks[slot].data)])
  /\ acks' = [Cleared EXCEPT ![slot] = [data |-> Tail(@.data), sent |-> @.sent + 1]]
  /\ UNCHANGED <<buffer, queue, left, timer, sends>>

(* TDMA_prepare_and_send_last_ack: what is in the buffer leaves too. *)
SendLastAck ==
  /\ SendsLast
  /\ air' = Append(air, [type |-> "ack", slot |-> slot, packets |-> buffer])
  /\ acks' = Cleared
  /\ buffer' = <<>>
  /\ UNCHANGED <<queue, left, timer, sends>>

SendNothing ==
  /\ ~SendsData /\ ~SendsAck /\ ~SendsLast
  /\ air' = Append(air, Silence)
  /\ acks' = Cleared
  /\ UNCHANGED <<buffer, queue, left, timer, sends>>

TxMac ==
  /\ phase = "tx" /\ phase' = "rx"
  /\ CountPackets
  /\ SendData \/ SendAck \/ SendLastAck \/ SendNothing
  /\ UNCHANGED <<slot, ms, next, cells, got, acked, failed, expired, faults>>

-----------------------------------------------------------------------------
(* Mutants: room is what is not filled, whatever was sent; the next timeslot first. *)
RoomUnsent(s) == AckSlots - Len(acks[s].data)
DistanceLater(s) == (s + NumSlots - slot - 1) % NumSlots

(* table_add_ack: the nearest RECEIVE timeslot with room, from the current *)
(* one on; the current one again, for the next superframe, if none has.    *)
Room(s)        == AckSlots - (Len(acks[s].data) + acks[s].sent)
Distance(s)    == (s + NumSlots - slot) % NumSlots
WithRoom       == {s \in recvSlots : Room(s) >= 1}
Nearest(s)     == s \in WithRoom /\ \A r \in WithRoom : Distance(s) <= Distance(r)
AddAck(packets) ==
  \/ \E s \in recvSlots :
       /\ Nearest(s)
       /\ acks' = [acks EXCEPT ![s].data = Append(@, packets)]
  \/ /\ WithRoom = {}
     /\ IF slot \in recvSlots /\ acks[slot].sent > 0
        THEN acks' = [acks EXCEPT ![slot] = [data |-> Append(@.data, packets), sent |-> @.sent - 1]]
        ELSE UNCHANGED acks

(* R receives a packet: it is passed on, whether it came before or not,    *)
(* and a full buffer of acknowledgements is sent, or lost for lack of room.*)
HearData(p) ==
  /\ got' = got \cup {p}
  /\ IF Len(buffer) + 1 >= BufferSize
     THEN buffer' = <<>> /\ AddAck(Append(buffer, p))
     ELSE buffer' = Append(buffer, p) /\ UNCHANGED acks
  /\ UNCHANGED <<left, acked, faults>>

(* Mutant: an acknowledgement stands for all packets up to its last one. *)
HearAckCumulative(packets) ==
  LET named == {p \in Packets : \E i \in DOMAIN packets : p <= packets[i]} IN
  /\ left' = [p \in Packets |-> IF p \in named THEN 0 ELSE left[p]]
  /\ acked' = acked \cup {p \in named : left[p] > 0}
  /\ UNCHANGED <<receiver, got, faults>>

(* TDMA_handle_received_ack: an entry that is acknowledged is removed. *)
HearAck(packets) ==
  LET named == {packets[i] : i \in DOMAIN packets} IN
  /\ left' = [p \in Packets |-> IF p \in named THEN 0 ELSE left[p]]
  /\ acked' = acked \cup {p \in named : left[p] > 0}
  /\ UNCHANGED <<receiver, got, faults>>

NotHeard == UNCHANGED <<receiver, left, got, acked>>
Lost     == faults < MaxFaults /\ faults' = faults + 1 /\ NotHeard

(* A frame is heard by a station whose table has its timeslot, or lost. *)
Arrive(f) ==
  \/ f.type = "silence" /\ NotHeard /\ UNCHANGED faults
  \/ f.type = "data" /\ f.slot \in recvSlots /\ (HearData(f.packet) \/ Lost)
  \/ f.type = "data" /\ f.slot \notin recvSlots /\ NotHeard /\ UNCHANGED faults
  \/ f.type = "ack" /\ f.slot \in sendSlots /\ (HearAck(f.packets) \/ Lost)
  \/ f.type = "ack" /\ f.slot \notin sendSlots /\ NotHeard /\ UNCHANGED faults

Older(n, bound) == IF n < bound THEN n + 1 ELSE n
AgeTimers == timer' = [p \in Packets |-> IF timer[p] = Off THEN Off ELSE Older(timer[p], Timeout + 1)]
Aged(e)   == [e EXCEPT !.age = Older(@, QueueTimeout + 1)]
AgeQueue  == queue' = [queue EXCEPT !.data = [i \in DOMAIN queue.data |-> Aged(queue.data[i])]]

Receive ==
  /\ phase = "rx" /\ phase' = "other"
  /\ Arrive(Head(air)) /\ air' = Tail(air)
  /\ ms' = (ms + 1) % SlotLen
  /\ slot' = IF ms = SlotLen - 1 THEN (slot + 1) % NumSlots ELSE slot
  /\ AgeTimers /\ AgeQueue
  /\ UNCHANGED <<pps, blocked, next, fresh, cells, failed, expired, sends>>

-----------------------------------------------------------------------------
(* Slot selection changes the tables: a slot is added at R before S, each  *)
(* end can lose one at any time (add_slot, remove_slot; a RECEIVE timeslot *)
(* that is removed loses its acknowledgements).                            *)
ReceiverAdds(s) ==
  /\ s \notin recvSlots /\ recvSlots' = recvSlots \cup {s}
  /\ UNCHANGED <<slot, ms, phase, sender, receiver, sendSlots, air, history, faults>>

SenderAdds(s) ==
  /\ s \in recvSlots \ sendSlots /\ sendSlots' = sendSlots \cup {s}
  /\ UNCHANGED <<slot, ms, phase, sender, receiver, recvSlots, air, history, faults>>

ReceiverRemoves(s) ==
  /\ s \in recvSlots /\ recvSlots' = recvSlots \ {s}
  /\ faults < MaxFaults /\ faults' = faults + 1
  /\ acks' = [acks EXCEPT ![s] = [data |-> <<>>, sent |-> 0]]
  /\ UNCHANGED <<slot, ms, phase, sender, buffer, sendSlots, air, history>>

SenderRemoves(s) ==
  /\ s \in sendSlots /\ sendSlots' = sendSlots \ {s}
  /\ faults < MaxFaults /\ faults' = faults + 1
  /\ UNCHANGED <<slot, ms, phase, sender, receiver, recvSlots, air, history>>

Milliseconds == ProcessOther \/ TxMac \/ Receive
Next ==
  \/ Accept
  \/ Milliseconds
  \/ \E s \in Slots : ReceiverAdds(s) \/ SenderAdds(s) \/ ReceiverRemoves(s) \/ SenderRemoves(s)

Spec == Init /\ [][Next]_vars

(* The simulator runs the two periodic handlers and the channel for ever. *)
FairSpec == Spec /\ WF_vars(Milliseconds)

-----------------------------------------------------------------------------
(* The values the state can take. *)
DataTypeOK ==
  /\ slot \in Slots /\ ms \in 0 .. SlotLen - 1 /\ phase \in {"other", "tx", "rx"}
  /\ queue.data \in Seq(Elements) /\ queue.first \in Nat /\ queue.last \in Nat
  /\ pps \in 0 .. MaxPps - 1 /\ blocked \in BOOLEAN /\ next \in 1 .. MaxPackets + 1
  /\ left \in [Packets -> 0 .. Tries] /\ timer \in [Packets -> 0 .. Off]
  /\ sendSlots \subseteq Slots /\ recvSlots \subseteq Slots
  /\ buffer \in Seq(Packets)
  /\ acks \in [Slots -> [data : Seq(Seq(Packets)), sent : Nat]]
  /\ \A i \in DOMAIN air : air[i].type \in {"silence", "data", "ack"}
  /\ {fresh, got, acked, failed, expired} \subseteq SUBSET Packets
  /\ sends \in [Packets -> 0 .. Tries + 1] /\ faults \in 0 .. MaxFaults

(* The queue keeps its two counters true to its packets through every mix   *)
(* of new packets, retransmissions, departures and timeouts: TDMA_queue     *)
(* indexes its vector with them unchecked.                                  *)
QueueSound == SoundQueue(queue)

(* A RECEIVE timeslot never holds and has sent more acknowledgements than   *)
(* it has room for: get_free_size subtracts unsigned numbers, and           *)
(* table_add_ack calls a full timeslot one that "SHOULD NEVER HAPPEN".      *)
AckSlotBounded ==
  \A s \in Slots :
    /\ acks[s].sent >= 0 /\ Len(acks[s].data) + acks[s].sent <= AckSlots
    /\ s \notin recvSlots => acks[s].data = <<>>

(* A packet that was accepted is queued, or awaits its acknowledgement, or  *)
(* its fate is known; there is one copy of it queued at most, and an entry  *)
(* whose clock stands still is waiting for exactly that copy.               *)
Copies(p)  == Cardinality({i \in DOMAIN queue.data : queue.data[i].packet = p})
Awaited(p) == left[p] > 0
Settled(p) == p \in acked \cup failed \cup expired
NothingForgotten ==
  \A p \in 1 .. next - 1 :
    /\ Copies(p) > 0 \/ Awaited(p) \/ Settled(p)
    /\ Copies(p) <= 1
    /\ Awaited(p) => (timer[p] = Off <=> Copies(p) = 1)

(* What S counts as acknowledged, R has received, however late or out of   *)
(* order the acknowledgement came.                                         *)
AcknowledgedDelivered == acked \subseteq got

(* S sends a packet Tries times before it gives it up, and no more often:  *)
(* only one that was acknowledged while a copy was queued starts again.    *)
TriesUsed ==
  \A p \in Packets :
    /\ p \in failed => sends[p] >= Tries
    /\ p \notin acked => sends[p] <= Tries

(* While no frame is lost and no timeslot removed, no packet is sent twice *)
(* and none is given up: ACK_SLOT_GUARD_SPACE makes the timeout longer than *)
(* the wait for the acknowledgement.                                       *)
NoFalseAlarm ==
  faults = 0 => failed = {} /\ \A p \in Packets : sends[p] <= 1

(* When the last millisecond of a RECEIVE timeslot has been used, R holds   *)
(* no acknowledgement any more, neither in its buffer nor for a timeslot:   *)
(* none waits a superframe for its turn, with the timeout running at S.     *)
AcksLeaveInSlot ==
  [][TxMac /\ ms = SlotLen - 1 /\ slot \in recvSlots =>
       buffer' = <<>> /\ \A s \in Slots : acks'[s].data = <<>>]_vars

(* "DATA_ORDER OLDER_DATA_LAST" (tdma_queue.h:16): of the low class, what   *)
(* came since the counter was reset is in front of what came before, so    *)
(* that queue_check_timeout finds the expired packets at the end.          *)
OlderDataLast ==
  \A i, j \in queue.first + 1 .. queue.last :
    i < j /\ queue.data[j].packet \in fresh => queue.data[i].packet \in fresh

(* What S queues is what two lists would hold (ClassQueues): neither class  *)
(* takes a packet of the other, and no packet overtakes one of its own.     *)
Named(s) == [i \in DOMAIN s |-> s[i].packet]
classes == INSTANCE ClassQueues WITH
  high <- Named(SubSeq(queue.data, 1, queue.first)),
  low  <- Named(SubSeq(queue.data, queue.first + 1, Len(queue.data)))
ImplementsClassQueues == classes!Spec

(* Every packet that was accepted is settled, unless S is left without a    *)
(* timeslot for R: a retransmission has no timeout in the queue.            *)
PacketsSettle ==
  \A p \in Packets : (next > p) ~> (Settled(p) \/ sendSlots = {})
=============================================================================
