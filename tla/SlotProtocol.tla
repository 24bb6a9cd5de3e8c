---------------------------- MODULE SlotProtocol ----------------------------
(***************************************************************************)
(* The slot allocation protocol between stations: the MAC (MFTDMAMac) of   *)
(* every station between its slot selection, its slot table and the radio. *)
(*                                                                         *)
(* SlotSelection leaves the MAC open; here MacStep is replaced by what the *)
(* MAC does with a packet, an answer of the slot selection and a timer.    *)
(*                                                                         *)
(* Time.  Timers, sends of the application and transmissions happen on     *)
(* millisecond ticks; whatever they put on the MAC-AI bus, and a packet    *)
(* received at that tick, is handled in the same instant before the clock  *)
(* moves.  So an instant of a station is: some of its timers run, at most  *)
(* one packet arrives (two packets at one receiver at one time destroy     *)
(* each other), then the bus is drained.  draining[n] holds from the first *)
(* message handled to the last.                                            *)
(*                                                                         *)
(* Radio.  Packets of the protocol leave a station in the order in which   *)
(* they were queued.  A transmission reaches some of those it is meant     *)
(* for.  One that asks for a control acknowledgement is sent again later,  *)
(* RETRY_COUNTER_MAX times in all, unless the acknowledgement comes back;  *)
(* it may be received several times, and every copy is processed.  With    *)
(* Reliable every packet arrives and every acknowledgement comes back;     *)
(* with Prompt the broadcast slots carry a proposal to the peer, and its   *)
(* result back, before the station asks for slots to that peer again.      *)
(***************************************************************************)
EXTENDS SlotSelection, SequencesExt

CONSTANTS Tries,     \* RETRY_COUNTER_MAX: transmissions of a control packet
          Reliable,  \* whether nothing is lost on the radio
          Prompt,    \* whether the packets of an offer that expired are gone
                     \* before its station makes another to that peer
          MaxQueue   \* bound: no proposal, removal or advertisement of a
                     \* station begins while it has so many packets to send or to resend

ASSUME StationAssumption == Station = Node
ASSUME RadioAssumption   == /\ Tries \in Nat \ {0} /\ Reliable \in BOOLEAN
                            /\ Prompt \in BOOLEAN /\ MaxQueue \in Nat

VARIABLES table,       \* table[n]: the superframe table of n (TDMA_table)
          procedures,  \* procedures[n]: procedures_table, by transaction id
          lock,        \* lock[n]: final_slot_allocation_in_progress
          queue,       \* queue[n]: packets waiting for a broadcast slot
          unacked,     \* unacked[n]: packets sent, not acknowledged, to be resent
          draining     \* draining[n]: the bus of n is being drained

macVars   == <<table, procedures, lock>>
radioVars == <<queue, unacked>>
vars      == <<selVars, macVars, radioVars, draining>>

-----------------------------------------------------------------------------
(* Packets and table entries *)

UnusedSlot == [use |-> "UNUSED", mac |-> NoMac]
TableEntry == [use : {"SEND", "RECEIVE"}, mac : Node] \cup {UnusedSlot}

AddSlotPacket(mac, slots) == [type |-> "ADD_SLOT", dst |-> mac, slots |-> slots]
ResultPacket(mac, c)      == [type |-> "RESULT", dst |-> mac, slots |-> {c}]
DeletePacket(mac, c)      == [type |-> "DELETE", dst |-> mac, slots |-> {c}]
AckPacket(action, mac, c) == [type |-> action, dst |-> mac, slots |-> {c}]
AdvertPacket(slots)       == [type |-> "ADVERTISE", dst |-> NoMac, slots |-> slots]

Unicast   == {"ADD_SLOT", "RESULT", "DELETE"}
Broadcast == {"ACK_ADD", "ACK_DELETE", "ADVERTISE"}
Packet    == [type : Unicast, dst : Node, slots : SUBSET Cell]
               \cup [type : Broadcast, dst : Node \cup {NoMac}, slots : SUBSET Cell]
Entry     == [packet : Packet, tries : 1 .. Tries]

(* Mutant: packets are not filtered by their destination. *)
Everyone(n, p) == Node \ {n}

(* Who acts on a packet of n.  Those a transaction is between ignore the      *)
(* broadcast that announces it, so one that nobody else could hear is not     *)
(* queued at all.                                                             *)
Audience(n, p) ==
  CASE p.type \in Unicast       -> {p.dst}
    [] p.type = "ADVERTISE"     -> Node \ {n}
    [] OTHER                    -> Node \ {n, p.dst}

IfHeard(n, p) == IF Audience(n, p) = {} THEN <<>> ELSE <<p>>

(* Mutant: a new packet overtakes those that wait. *)
QueuedInFront(n, packets) ==
  [i \in DOMAIN packets |-> [packet |-> packets[i], tries |-> Tries]] \o queue[n]

Queued(n, packets) ==
  queue[n] \o [i \in DOMAIN packets |-> [packet |-> packets[i], tries |-> Tries]]

Sends(n, packets) == /\ queue' = [queue EXCEPT ![n] = Queued(n, packets)]
                     /\ UNCHANGED unacked

Receptions         == [to : {"MAC"}, type : {"RECEIVE"}, src : Node, packet : Packet]
Reception(from, p) == [to |-> "MAC", type |-> "RECEIVE", src |-> from, packet |-> p]

IsPacket(p, type, mac) == p.type = type /\ p.dst = mac
Brought(m, type, mac)  == m.type = "RECEIVE" /\ m.src = mac /\ m.packet.type = type

(* What SlotSelection leaves open of its surroundings is as wide as it can be. *)
ASSUME OpenAssumption == /\ RequestId = Id /\ Offer = SUBSET Cell
                         /\ Announcement = SUBSET Cell /\ RadioMessage = Receptions
                         /\ 0 < MaxBus /\ MaxBus < MaxHeard

-----------------------------------------------------------------------------
(* The slot table (TDMA_table) and the procedures *)

ExistsTo(n, mac, c)   == table[n][c] = [use |-> "SEND", mac |-> mac]
(* Mutant: a slot of the peer anywhere in the table counts as this slot. *)
ExistsFromAnywhere(n, mac, c) ==
  \E d \in Cell : table[n][d] = [use |-> "RECEIVE", mac |-> mac]
ExistsFrom(n, mac, c) == table[n][c] = [use |-> "RECEIVE", mac |-> mac]

AddTableSlot(n, c, use, mac) ==
  IF table[n][c] = UnusedSlot
  THEN [table EXCEPT ![n][c] = [use |-> use, mac |-> mac]] ELSE table

(* Mutants: the entry keeps its peer; only a slot that is sent in is removed. *)
ClearTableUse(n, c) == [table EXCEPT ![n][c].use = "UNUSED"]
RemoveSendSlot(n, c) ==
  IF table[n][c].use = "SEND" THEN [table EXCEPT ![n][c] = UnusedSlot] ELSE table

RemoveTableSlot(n, c) == [table EXCEPT ![n][c] = UnusedSlot]

Announcements == [set : {"BC_SLOTS"}]
Allocations   == [set : {"ALLOCATION"}, mode : Mode, mac : Node, slot : Cell]
Removals      == [set : {"REMOVAL"}, mac : Node, slot : Cell]
Procedure     == Announcements \cup Allocations \cup Removals

Known(n, id)        == id \in DOMAIN procedures[n]
(* Mutant: the procedure is stored under the next id. *)
RememberLate(n, id, p) == procedures' = [procedures EXCEPT ![n] =
                            [i \in DOMAIN @ \cup {id + 1} |-> IF i = id + 1 THEN p ELSE @[i]]]
Remember(n, id, p)  == procedures' = [procedures EXCEPT ![n] =
                         [i \in DOMAIN @ \cup {id} |-> IF i = id THEN p ELSE @[i]]]
Forget(n, id)       == procedures' = [procedures EXCEPT ![n] =
                         [i \in DOMAIN @ \ {id} |-> @[i]]]

(* Mutant: the counter is advanced twice. *)
SkipId(n)  == nextId' = [nextId EXCEPT ![n] = @ + 2]
FreshId(n) == nextId' = [nextId EXCEPT ![n] = @ + 1]

(* TDMA_send_SET_slot_allocation_to_AI, with what the bus holds before it. *)
SetSlotAllocation(n, mac, mode, c) ==
  /\ lock' = [lock EXCEPT ![n] = TRUE]
  /\ Remember(n, nextId[n], [set |-> "ALLOCATION", mode |-> mode, mac |-> mac, slot |-> c])
  /\ FreshId(n)
  /\ Answers(n, <<[to |-> "AI", type |-> "SET_ALLOCATION", id |-> nextId[n],
                   mac |-> mac, mode |-> mode, slot |-> c]>>)

(* Mutant: a removal takes the lock too. *)
SetSlotRemovalLocked(n, mac, c) ==
  /\ Remember(n, nextId[n], [set |-> "REMOVAL", mac |-> mac, slot |-> c])
  /\ FreshId(n)
  /\ Answers(n, <<[to |-> "AI", type |-> "SET_REMOVAL", id |-> nextId[n],
                   mac |-> mac, slot |-> c]>>)
  /\ lock' = [lock EXCEPT ![n] = TRUE]

SetSlotRemoval(n, mac, c) ==
  /\ Remember(n, nextId[n], [set |-> "REMOVAL", mac |-> mac, slot |-> c])
  /\ FreshId(n)
  /\ Answers(n, <<[to |-> "AI", type |-> "SET_REMOVAL", id |-> nextId[n],
                   mac |-> mac, slot |-> c]>>)
  /\ UNCHANGED lock

-----------------------------------------------------------------------------
ProtocolInit ==
  /\ Init
  /\ table      = [n \in Node |-> [c \in Cell |-> UnusedSlot]]
  /\ procedures = [n \in Node |-> [i \in {0} |-> [set |-> "BC_SLOTS"]]]
  /\ lock       = [n \in Node |-> FALSE]
  /\ queue      = [n \in Node |-> <<>>]
  /\ unacked    = [n \in Node |-> <<>>]
  /\ draining   = [n \in Node |-> FALSE]

-----------------------------------------------------------------------------
(* process_AI_message: what the MAC does with the slot selection's messages *)

SendProposal(n) ==
  LET m == Head(bus[n])
  IN  /\ Addressed(n, "MAC", "GETR_PROPOSED")
      /\ Sends(n, IF m.slots = {} THEN <<>> ELSE <<AddSlotPacket(m.mac, m.slots)>>)
      /\ Answers(n, <<>>)
      /\ UNCHANGED <<nextId, macVars>>

(* The result is sent to the peer, then the selection is made final here. *)
SendSelection(n) ==
  LET m == Head(bus[n])
  IN  /\ Addressed(n, "MAC", "GETR_SELECTED")
      /\ \/ /\ m.slot = NoSlot
            /\ Answers(n, <<>>)
            /\ UNCHANGED <<nextId, macVars, radioVars>>
         \/ /\ m.slot # NoSlot
            /\ Sends(n, <<ResultPacket(m.mac, m.slot)>>)
            /\ SetSlotAllocation(n, m.mac, "RX", m.slot)
            /\ UNCHANGED table

(* The slot selection removes a slot: the peer is told, the table follows and *)
(* the answer is OK even if the table did not have the slot.                  *)
RemoveForSelection(n) ==
  LET m == Head(bus[n])
  IN  /\ Addressed(n, "MAC", "SET_REMOVAL")
      /\ Sends(n, <<DeletePacket(m.mac, m.slot)>>
                 \o IfHeard(n, AckPacket("ACK_DELETE", m.mac, m.slot)))
      /\ table' = IF ExistsTo(n, m.mac, m.slot) \/ ExistsFrom(n, m.mac, m.slot)
                  THEN RemoveTableSlot(n, m.slot) ELSE table
      /\ Answers(n, <<[to |-> "AI", type |-> "SETR", id |-> m.id, result |-> "OK"]>>)
      /\ UNCHANGED <<nextId, procedures, lock>>

(* The answer to an allocation.  The table takes the slot if it is unused. *)
FinishAllocation(n) ==
  LET m == Head(bus[n])
      p == procedures[n][m.id]
  IN  /\ Addressed(n, "MAC", "SETR")
      /\ Known(n, m.id) /\ p.set = "ALLOCATION"
      /\ \/ /\ m.result = "OK"
            /\ table' = IF ExistsFrom(n, p.mac, p.slot) THEN table
                        ELSE AddTableSlot(n, p.slot,
                               IF p.mode = "TX" THEN "SEND" ELSE "RECEIVE", p.mac)
            /\ Sends(n, IfHeard(n, AckPacket("ACK_ADD", p.mac, p.slot)))
         \/ /\ m.result = "NOK"
            /\ Sends(n, IF p.mode = "TX" THEN <<DeletePacket(p.mac, p.slot)>> ELSE <<>>)
            /\ UNCHANGED table
      /\ lock' = [lock EXCEPT ![n] = FALSE]
      /\ Forget(n, m.id)
      /\ Answers(n, <<>>)
      /\ UNCHANGED nextId

FinishRemoval(n) ==
  LET m == Head(bus[n])
      p == procedures[n][m.id]
  IN  /\ Addressed(n, "MAC", "SETR")
      /\ Known(n, m.id) /\ p.set = "REMOVAL"
      /\ table' = IF m.result = "OK" THEN RemoveTableSlot(n, p.slot) ELSE table
      /\ Sends(n, IF m.result = "OK" THEN IfHeard(n, AckPacket("ACK_DELETE", p.mac, p.slot))
                                     ELSE <<>>)
      /\ Forget(n, m.id)
      /\ Answers(n, <<>>)
      /\ UNCHANGED <<nextId, lock>>

(* The answer to the broadcast slots; an answer to nothing would be ignored. *)
FinishOther(n) ==
  LET m == Head(bus[n])
  IN  /\ Addressed(n, "MAC", "SETR")
      /\ Known(n, m.id) => procedures[n][m.id].set = "BC_SLOTS"
      /\ Forget(n, m.id)
      /\ Answers(n, <<>>)
      /\ UNCHANGED <<nextId, table, lock, radioVars>>

-----------------------------------------------------------------------------
(* Receive: what the MAC does with a packet *)

Received(n, type) == /\ Addressed(n, "MAC", "RECEIVE")
                     /\ Head(bus[n]).packet.type = type

ReceiveAddSlot(n) ==
  /\ Received(n, "ADD_SLOT")
  /\ Answers(n, <<[to |-> "AI", type |-> "GET_SELECTED", id |-> 0,
                   mac |-> Head(bus[n]).src, slots |-> Head(bus[n]).packet.slots]>>)
  /\ UNCHANGED <<nextId, macVars, radioVars>>

ReceiveResult(n) ==
  /\ Received(n, "RESULT")
  /\ \E c \in Head(bus[n]).packet.slots : SetSlotAllocation(n, Head(bus[n]).src, "TX", c)
  /\ UNCHANGED <<table, radioVars>>

ReceiveDelete(n) ==
  /\ Received(n, "DELETE")
  /\ \E c \in Head(bus[n]).packet.slots : SetSlotRemoval(n, Head(bus[n]).src, c)
  /\ UNCHANGED <<table, radioVars>>

ReceiveAdvertisement(n) ==
  /\ Received(n, "ADVERTISE") \/ Received(n, "ACK_ADD")
  /\ Answers(n, <<[to |-> "AI", type |-> "SET_EXTERNAL_USED", src |-> Head(bus[n]).src,
                   slots |-> Head(bus[n]).packet.slots]>>)
  /\ UNCHANGED <<nextId, macVars, radioVars>>

ReceiveAckDelete(n) ==
  /\ Received(n, "ACK_DELETE")
  /\ \E c \in Head(bus[n]).packet.slots :
       Answers(n, <<[to |-> "AI", type |-> "SET_EXTERNAL_FREE", slot |-> c]>>)
  /\ UNCHANGED <<nextId, macVars, radioVars>>

-----------------------------------------------------------------------------
(* What a tick brings: it is put on the bus, to be handled after the timers. *)

Backlog(n) == Len(queue[n]) + Len(unacked[n])

HasId(n) == nextId[n] + Len(bus[n]) < MaxId

Request(n, m) ==
  /\ Len(bus[n]) < MaxBus /\ Backlog(n) < MaxQueue /\ HasId(n)
  /\ bus' = [bus EXCEPT ![n] = Append(@, m)]
  /\ UNCHANGED <<gridVars, nextId, macVars, radioVars>>

GetProposedSlots(mac) == [to |-> "AI", type |-> "GET_PROPOSED", id |-> 0, mac |-> mac]

(* The slots n offered to mac are on their way to it, or its result is to n. *)
ExchangeUnderWay(n, mac) ==
  \/ \E i \in DOMAIN queue[n]   : IsPacket(queue[n][i].packet, "ADD_SLOT", mac)
  \/ \E i \in DOMAIN bus[mac]   : Brought(bus[mac][i], "ADD_SLOT", n)
  \/ \E i \in DOMAIN queue[mac] : IsPacket(queue[mac][i].packet, "RESULT", n)
  \/ \E i \in DOMAIN bus[n]     : Brought(bus[n][i], "RESULT", mac)

RequestSlots(n, mac) ==
  /\ Prompt /\ mac \notin pendingTx[n] => ~ExchangeUnderWay(n, mac)
  /\ Request(n, GetProposedSlots(mac))

(* TDMA_MAC_send: a first packet for a peer to which no slot exists. *)
AppSend(n) ==
  \E mac \in Node \ {n} :
    /\ \A c \in Cell : ~ExistsTo(n, mac, c)
    /\ ~lock[n]
    /\ RequestSlots(n, mac)

(* process_other_MAC: packets for a peer waited too long.  The lock is not read. *)
QueueTimeout(n) == \E mac \in Node \ {n} : RequestSlots(n, mac)

(* process_other_MAC: acknowledgement statistics of a slot that is sent in. *)
SendStatistics(n) ==
  \E c \in Cell : /\ table[n][c].use = "SEND"
                  /\ Request(n, [to |-> "AI", type |-> "STATS", slot |-> c])

(* process_other_MAC: the advertisement of the slots in use, if there are any. *)
Advertise(n) ==
  LET active == {c \in Cell : table[n][c] # UnusedSlot}
  IN  /\ active # {} /\ Backlog(n) < MaxQueue
      /\ Sends(n, IfHeard(n, AdvertPacket(active)))
      /\ UNCHANGED <<selVars, macVars>>

(* interloop_steps.  A removal begun in this very instant has not expired.   *)
SelectionTimers(n) ==
  /\ HasId(n) /\ Backlog(n) < MaxQueue
  /\ InterloopSteps(n)
  /\ \A i \in DOMAIN bus[n] :
       bus[n][i].type = "SET_REMOVAL" => bus[n][i].id \in removals'[n]
  /\ Prompt => \A i \in DOMAIN bus[n] :
                 bus[n][i].type = "GET_PROPOSED" /\ bus[n][i].mac \notin pendingTx'[n]
                 => ~ExchangeUnderWay(n, bus[n][i].mac)
  /\ UNCHANGED <<macVars, radioVars>>

(* tx_MAC in a broadcast slot.  A packet that was not acknowledged may be    *)
(* sent again; unless the radio is reliable it may also be dropped for good. *)
CanReceive(n) == /\ HasId(n)
                 /\ \A i \in DOMAIN bus[n] : bus[n][i].type # "RECEIVE"

Transmit(n) ==
  /\ queue[n] # <<>>
  /\ LET e        == Head(queue[n])
         audience == Audience(n, e.packet)
     IN  \E heard \in IF Reliable THEN {audience} ELSE SUBSET audience :
           /\ \A m \in heard : CanReceive(m)
           /\ bus' = [m \in Node |-> IF m \in heard
                                     THEN Append(bus[m], Reception(n, e.packet))
                                     ELSE bus[m]]
           /\ queue' = [queue EXCEPT ![n] = Tail(@)]
           /\ \/ UNCHANGED unacked
              \/ /\ ~Reliable /\ e.packet.type \in Unicast /\ e.tries > 1
                 /\ unacked' = [unacked EXCEPT ![n] =
                                  Append(@, [e EXCEPT !.tries = @ - 1])]
  /\ UNCHANGED <<gridVars, nextId, macVars>>

(* process_other_MAC: an acknowledgement timed out. *)
Retransmit(n) ==
  /\ \E i \in DOMAIN unacked[n] :
       /\ queue'   = [queue EXCEPT ![n] = Append(@, unacked[n][i])]
       /\ unacked' = [unacked EXCEPT ![n] = RemoveAt(@, i)]
  /\ UNCHANGED <<selVars, macVars>>

-----------------------------------------------------------------------------
MacHandles(n) ==
  \/ SendProposal(n) \/ SendSelection(n) \/ RemoveForSelection(n)
  \/ FinishAllocation(n) \/ FinishRemoval(n) \/ FinishOther(n)
  \/ ReceiveAddSlot(n) \/ ReceiveResult(n) \/ ReceiveDelete(n)
  \/ ReceiveAdvertisement(n) \/ ReceiveAckDelete(n)

SelectionHandles(n) ==
  \/ AllocateReservedSlots(n) \/ IgnoreRequest(n) \/ ProposeSlots(n) \/ SelectSlot(n)
  \/ AllocateSlot(n) \/ RefuseAllocation(n) \/ RemoveSlot(n) \/ ProcessSetResponse(n)
  \/ ExternalSlotsAllocated(n) \/ ExternalSlotRemoved(n) \/ ProcessStats(n)

(* Between its ticks a station touches nothing of another, so the instants of *)
(* two stations are taken one after the other.                               *)
Drain(n) ==
  /\ \A m \in Node \ {n} : ~draining[m]
  /\ \/ MacHandles(n) /\ UNCHANGED gridVars
     \/ SelectionHandles(n) /\ UNCHANGED <<macVars, radioVars>>
  /\ draining' = [draining EXCEPT ![n] = bus'[n] # <<>>]

Tick(n) ==
  /\ \A m \in Node : ~draining[m]
  /\ \/ AppSend(n) \/ QueueTimeout(n) \/ SendStatistics(n) \/ Advertise(n)
     \/ SelectionTimers(n) \/ Transmit(n) \/ Retransmit(n)
  /\ UNCHANGED draining

ProtocolNext == \E n \in Node : Drain(n) \/ Tick(n)

ProtocolSpec == ProtocolInit /\ [][ProtocolNext]_vars
-----------------------------------------------------------------------------
(* Properties *)

ProtocolTypeOK ==
  /\ \A n \in Node : \A i \in DOMAIN bus[n] : bus[n][i] \in ToAI \cup ToMac
  /\ table      \in [Node -> [Cell -> TableEntry]]
  /\ \A n \in Node : /\ DOMAIN procedures[n] \subseteq Id
                      /\ \A id \in DOMAIN procedures[n] : procedures[n][id] \in Procedure
  /\ lock       \in [Node -> BOOLEAN]
  /\ \A n \in Node : \A e \in Range(queue[n]) \cup Range(unacked[n]) : e \in Entry
  /\ draining   \in [Node -> BOOLEAN]

Quiet(n) == bus[n] = <<>>

(* The MAC keeps a procedure for every answer it gets: the case that         *)
(* process_AI_message calls impossible (an id that is not in the table of    *)
(* active procedures) never arises, and no two answers share a procedure.    *)
AnswersExpected ==
  \A n \in Node : \A i \in DOMAIN bus[n] :
    bus[n][i].to = "MAC" /\ bus[n][i].type = "SETR"
    => /\ Known(n, bus[n][i].id)
       /\ \A j \in DOMAIN bus[n] :
            bus[n][j].to = "MAC" /\ bus[n][j].type = "SETR" /\ bus[n][j].id = bus[n][i].id
            => i = j

(* The selection that a station announced to its peer is always confirmed,   *)
(* and in the instant that made it: an allocation for reception is never     *)
(* refused although timers, other packets and removals share the instant     *)
(* with it (the comment in process_AI_message that calls it impossible), and *)
(* between instants no cell waits as PROPOSED_RX, where it could be lost.    *)
NeverRefused ==
  \A n \in Node : \A i \in DOMAIN bus[n] :
    /\ bus[n][i].to = "MAC" /\ bus[n][i].type = "SETR" /\ bus[n][i].result = "NOK"
    /\ Known(n, bus[n][i].id)
    => LET p == procedures[n][bus[n][i].id] IN p.set = "ALLOCATION" => p.mode = "TX"

SelectionOver ==
  \A n \in Node : Quiet(n) =>
    /\ pendingRx[n] = {}
    /\ \A c \in Cell : grid[n][c].state # "PROPOSED_RX"

SelectionConfirmed == NeverRefused /\ SelectionOver

(* The lock is held exactly while an allocation waits for its answer: it is  *)
(* never released early by another answer and never kept between instants.   *)
LockHeld ==
  \A n \in Node :
    lock[n] <=> \E id \in DOMAIN procedures[n] : procedures[n][id].set = "ALLOCATION"

(* Between instants the MAC can use every slot its slot selection allocated, *)
(* in the same mode and for the same peer (on a radio that loses nothing and *)
(* is in time: MCProtocolGhost shows what a repeated result does).           *)
AllocatedInTable ==
  \A n \in Node, c \in Cell :
    Quiet(n) /\ IsSlotAllocated(grid[n], c)
    => table[n][c] = [use |-> IF grid[n][c].state = "TX" THEN "SEND" ELSE "RECEIVE",
                      mac |-> grid[n][c].mac]

(* Between instants the MAC uses no slot that its slot selection does not    *)
(* know to be allocated to that peer: it never sends or listens in a slot    *)
(* that the slot selection may offer to another.                             *)
TableAllocated ==
  \A n \in Node, c \in Cell :
    Quiet(n) /\ table[n][c] # UnusedSlot => IsSlotAllocatedFor(grid[n], c, table[n][c].mac)

(* A DELETE of the slot waits at m for n, or one of the two is in an instant. *)
DeleteOnItsWay(m, n, c) ==
  \/ \E i \in DOMAIN queue[m] : queue[m][i].packet = DeletePacket(n, c)
  \/ ~Quiet(n) \/ ~Quiet(m)

(* On a radio that loses nothing and is in time, the slot a station sends in *)
(* is one its peer listens to, or a message that ends it is on its way.      *)
SenderHasListener ==
  Reliable /\ Prompt =>
    \A n \in Node, c \in Cell :
      grid[n][c].state = "TX" =>
        LET m == grid[n][c].mac
        IN  \/ grid[m][c].state = "RX" /\ grid[m][c].mac = n
            \/ DeleteOnItsWay(m, n, c)

(* On such a radio, a slot a station listens to is one its peer sends in, or *)
(* the result that makes the peer send, or a message that ends it, is on its *)
(* way: no receiver is left tuned to a slot nobody will ever send in.        *)
ListenerHasSender ==
  Reliable /\ Prompt =>
    \A n \in Node, c \in Cell :
      grid[n][c].state = "RX" =>
        LET m == grid[n][c].mac
        IN  \/ grid[m][c].state = "TX" /\ grid[m][c].mac = n
            \/ DeleteOnItsWay(m, n, c)
            \/ \E i \in DOMAIN queue[n] : queue[n][i].packet = ResultPacket(m, c)

-----------------------------------------------------------------------------
(* The MAC modelled here is one that SlotSelection allows for: every step of  *)
(* the protocol is a step of the slot selection with its MAC left open, or    *)
(* changes nothing there.  What is proved of SlotSelection holds of the       *)
(* stations here.                                                             *)
ImplementsSlotSelection == Spec

(* Zero-delay events are handled before the clock moves. *)
ProtocolFairSpec == ProtocolSpec /\ \A n \in Node : SF_vars(Drain(n))

(* The lock is always released: whatever arrives or expires meanwhile, the    *)
(* answer to every allocation comes in its instant and clears it.  A lock     *)
(* that stays would stop every later first packet to a new peer from asking   *)
(* for a slot.                                                                *)
LockReleased == \A n \in Node : lock[n] ~> ~lock[n]
=============================================================================
