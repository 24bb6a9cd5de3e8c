---------------------------- MODULE SlotSelection ----------------------------
(***************************************************************************)
(* The slot selection module of a station (SlotSelectionAIModule and its   *)
(* subclass RandomSlotSelection, "the AI" in the sources): it owns the     *)
(* slot grid, answers the MAC's requests over the MAC-AI bus and checks    *)
(* its timeouts in interloop_steps().                                      *)
(*                                                                         *)
(* The bus.  SendMacAIMessage schedules every message, in either           *)
(* direction, with Simulator::ScheduleNow: the messages of one station     *)
(* are handled in the order they were sent, in zero simulated time.        *)
(* bus[n] is that one queue.  What a message carries is kept as far as a   *)
(* handler looks at it; the list of proposed slots is shuffled by its      *)
(* sender, so it is a set.                                                 *)
(*                                                                         *)
(* The MAC is left open here: it takes what is addressed to it and sends   *)
(* any request at any time (MacStep); a packet that it receives waits its  *)
(* turn among the messages (PacketHeard).  What holds in this module holds *)
(* whatever the MAC, the channel and the other stations do; the module     *)
(* SlotProtocol puts the real MAC in its place.                            *)
(***************************************************************************)
EXTENDS SlotGrid, Sequences, FiniteSets

CONSTANTS Station,       \* the stations whose slot selection is modelled
          Reserved,      \* the broadcast slots, reserved at start-up
          MaxProposals,  \* MAX_NUMBER_PROPOSED_SLOTS
          MaxId,         \* bound: transaction ids run from 0 to MaxId
          RequestId,     \* the ids that the MAC's requests may carry
          Offer,         \* the sets of slots that a peer may offer
          Announcement,  \* the sets of slots that one packet may announce
          RadioMessage,  \* the packets that a MAC may receive, as messages to it
          MaxBus,        \* bound: no request or timer adds to a bus of this length
          MaxHeard       \* bound: no packet is received on a bus of this length

ASSUME ReservedAssumption == Reserved \subseteq Cell
ASSUME BoundAssumption    == MaxProposals \in Nat /\ MaxId \in Nat
                             /\ MaxBus \in Nat /\ MaxHeard \in Nat
ASSUME RequestAssumption  == /\ RequestId \subseteq 0 .. MaxId
                             /\ Offer \subseteq SUBSET Cell
                             /\ Announcement \subseteq SUBSET Cell
ASSUME RadioMessageAssumption ==
  \A m \in RadioMessage : m.to = "MAC" /\ m.type = "RECEIVE"

VARIABLES grid,       \* grid[n]: the slot grid of station n
          pendingTx,  \* pendingTx[n]: peers with a TX proposal open
          pendingRx,  \* pendingRx[n]: peers with an RX selection open
          removals,   \* removals[n]: ids of the removal transactions under way
          external,   \* external[n]: cells that others announced as used
          nextId,     \* nextId[n]: the next fresh transaction id
          bus         \* bus[n]: the MAC-AI bus of station n

gridVars == <<grid, pendingTx, pendingRx, removals, external>>
selVars  == <<grid, pendingTx, pendingRx, removals, external, nextId, bus>>

-----------------------------------------------------------------------------
(* Messages *)

Id     == 0 .. MaxId
Mode   == {"TX", "RX"}
Result == {"OK", "NOK"}

GetProposed      == [to : {"AI"}, type : {"GET_PROPOSED"}, id : RequestId, mac : Node]
GetSelected      == [to : {"AI"}, type : {"GET_SELECTED"}, id : RequestId, mac : Node,
                     slots : Offer]
SetAllocation    == [to : {"AI"}, type : {"SET_ALLOCATION"}, id : RequestId, mac : Node,
                     mode : Mode, slot : Cell]
SetRemoval       == [to : {"AI"}, type : {"SET_REMOVAL"}, id : RequestId, mac : Node,
                     slot : Cell]
(* The announcements that one packet causes follow each other on the bus: one *)
(* message with the set of slots.  `src' is the announcing station.           *)
SetExternalUsed  == [to : {"AI"}, type : {"SET_EXTERNAL_USED"}, src : Node,
                     slots : Announcement]
SetExternalFree  == [to : {"AI"}, type : {"SET_EXTERNAL_FREE"}, slot : Cell]
(* The MAC answers a removal with OK whatever it finds in its table. *)
RemovalDone      == [to : {"AI"}, type : {"SETR"}, id : Id, result : {"OK"}]
(* An acknowledgement statistic of one slot, or a reception on it. *)
Stats            == [to : {"AI"}, type : {"STATS"}, slot : Cell]

SetBcSlots == [to |-> "AI", type |-> "SET_BC_SLOTS", id |-> 0]

(* What a MAC may send at any time; the broadcast slots it sends once, at start. *)
MacRequest == GetProposed \cup GetSelected \cup SetAllocation \cup SetRemoval
                \cup SetExternalUsed \cup SetExternalFree \cup RemovalDone \cup Stats
ToAI == MacRequest \cup {SetBcSlots}

ToMac ==      [to : {"MAC"}, type : {"GETR_PROPOSED"}, id : Id, mac : Node,
               slots : SUBSET Cell]
         \cup [to : {"MAC"}, type : {"GETR_SELECTED"}, id : Id, mac : Node,
               slot : Cell \cup {NoSlot}]
         \cup [to : {"MAC"}, type : {"SET_REMOVAL"}, id : Id, mac : Node, slot : Cell]
         \cup [to : {"MAC"}, type : {"SETR"}, id : Id, result : Result]
         \cup RadioMessage

Addressed(n, to, type) == /\ bus[n] # <<>>
                          /\ Head(bus[n]).to = to
                          /\ Head(bus[n]).type = type

(* The head of n's bus is handled; `sent' is what its handler sends. *)
Answers(n, sent) == bus' = [bus EXCEPT ![n] = Tail(@) \o sent]

SetR(id, ok) == [to |-> "MAC", type |-> "SETR", id |-> id,
                 result |-> IF ok THEN "OK" ELSE "NOK"]

-----------------------------------------------------------------------------
(* Initial state: an empty grid; the MAC has just sent the broadcast slots. *)

Init ==
  /\ grid      = [n \in Station |-> EmptyGrid]
  /\ pendingTx = [n \in Station |-> {}]
  /\ pendingRx = [n \in Station |-> {}]
  /\ removals  = [n \in Station |-> {}]
  /\ external  = [n \in Station |-> {}]
  /\ nextId    = [n \in Station |-> 1]
  /\ bus       = [n \in Station |-> <<SetBcSlots>>]

-----------------------------------------------------------------------------
(* The handlers of process_message *)

AllocateReservedSlots(n) ==
  /\ Addressed(n, "AI", "SET_BC_SLOTS")
  /\ grid' = [grid EXCEPT ![n] = SetSlotsReserved(@, Reserved)]
  /\ Answers(n, <<SetR(Head(bus[n]).id, TRUE)>>)
  /\ UNCHANGED <<pendingTx, pendingRx, removals, external, nextId>>

(* A request for a peer whose last proposal is still open is dropped silently. *)
IgnoreRequest(n) ==
  /\ Addressed(n, "AI", "GET_PROPOSED")
  /\ Head(bus[n]).mac \in pendingTx[n]
  /\ Answers(n, <<>>)
  /\ UNCHANGED <<gridVars, nextId>>

(* propose_tx_slots: any MaxProposals of the slots that are available to    *)
(* transmit and that nobody announced, or all of them if there are fewer.   *)
TxCandidates(n) == {c \in Cell : IsSlotAvailableTX(grid[n], c) /\ c \notin external[n]}

TxChoices(n) ==
  {S \in SUBSET TxCandidates(n) :
     \/ Cardinality(S) = MaxProposals
     \/ Cardinality(S) < MaxProposals /\ S = TxCandidates(n)}

(* setSlotPending on every proposed slot; one that is refused is left out. *)
ProposeSlots(n) ==
  LET m == Head(bus[n])
  IN  /\ Addressed(n, "AI", "GET_PROPOSED")
      /\ m.mac \notin pendingTx[n]
      /\ \E choice \in TxChoices(n) :
           LET accepted == {c \in choice :
                              IsSetPendingAllowed(grid[n], c, "PROPOSED_TX", m.mac)}
           IN  /\ grid' = [grid EXCEPT ![n] = [c \in Cell |->
                             IF c \in accepted
                             THEN [state |-> "PROPOSED_TX", mac |-> m.mac, removal |-> 0]
                             ELSE @[c]]]
               /\ pendingTx' = [pendingTx EXCEPT ![n] =
                                  IF accepted = {} THEN @ ELSE @ \cup {m.mac}]
               /\ Answers(n, <<[to |-> "MAC", type |-> "GETR_PROPOSED", id |-> m.id,
                                mac |-> m.mac, slots |-> accepted]>>)
      /\ UNCHANGED <<pendingRx, removals, external, nextId>>

(* select_rx_slot: the first of the shuffled proposals that is available to *)
(* receive and that nobody announced; NoSlot if there is none.              *)
RxCandidates(n, slots) ==
  {c \in slots : IsSlotAvailableRX(grid[n], c) /\ c \notin external[n]}

SelectSlot(n) ==
  LET m == Head(bus[n])
      candidates == RxCandidates(n, m.slots)
  IN  /\ Addressed(n, "AI", "GET_SELECTED")
      /\ \E c \in IF candidates = {} THEN {NoSlot} ELSE candidates :
           LET accepted == /\ c # NoSlot
                           /\ IsSetPendingAllowed(grid[n], c, "PROPOSED_RX", m.mac)
           IN  /\ grid' = [grid EXCEPT ![n] =
                             IF accepted
                             THEN SetSlotPending(@, c, "PROPOSED_RX", m.mac) ELSE @]
               /\ pendingRx' = [pendingRx EXCEPT ![n] =
                                  IF accepted THEN @ \cup {m.mac} ELSE @]
               /\ Answers(n, <<[to |-> "MAC", type |-> "GETR_SELECTED", id |-> m.id,
                                mac |-> m.mac,
                                slot |-> IF accepted THEN c ELSE NoSlot]>>)
      /\ UNCHANGED <<pendingTx, removals, external, nextId>>

(* allocate_slot.  A slot that is already allocated to the peer in the same *)
(* mode counts as a success: the message is taken for a retransmission.     *)
AlreadyAllocated(n, m) ==
  IsSlotAllocatedFor(grid[n], m.slot, m.mac) /\ grid[n][m.slot].state = m.mode

(* Mutant: the offers are consulted in either mode. *)
NewlyAllocatedIfOffered(n, m) ==
  /\ m.mac \in pendingTx[n]
  /\ IsSetAllocatedAllowed(grid[n], m.slot, m.mode, m.mac)

NewlyAllocated(n, m) ==
  /\ m.mac \in (IF m.mode = "TX" THEN pendingTx[n] ELSE pendingRx[n])
  /\ IsSetAllocatedAllowed(grid[n], m.slot, m.mode, m.mac)

AllocateSlot(n) ==
  LET m == Head(bus[n])
      g == IF AlreadyAllocated(n, m) THEN grid[n]
           ELSE SetSlotAllocated(grid[n], m.slot, m.mode, m.mac)
  IN  /\ Addressed(n, "AI", "SET_ALLOCATION")
      /\ AlreadyAllocated(n, m) \/ NewlyAllocated(n, m)
      /\ \/ /\ m.mode = "TX"   \* the other proposals to this peer are withdrawn
            /\ grid' = [grid EXCEPT ![n] = AbortTXProposals(g, {m.mac})]
            /\ pendingTx' = [pendingTx EXCEPT ![n] = @ \ {m.mac}]
            /\ UNCHANGED pendingRx
         \/ /\ m.mode = "RX"
            /\ grid' = [grid EXCEPT ![n] = g]
            /\ pendingRx' = [pendingRx EXCEPT ![n] = @ \ {m.mac}]
            /\ UNCHANGED pendingTx
      /\ Answers(n, <<SetR(m.id, TRUE)>>)
      /\ UNCHANGED <<removals, external, nextId>>

(* Mutant: a refused allocation is not answered. *)
IgnoreAllocation(n) ==
  LET m == Head(bus[n])
  IN  /\ Addressed(n, "AI", "SET_ALLOCATION")
      /\ ~AlreadyAllocated(n, m) /\ ~NewlyAllocated(n, m)
      /\ Answers(n, <<>>)
      /\ UNCHANGED <<gridVars, nextId>>

RefuseAllocation(n) ==
  LET m == Head(bus[n])
  IN  /\ Addressed(n, "AI", "SET_ALLOCATION")
      /\ ~AlreadyAllocated(n, m) /\ ~NewlyAllocated(n, m)
      /\ Answers(n, <<SetR(m.id, FALSE)>>)
      /\ UNCHANGED <<gridVars, nextId>>

(* remove_slot: whatever mode the slot has, if it is allocated to this peer. *)
RemoveSlot(n) ==
  LET m  == Head(bus[n])
      ok == IsSlotAllocatedFor(grid[n], m.slot, m.mac)
  IN  /\ Addressed(n, "AI", "SET_REMOVAL")
      /\ grid' = [grid EXCEPT ![n] = IF ok THEN FreeSlots(@, {m.slot}) ELSE @]
      /\ Answers(n, <<SetR(m.id, ok)>>)
      /\ UNCHANGED <<pendingTx, pendingRx, removals, external, nextId>>

(* process_set_response: the MAC's answer to a removal of ours.  On a failure *)
(* the transaction is forgotten and the cell keeps its removal id.            *)
ProcessSetResponse(n) ==
  LET m     == Head(bus[n])
      known == m.id \in removals[n]
  IN  /\ Addressed(n, "AI", "SETR")
      /\ grid' = [grid EXCEPT ![n] = IF known /\ m.result = "OK"
                                     THEN ExecutePendingRemoval(@, m.id) ELSE @]
      /\ removals' = [removals EXCEPT ![n] = @ \ {m.id}]
      /\ Answers(n, <<>>)
      /\ UNCHANGED <<pendingTx, pendingRx, external, nextId>>

ExternalSlotsAllocated(n) ==
  LET m == Head(bus[n])
  IN  /\ Addressed(n, "AI", "SET_EXTERNAL_USED")
      /\ external' = [external EXCEPT ![n] =
           @ \cup {c \in m.slots : /\ ~IsSlotAllocatedFor(grid[n], c, m.src)
                                   /\ ~IsSlotPendingFor(grid[n], c, m.src)}]
      /\ Answers(n, <<>>)
      /\ UNCHANGED <<grid, pendingTx, pendingRx, removals, nextId>>

ExternalSlotRemoved(n) ==
  /\ Addressed(n, "AI", "SET_EXTERNAL_FREE")
  /\ external' = [external EXCEPT ![n] = @ \ {Head(bus[n]).slot}]
  /\ Answers(n, <<>>)
  /\ UNCHANGED <<grid, pendingTx, pendingRx, removals, nextId>>

-----------------------------------------------------------------------------
(* initiate_slot_removal: the cell is marked with a fresh id and the MAC is   *)
(* told.  `due' is the cell, or NoSlot when there is nothing to remove.       *)

Due(g, n) == {NoSlot} \cup (IF nextId[n] < MaxId THEN IdleCandidates(g) ELSE {})

MarkRemoval(g, due, id) == IF due = NoSlot THEN g ELSE SetPendingRemoval(g, due, id)

RemovalRequest(g, due, id) ==
  IF due = NoSlot THEN <<>>
  ELSE <<[to |-> "MAC", type |-> "SET_REMOVAL", id |-> id, mac |-> g[due].mac,
          slot |-> due]>>

(* Mutant: the transaction of a removal is not stored. *)
NewRemovalUnstored(n, due) == {}

NewRemoval(n, due) == IF due = NoSlot THEN {} ELSE {nextId[n]}
TakeId(n, due) == nextId' = IF due = NoSlot THEN nextId ELSE [nextId EXCEPT ![n] = @ + 1]

(* process_stats and process_ack_statistic: the slot's use is refreshed, and *)
(* the monitor of failing frames may decide to remove the slot.              *)
ProcessStats(n) ==
  /\ Addressed(n, "AI", "STATS")
  /\ \E due \in Due(grid[n], n) \cap {NoSlot, Head(bus[n]).slot} :
       /\ grid'     = [grid EXCEPT ![n] = MarkRemoval(@, due, nextId[n])]
       /\ removals' = [removals EXCEPT ![n] = @ \cup NewRemoval(n, due)]
       /\ TakeId(n, due)
       /\ Answers(n, RemovalRequest(grid[n], due, nextId[n]))
  /\ UNCHANGED <<pendingTx, pendingRx, external>>

(* interloop_steps: the timeouts of the proposals, the selections and the    *)
(* removals, then the idle slots, then what others announced long ago.  Any  *)
(* of them may have expired; a call that finds several idle slots is several *)
(* steps of which each starts one removal.                                   *)
InterloopSteps(n) ==
  /\ Len(bus[n]) < MaxBus
  /\ \E expiredTx \in SUBSET pendingTx[n], expiredRx \in SUBSET pendingRx[n],
        expiredRemovals \in SUBSET removals[n], stale \in SUBSET external[n] :
       LET g == AbortPendingRemovals(
                  AbortRXProposals(AbortTXProposals(grid[n], expiredTx), expiredRx),
                  expiredRemovals)
       IN  \E due \in Due(g, n) :
             /\ grid'      = [grid EXCEPT ![n] = MarkRemoval(g, due, nextId[n])]
             /\ pendingTx' = [pendingTx EXCEPT ![n] = @ \ expiredTx]
             /\ pendingRx' = [pendingRx EXCEPT ![n] = @ \ expiredRx]
             /\ removals'  = [removals EXCEPT ![n] =
                                 (@ \ expiredRemovals) \cup NewRemoval(n, due)]
             /\ external'  = [external EXCEPT ![n] = @ \ stale]
             /\ TakeId(n, due)
             /\ bus'       = [bus EXCEPT ![n] = @ \o RemovalRequest(g, due, nextId[n])]

-----------------------------------------------------------------------------
(* The MAC, left open: it takes a message addressed to it, or a timer of its *)
(* own runs, and it sends at most one request, with a fresh id or not.       *)

MacTakes(n) ==
  /\ bus[n] # <<>> /\ Head(bus[n]).to = "MAC"
  /\ \E sent \in {<<>>} \cup {<<m>> : m \in MacRequest} : Answers(n, sent)

MacSends(n) ==
  /\ Len(bus[n]) < MaxBus
  /\ \E m \in MacRequest : bus' = [bus EXCEPT ![n] = Append(@, m)]

MacStep(n) ==
  /\ UNCHANGED gridVars
  /\ MacTakes(n) \/ MacSends(n)
  /\ \/ UNCHANGED nextId
     \/ nextId[n] < MaxId /\ nextId' = [nextId EXCEPT ![n] = @ + 1]

(* A packet is received by some stations, each of which has handled the last  *)
(* one: it waits behind what the same instant has put on the bus.             *)
PacketHeard ==
  \E m \in RadioMessage, heard \in SUBSET Station :
    /\ \A n \in heard : /\ Len(bus[n]) < MaxHeard
                        /\ \A i \in DOMAIN bus[n] : bus[n][i].type # "RECEIVE"
    /\ bus' = [n \in Station |-> IF n \in heard THEN Append(bus[n], m) ELSE bus[n]]
    /\ UNCHANGED <<gridVars, nextId>>

-----------------------------------------------------------------------------
SelectionStep(n) ==
  \/ AllocateReservedSlots(n) \/ IgnoreRequest(n) \/ ProposeSlots(n) \/ SelectSlot(n)
  \/ AllocateSlot(n) \/ RefuseAllocation(n) \/ RemoveSlot(n) \/ ProcessSetResponse(n)
  \/ ExternalSlotsAllocated(n) \/ ExternalSlotRemoved(n) \/ ProcessStats(n)
  \/ InterloopSteps(n)

Next == (\E n \in Station : SelectionStep(n) \/ MacStep(n)) \/ PacketHeard

Spec == Init /\ [][Next]_selVars
-----------------------------------------------------------------------------
(* Properties *)

TypeOK ==
  /\ grid      \in [Station -> Grid]
  /\ pendingTx \in [Station -> SUBSET Node]
  /\ pendingRx \in [Station -> SUBSET Node]
  /\ removals  \in [Station -> SUBSET Id]
  /\ external  \in [Station -> SUBSET Cell]
  /\ nextId    \in [Station -> Nat]
  /\ bus       \in [Station -> Seq(ToAI \cup ToMac)]

(* One transmitter: a timeslot in which the station transmits holds no other *)
(* transmission and no offer to transmit, and the offers that share a        *)
(* timeslot go to one peer - through any interleaving of requests, late      *)
(* answers and timeouts (isSetPendingAllowed, setSlotAllocated).             *)
OneTransmission ==
  \A n \in Station, c, d \in Cell :
    /\ c # d /\ c[1] = d[1]
    /\ grid[n][c].state \in TxUse /\ grid[n][d].state \in TxUse
    => /\ grid[n][c].state = "PROPOSED_TX" /\ grid[n][d].state = "PROPOSED_TX"
       /\ grid[n][c].mac = grid[n][d].mac

(* One receiver: a timeslot holds at most one cell that is received or       *)
(* selected for reception.                                                   *)
OneReception ==
  \A n \in Station, c, d \in Cell :
    /\ c[1] = d[1]
    /\ grid[n][c].state \in RxUse /\ grid[n][d].state \in RxUse
    => c = d

(* The broadcast slots have their timeslots for themselves: no other cell of *)
(* such a timeslot is ever offered, selected or allocated.                   *)
BroadcastAlone ==
  \A n \in Station, c, d \in Cell :
    c[1] = d[1] /\ grid[n][c].state = "RESERVED"
    => grid[n][d].state \in {"RESERVED", "FREE"}

(* No proposal is leaked and none is forgotten: a cell is offered to a peer  *)
(* exactly while the peer's proposal is pending, so its timeout will find it *)
(* (m_pending_tx_proposals against the PROPOSED_TX cells).                   *)
OffersTracked ==
  \A n \in Station, mac \in Node :
    mac \in pendingTx[n] <=> TxProposals(grid[n], mac) # {}

(* A cell marked for removal is allocated, its transaction is under way (so  *)
(* an answer or the timeout will clear the mark) and the id marks no other   *)
(* cell.  The mark's 0 sentinel is never an id.                              *)
RemovalsTracked ==
  \A n \in Station, c \in Cell :
    grid[n][c].removal # 0
    => /\ IsSlotAllocated(grid[n], c)
       /\ grid[n][c].removal \in removals[n]
       /\ \A d \in Cell : grid[n][d].removal = grid[n][c].removal => d = c

-----------------------------------------------------------------------------
(* The slot selection implements RadioSchedule: a proposed cell is an offer, *)
(* an allocated one a commitment.  A timeslot that would transmit to two     *)
(* peers, an allocation nobody was offered, a cell handed from one peer to   *)
(* another or an offer that outlives its proposal has no abstract step.      *)

Uses(g, t, states) ==
  {[phase |-> IF g[<<t, f>>].state \in {"TX", "RX"} THEN "committed" ELSE "offered",
    peer  |-> g[<<t, f>>].mac,
    freq  |-> f] : f \in {h \in Frequency : g[<<t, h>>].state \in states}}

transmitters == [n \in Station |-> [t \in Timeslot |-> Uses(grid[n], t, TxUse)]]
receivers    == [n \in Station |-> [t \in Timeslot |-> Uses(grid[n], t, RxUse)]]

Radio == INSTANCE RadioSchedule WITH tx <- transmitters, rx <- receivers

ImplementsRadioSchedule == Radio!Spec
=============================================================================
