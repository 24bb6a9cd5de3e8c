------------------------------- MODULE SlotGrid -------------------------------
(***************************************************************************)
(* The slot grid of one node (MFTDMASlotGrid): what the node's slot        *)
(* selection does with every (timeslot, frequency) cell of the MF-TDMA     *)
(* superframe.  The class is plain data with setters, so the module has    *)
(* constant operators only: a grid is a function from cells to SlotInfo    *)
(* records and every setter returns the grid it leaves behind.             *)
(*                                                                         *)
(* The build modelled is the one the sources select: a node may transmit   *)
(* and receive in one timeslot on two frequencies                          *)
(* (USE_RX_TX_SAME_TIMESLOT).  `last_used' is left out: which allocated    *)
(* cells are idle is a choice of the caller (see SlotSelection).           *)
(***************************************************************************)
EXTENDS Naturals

CONSTANTS Node,           \* MAC addresses of the stations
          NoMac,          \* the 0 that target_mac holds when a cell has no peer
          NumTimeslots,   \* timeslots in a superframe
          NumFrequencies  \* frequency slots (channels)

ASSUME NoMacAssumption == NoMac \notin Node
(* Both are uint8_t; 255 is the index that stands for "no slot". *)
ASSUME SizeAssumption  == NumTimeslots \in 0 .. 255 /\ NumFrequencies \in 0 .. 255

Timeslot  == 0 .. NumTimeslots - 1
Frequency == 0 .. NumFrequencies - 1
Cell      == Timeslot \X Frequency
NoSlot    == <<255, 255>>

SlotState == {"FREE", "RESERVED", "RX", "TX", "PROPOSED_TX", "PROPOSED_RX"}

(* removal is the id of the removal transaction of the cell, 0 for none. *)
SlotInfo == [state : SlotState, mac : Node \cup {NoMac}, removal : Nat]
Grid     == [Cell -> SlotInfo]

FreeInfo  == [state |-> "FREE", mac |-> NoMac, removal |-> 0]
EmptyGrid == [c \in Cell |-> FreeInfo]

(* The states that use the transmitter, and the receiver, of a timeslot. *)
TxUse == {"TX", "PROPOSED_TX"}
RxUse == {"RX", "PROPOSED_RX"}

(* The row-major order in which the loops of the class visit the cells. *)
Before(c, d) == c[1] < d[1] \/ (c[1] = d[1] /\ c[2] < d[2])

(* What a loop that returns at its first hit acts on: at most one cell. *)
First(cells) == {c \in cells : \A d \in cells : ~Before(d, c)}

-----------------------------------------------------------------------------
(* Queries *)

IsSlotFree(g, c) == g[c].state = "FREE"

IsTimeslotAvailableTX(g, t) ==
  \A f \in Frequency : g[<<t, f>>].state \notin TxUse \cup {"RESERVED"}

(* Mutants: a selection does not claim the receiver; a reserved slot does not. *)
IsTimeslotUnreceived(g, t) ==
  \A f \in Frequency : g[<<t, f>>].state \notin {"RX", "RESERVED"}
IsTimeslotOutsideRxUse(g, t) ==
  \A f \in Frequency : g[<<t, f>>].state \notin RxUse

IsTimeslotAvailableRX(g, t) ==
  \A f \in Frequency : g[<<t, f>>].state \notin RxUse \cup {"RESERVED"}

IsSlotAvailableTX(g, c) == IsTimeslotAvailableTX(g, c[1]) /\ IsSlotFree(g, c)
IsSlotAvailableRX(g, c) == IsTimeslotAvailableRX(g, c[1]) /\ IsSlotFree(g, c)

IsTimeslotFree(g, t) == \A f \in Frequency : IsSlotFree(g, <<t, f>>)

IsSlotAllocated(g, c)         == g[c].state \in {"RX", "TX"}
IsSlotAllocatedFor(g, c, mac) == IsSlotAllocated(g, c) /\ g[c].mac = mac
IsSlotPendingFor(g, c, mac)   == /\ g[c].state \in {"PROPOSED_TX", "PROPOSED_RX"}
                                 /\ g[c].mac = mac
IsSlotReserved(g, c)          == g[c].state = "RESERVED"
IsRemovePending(g, c)         == g[c].removal # 0

IsSetPendingAllowed(g, c, state, mac) ==
  \/ state = "PROPOSED_RX" /\ IsSlotAvailableRX(g, c)
  \/ /\ state = "PROPOSED_TX"
     /\ IsSlotFree(g, c)
     /\ \A f \in Frequency :
          LET info == g[<<c[1], f>>]
          IN  \/ info.state \in {"FREE"} \cup RxUse
              \/ info.state = "PROPOSED_TX" /\ info.mac = mac

(* Mutant: the peer of the proposal is not compared. *)
IsSetAllocatedAllowedForAny(g, c, state, mac) ==
  \/ state = "TX" /\ g[c].state = "PROPOSED_TX"
  \/ state = "RX" /\ g[c].state = "PROPOSED_RX"

IsSetAllocatedAllowed(g, c, state, mac) ==
  /\ g[c].mac = mac
  /\ \/ state = "TX" /\ g[c].state = "PROPOSED_TX"
     \/ state = "RX" /\ g[c].state = "PROPOSED_RX"

-----------------------------------------------------------------------------
(* Setters.  FreeSlots is freeSlot on each cell of a set. *)

FreeSlots(g, cells) == [c \in Cell |-> IF c \in cells THEN FreeInfo ELSE g[c]]

SetSlotPending(g, c, state, mac) ==
  IF IsSetPendingAllowed(g, c, state, mac)
  THEN [g EXCEPT ![c] = [state |-> state, mac |-> mac, removal |-> 0]]
  ELSE g

SetSlotAllocated(g, c, state, mac) ==
  IF IsSetAllocatedAllowed(g, c, state, mac)
  THEN [g EXCEPT ![c] = [state |-> state, mac |-> mac, removal |-> 0]]
  ELSE g

(* Executed even when the timeslot is occupied: the result only reports it. *)
SetSlotsReserved(g, cells) ==
  [c \in Cell |->
     IF c \in cells THEN [state |-> "RESERVED", mac |-> NoMac, removal |-> 0]
                    ELSE g[c]]

SetPendingRemoval(g, c, id) ==
  IF IsSlotAllocated(g, c) /\ ~IsRemovePending(g, c)
  THEN [g EXCEPT ![c].removal = id]
  ELSE g

RemovalCells(g, id)    == {c \in Cell : g[c].removal = id}
RxProposals(g, mac)    == {c \in Cell : g[c].state = "PROPOSED_RX" /\ g[c].mac = mac}
TxProposals(g, mac)    == {c \in Cell : g[c].state = "PROPOSED_TX" /\ g[c].mac = mac}

(* Mutants: an abort that is forgotten, and one that stops at its first cell. *)
KeepMarks(g, ids)  == g
KeepOffers(g, macs) == g
AbortFirstTXProposals(g, macs) ==
  FreeSlots(g, UNION {First(TxProposals(g, mac)) : mac \in macs})

(* The abort setters take the set of peers, or of ids, whose timeout expired: *)
(* the cells of two peers, or of two ids, are disjoint, so the order in which *)
(* the caller's loop aborts them does not matter.                             *)
AbortPendingRemovals(g, ids) ==
  LET cells == UNION {First(RemovalCells(g, id)) : id \in ids}
  IN  [c \in Cell |-> IF c \in cells THEN [g[c] EXCEPT !.removal = 0] ELSE g[c]]

(* Only the first proposal of each peer is freed. *)
AbortRXProposals(g, macs) ==
  FreeSlots(g, UNION {First(RxProposals(g, mac)) : mac \in macs})

AbortTXProposals(g, macs) ==
  FreeSlots(g, UNION {TxProposals(g, mac) : mac \in macs})

ExecutePendingRemoval(g, id) == FreeSlots(g, First(RemovalCells(g, id)))

(* Mutant: any cell may be found idle. *)
UnmarkedCells(g) == {c \in Cell : ~IsRemovePending(g, c)}

(* getIdleSlots: the cells that may be found idle; the clock decides which are. *)
IdleCandidates(g) == {c \in Cell : IsSlotAllocated(g, c) /\ ~IsRemovePending(g, c)}
=============================================================================
