------------------------ MODULE SlotSelection_proofs ------------------------
(***************************************************************************)
(* Proofs about SlotSelection: its invariants hold for every number of     *)
(* stations, timeslots, frequencies, ids and messages.                     *)
(*                                                                         *)
(* The first part is about one grid: every setter of the slot grid keeps   *)
(* it sound.  The second part is about the steps of the slot selection.    *)
(* The third shows that the slot selection implements RadioSchedule: what  *)
(* the cells of a timeslot say of its two radios, how a change of one grid *)
(* changes the radios of its station, and one lemma for each step.         *)
(***************************************************************************)
EXTENDS SlotSelection, TLAPS

-----------------------------------------------------------------------------
(* One grid *)

SoundTx(g) ==
  \A c, d \in Cell :
    /\ c # d /\ c[1] = d[1]
    /\ g[c].state \in TxUse /\ g[d].state \in TxUse
    => /\ g[c].state = "PROPOSED_TX" /\ g[d].state = "PROPOSED_TX"
       /\ g[c].mac = g[d].mac

SoundRx(g) ==
  \A c, d \in Cell :
    c[1] = d[1] /\ g[c].state \in RxUse /\ g[d].state \in RxUse => c = d

SoundBc(g) ==
  \A c, d \in Cell :
    c[1] = d[1] /\ g[c].state = "RESERVED" => g[d].state \in {"RESERVED", "FREE"}

SoundPeer(g) == \A c \in Cell : g[c].state \in TxUse \cup RxUse => g[c].mac \in Node

Sound(g) == SoundTx(g) /\ SoundRx(g) /\ SoundBc(g) /\ SoundPeer(g)

(* A cell is the pair of its timeslot and its frequency. *)
LEMMA CellPair ==
  ASSUME NEW c \in Cell
  PROVE  c[1] \in Timeslot /\ c[2] \in Frequency /\ c = <<c[1], c[2]>>
BY DEF Cell

(* A grid that differs from a sound one in freed cells and marks is sound. *)
LEMMA ThinnedSound ==
  ASSUME NEW g, NEW h, Sound(g),
         \A c \in Cell : \/ h[c].state = "FREE"
                         \/ h[c].state = g[c].state /\ h[c].mac = g[c].mac
  PROVE  Sound(h)
<1>1. \A c \in Cell : h[c].state \in TxUse => h[c].state = g[c].state /\ h[c].mac = g[c].mac
  BY DEF TxUse
<1>2. \A c \in Cell : h[c].state \in RxUse => h[c].state = g[c].state
  BY DEF RxUse
<1>3. SoundTx(h)
  BY <1>1 DEF Sound, SoundTx
<1>4. SoundRx(h)
  BY <1>2 DEF Sound, SoundRx
<1>5. SoundBc(h)
  BY DEF Sound, SoundBc
<1>6. SoundPeer(h)
  BY DEF Sound, SoundPeer, TxUse, RxUse
<1> QED
  BY <1>3, <1>4, <1>5, <1>6 DEF Sound

(* freeSlot, on any number of cells. *)
LEMMA FreeSlotsSound ==
  ASSUME NEW g \in Grid, NEW cells
  PROVE  /\ FreeSlots(g, cells) \in Grid
         /\ Sound(g) => Sound(FreeSlots(g, cells))
<1>1. FreeSlots(g, cells) \in Grid
  BY DEF FreeSlots, FreeInfo, Grid, SlotInfo, SlotState
<1>2. \A c \in Cell : FreeSlots(g, cells)[c] = IF c \in cells THEN FreeInfo ELSE g[c]
  BY DEF FreeSlots
<1>3. ASSUME Sound(g) PROVE Sound(FreeSlots(g, cells))
  <2> DEFINE h == FreeSlots(g, cells)
  <2>1. \A c \in Cell : \/ h[c].state = "FREE"
                        \/ h[c].state = g[c].state /\ h[c].mac = g[c].mac
    BY <1>2 DEF FreeInfo
  <2> HIDE DEF h
  <2>2. Sound(h)
    BY <1>3, <2>1, ThinnedSound
  <2> QED
    BY <2>2 DEF h
<1> QED
  BY <1>1, <1>3

(* A timeslot available to transmit, or to receive, has no such use yet. *)
LEMMA AvailableTX ==
  ASSUME NEW g, NEW c \in Cell, IsTimeslotAvailableTX(g, c[1]),
         NEW d \in Cell, d[1] = c[1]
  PROVE  g[d].state \notin TxUse \cup {"RESERVED"}
BY CellPair DEF IsTimeslotAvailableTX

(* The same for the receiver: isTimeslotAvailableRX looks at every frequency. *)
LEMMA AvailableRX ==
  ASSUME NEW g, NEW c \in Cell, IsTimeslotAvailableRX(g, c[1]),
         NEW d \in Cell, d[1] = c[1]
  PROVE  g[d].state \notin RxUse \cup {"RESERVED"}
BY CellPair DEF IsTimeslotAvailableRX

(* setSlotPending for a selection: the receiver of the timeslot was unused. *)
LEMMA PendingRxSound ==
  ASSUME NEW g \in Grid, NEW c \in Cell, NEW mac \in Node
  PROVE  /\ SetSlotPending(g, c, "PROPOSED_RX", mac) \in Grid
         /\ Sound(g) => Sound(SetSlotPending(g, c, "PROPOSED_RX", mac))
<1> DEFINE h == SetSlotPending(g, c, "PROPOSED_RX", mac)
<1>1. CASE ~IsSetPendingAllowed(g, c, "PROPOSED_RX", mac)
  BY <1>1 DEF SetSlotPending
<1>2. CASE IsSetPendingAllowed(g, c, "PROPOSED_RX", mac)
  <2>1. h = [g EXCEPT ![c] = [state |-> "PROPOSED_RX", mac |-> mac, removal |-> 0]]
    BY <1>2 DEF SetSlotPending
  <2>2. h \in Grid
    BY <2>1 DEF Grid, SlotInfo, SlotState
  <2>3. g[c].state = "FREE" /\ IsTimeslotAvailableRX(g, c[1])
    BY <1>2 DEF IsSetPendingAllowed, IsSlotAvailableRX, IsSlotFree
  <2>4. \A d \in Cell : d # c => h[d] = g[d]
    BY <2>1 DEF Grid
  <2>5. h[c].state = "PROPOSED_RX"
    BY <2>1 DEF Grid
  <2>6. \A d \in Cell : d[1] = c[1] => g[d].state \notin RxUse \cup {"RESERVED"}
    BY <2>3, AvailableRX
  <2>7. ASSUME Sound(g) PROVE Sound(h)
    <3>1. SoundTx(h)
      BY <2>4, <2>5, <2>7 DEF Sound, SoundTx, TxUse
    <3>2. SoundRx(h)
      BY <2>4, <2>5, <2>6, <2>7 DEF Sound, SoundRx
    <3>3. SoundBc(h)
      BY <2>4, <2>5, <2>6, <2>7 DEF Sound, SoundBc
    <3>4. SoundPeer(h)
      BY <2>1, <2>4, <2>7 DEF Sound, SoundPeer, Grid
    <3> QED
      BY <3>1, <3>2, <3>3, <3>4 DEF Sound
  <2> QED
    BY <2>2, <2>7
<1> QED
  BY <1>1, <1>2

-----------------------------------------------------------------------------
(* The books of one grid: the peers P with a proposal open and the removal    *)
(* transactions R under way.                                                  *)

Offered(g, P) ==
  \A mac \in Node :
    mac \in P <=> \E c \in Cell : g[c].state = "PROPOSED_TX" /\ g[c].mac = mac

Marked(g, R) ==
  \A c \in Cell :
    g[c].removal # 0
    => /\ g[c].state \in {"RX", "TX"}
       /\ g[c].removal \in R
       /\ \A d \in Cell : g[d].removal = g[c].removal => d = c

(* Two grids with the same offered cells have the same offers. *)
LEMMA SameOffers ==
  ASSUME NEW g, NEW h, NEW P, Offered(g, P),
         \A c \in Cell : g[c].state = "PROPOSED_TX" \/ h[c].state = "PROPOSED_TX"
                        => h[c].state = g[c].state /\ h[c].mac = g[c].mac
  PROVE  Offered(h, P)
<1> SUFFICES ASSUME NEW mac \in Node
             PROVE  mac \in P <=> \E c \in Cell : h[c].state = "PROPOSED_TX" /\ h[c].mac = mac
  BY DEF Offered
<1>1. mac \in P <=> \E c \in Cell : g[c].state = "PROPOSED_TX" /\ g[c].mac = mac
  BY DEF Offered
<1> QED
  BY <1>1

(* Freeing cells keeps the marks in order, and the offers if none was offered. *)
LEMMA FreeSlotsBooks ==
  ASSUME NEW g \in Grid, NEW cells, NEW P, NEW R
  PROVE  /\ Marked(g, R) => Marked(FreeSlots(g, cells), R)
         /\ Offered(g, P) /\ (\A c \in Cell \cap cells : g[c].state # "PROPOSED_TX")
              => Offered(FreeSlots(g, cells), P)
<1>1. \A c \in Cell : FreeSlots(g, cells)[c] = IF c \in cells THEN FreeInfo ELSE g[c]
  BY DEF FreeSlots
<1>2. Marked(g, R) => Marked(FreeSlots(g, cells), R)
  BY <1>1 DEF Marked, FreeInfo
<1>3. Offered(g, P) /\ (\A c \in Cell \cap cells : g[c].state # "PROPOSED_TX")
        => Offered(FreeSlots(g, cells), P)
  <2> DEFINE h == FreeSlots(g, cells)
  <2> SUFFICES ASSUME Offered(g, P), \A c \in Cell \cap cells : g[c].state # "PROPOSED_TX"
               PROVE  Offered(h, P)
    OBVIOUS
  <2>1. \A c \in Cell : h[c].state = "PROPOSED_TX" => h[c] = g[c]
    BY <1>1 DEF FreeInfo
  <2>2. \A c \in Cell : g[c].state = "PROPOSED_TX" => h[c] = g[c]
    BY <1>1
  <2> HIDE DEF h
  <2> QED
    BY <2>1, <2>2 DEF Offered
<1> QED
  BY <1>2, <1>3

(* abortTXProposals frees every proposal to the peers and forgets the peers. *)
LEMMA AbortTXShape ==
  ASSUME NEW g \in Grid, NEW macs \in SUBSET Node, NEW c \in Cell
  PROVE  AbortTXProposals(g, macs)[c] =
           IF g[c].state = "PROPOSED_TX" /\ g[c].mac \in macs THEN FreeInfo ELSE g[c]
BY DEF AbortTXProposals, FreeSlots, TxProposals

(* So the abort keeps the grid sound and leaves the offers to the others tracked. *)
LEMMA AbortTXBooks ==
  ASSUME NEW g \in Grid, NEW macs \in SUBSET Node, NEW P, NEW R
  PROVE  /\ AbortTXProposals(g, macs) \in Grid
         /\ Sound(g) => Sound(AbortTXProposals(g, macs))
         /\ Offered(g, P) => Offered(AbortTXProposals(g, macs), P \ macs)
         /\ Marked(g, R) => Marked(AbortTXProposals(g, macs), R)
<1>1. Offered(g, P) => Offered(AbortTXProposals(g, macs), P \ macs)
  <2> DEFINE h == AbortTXProposals(g, macs)
  <2> SUFFICES ASSUME Offered(g, P) PROVE Offered(h, P \ macs)
    OBVIOUS
  <2>1. \A c \in Cell : h[c].state = "PROPOSED_TX" => h[c] = g[c] /\ g[c].mac \notin macs
    BY AbortTXShape DEF FreeInfo
  <2>2. \A c \in Cell : g[c].state = "PROPOSED_TX" /\ g[c].mac \notin macs => h[c] = g[c]
    BY AbortTXShape
  <2> HIDE DEF h
  <2> QED
    BY <2>1, <2>2 DEF Offered
<1> QED
  BY <1>1, FreeSlotsSound, FreeSlotsBooks DEF AbortTXProposals

(* abortRXProposal frees a selection of each peer. *)
LEMMA AbortRXBooks ==
  ASSUME NEW g \in Grid, NEW macs, NEW P, NEW R
  PROVE  /\ AbortRXProposals(g, macs) \in Grid
         /\ Sound(g) => Sound(AbortRXProposals(g, macs))
         /\ Offered(g, P) => Offered(AbortRXProposals(g, macs), P)
         /\ Marked(g, R) => Marked(AbortRXProposals(g, macs), R)
<1> DEFINE cells == UNION {First(RxProposals(g, mac)) : mac \in macs}
<1>1. \A c \in Cell \cap cells : g[c].state # "PROPOSED_TX"
  BY DEF First, RxProposals
<1>2. AbortRXProposals(g, macs) = FreeSlots(g, cells)
  BY DEF AbortRXProposals
<1> HIDE DEF cells
<1> QED
  BY <1>1, <1>2, FreeSlotsSound, FreeSlotsBooks

(* A removal id marks one cell: the loops that stop at the first are complete. *)
LEMMA FirstRemoval ==
  ASSUME NEW g \in Grid, NEW R, Marked(g, R), NEW id, id # 0
  PROVE  First(RemovalCells(g, id)) = RemovalCells(g, id)
<1>1. \A c, d \in RemovalCells(g, id) : c = d
  BY DEF RemovalCells, Marked
<1>2. \A c \in RemovalCells(g, id) : ~Before(c, c)
  BY DEF RemovalCells, Before, Cell, Timeslot, Frequency
<1> QED
  BY <1>1, <1>2 DEF First

(* abortPendingRemoval clears the mark and the transaction of the ids. *)
LEMMA AbortRemovalsBooks ==
  ASSUME NEW g \in Grid, NEW ids, 0 \notin ids, NEW P, NEW R, Marked(g, R)
  PROVE  /\ AbortPendingRemovals(g, ids) \in Grid
         /\ Sound(g) => Sound(AbortPendingRemovals(g, ids))
         /\ Offered(g, P) => Offered(AbortPendingRemovals(g, ids), P)
         /\ Marked(AbortPendingRemovals(g, ids), R \ ids)
<1> DEFINE h == AbortPendingRemovals(g, ids)
<1>1. UNION {First(RemovalCells(g, id)) : id \in ids} = {c \in Cell : g[c].removal \in ids}
  <2>1. \A id \in ids : First(RemovalCells(g, id)) = RemovalCells(g, id)
    BY FirstRemoval
  <2>2. \A c : c \in UNION {First(RemovalCells(g, id)) : id \in ids}
               <=> \E id \in ids : c \in RemovalCells(g, id)
    BY <2>1
  <2> QED
    BY <2>2 DEF RemovalCells
<1>2. h = [c \in Cell |-> IF g[c].removal \in ids THEN [g[c] EXCEPT !.removal = 0]
                                                  ELSE g[c]]
  BY <1>1 DEF AbortPendingRemovals
<1>3. h \in Grid
  BY <1>2 DEF Grid, SlotInfo
<1>4. \A c \in Cell : h[c].state = g[c].state /\ h[c].mac = g[c].mac
  BY <1>2 DEF Grid, SlotInfo
<1>5. \A c \in Cell : h[c].removal = IF g[c].removal \in ids THEN 0 ELSE g[c].removal
  BY <1>2 DEF Grid, SlotInfo
<1> HIDE DEF h
<1>6. Sound(g) => Sound(h)
  BY <1>4, ThinnedSound
<1>7. Offered(g, P) => Offered(h, P)
  BY <1>4 DEF Offered
<1>8. Marked(h, R \ ids)
  BY <1>4, <1>5 DEF Marked
<1> QED
  BY <1>3, <1>6, <1>7, <1>8 DEF h

(* setPendingRemoval marks an allocated cell with a fresh id. *)
LEMMA MarkRemovalBooks ==
  ASSUME NEW g \in Grid, NEW P, NEW R, Marked(g, R), NEW id \in Nat, id # 0, id \notin R,
         NEW due \in {NoSlot} \cup IdleCandidates(g)
  PROVE  /\ MarkRemoval(g, due, id) \in Grid
         /\ Sound(g) => Sound(MarkRemoval(g, due, id))
         /\ Offered(g, P) => Offered(MarkRemoval(g, due, id), P)
         /\ Marked(MarkRemoval(g, due, id), R \cup IF due = NoSlot THEN {} ELSE {id})
<1> DEFINE h == MarkRemoval(g, due, id)
<1>1. CASE due = NoSlot
  BY <1>1 DEF MarkRemoval, Marked
<1>2. CASE due # NoSlot
  <2>1. due \in Cell /\ g[due].state \in {"RX", "TX"} /\ g[due].removal = 0
    BY <1>2 DEF IdleCandidates, IsSlotAllocated, IsRemovePending
  <2>2. h = [g EXCEPT ![due].removal = id]
    BY <1>2, <2>1 DEF MarkRemoval, SetPendingRemoval, IsSlotAllocated, IsRemovePending
  <2>3. h \in Grid
    BY <2>1, <2>2 DEF Grid, SlotInfo
  <2>4. \A c \in Cell : h[c].state = g[c].state /\ h[c].mac = g[c].mac
    BY <2>1, <2>2 DEF Grid, SlotInfo
  <2>5. \A c \in Cell : h[c].removal = IF c = due THEN id ELSE g[c].removal
    BY <2>1, <2>2 DEF Grid, SlotInfo
  <2> HIDE DEF h
  <2>6. Sound(g) => Sound(h)
    BY <2>4, ThinnedSound
  <2>7. Offered(g, P) => Offered(h, P)
    BY <2>4 DEF Offered
  <2>8. Marked(h, R \cup {id})
    BY <2>1, <2>4, <2>5 DEF Marked
  <2> QED
    BY <1>2, <2>3, <2>6, <2>7, <2>8 DEF h
<1> QED
  BY <1>1, <1>2

(* setSlotAllocated turns a proposal to a peer into the allocation. *)
LEMMA AllocatedShape ==
  ASSUME NEW g \in Grid, NEW c \in Cell, NEW mode \in Mode, NEW mac \in Node
  PROVE  LET h == SetSlotAllocated(g, c, mode, mac)
         IN  /\ h \in Grid
             /\ \A d \in Cell : d # c => h[d] = g[d]
             /\ IsSetAllocatedAllowed(g, c, mode, mac) =>
                  h[c] = [state |-> mode, mac |-> mac, removal |-> 0]
             /\ ~IsSetAllocatedAllowed(g, c, mode, mac) => h = g
BY DEF SetSlotAllocated, Grid, SlotInfo, SlotState, Mode

(* The final allocation for transmission withdraws the peer's other offers,   *)
(* so a timeslot that held several of them is left with the one transmission. *)
LEMMA AllocateTxBooks ==
  ASSUME NEW g \in Grid, NEW c \in Cell, NEW mac \in Node, NEW P, NEW R,
         IsSetAllocatedAllowed(g, c, "TX", mac)
  PROVE  LET h == AbortTXProposals(SetSlotAllocated(g, c, "TX", mac), {mac})
         IN  /\ h \in Grid
             /\ Sound(g) => Sound(h)
             /\ Offered(g, P) => Offered(h, P \ {mac})
             /\ Marked(g, R) => Marked(h, R)
<1> DEFINE a == SetSlotAllocated(g, c, "TX", mac)
           h == AbortTXProposals(a, {mac})
<1>1. g[c].state = "PROPOSED_TX" /\ g[c].mac = mac
  BY DEF IsSetAllocatedAllowed
<1>2. /\ a \in Grid
      /\ \A d \in Cell : d # c => a[d] = g[d]
      /\ a[c] = [state |-> "TX", mac |-> mac, removal |-> 0]
  BY AllocatedShape DEF Mode
<1> HIDE DEF a
<1>3. h \in Grid
  BY <1>2, AbortTXBooks
<1>4. \A d \in Cell : h[d] = IF a[d].state = "PROPOSED_TX" /\ a[d].mac \in {mac}
                             THEN FreeInfo ELSE a[d]
  BY <1>2, AbortTXShape
<1> HIDE DEF h
<1>5. h[c] = [state |-> "TX", mac |-> mac, removal |-> 0]
  BY <1>2, <1>4
<1>6. \A d \in Cell : d # c =>
        h[d] = IF g[d].state = "PROPOSED_TX" /\ g[d].mac = mac THEN FreeInfo ELSE g[d]
  BY <1>2, <1>4
<1>7. ASSUME Sound(g) PROVE Sound(h)
  <2>1. \A d \in Cell : d # c /\ d[1] = c[1] => h[d].state \notin TxUse
    BY <1>1, <1>6, <1>7 DEF Sound, SoundTx, TxUse, FreeInfo
  <2>2. \A d \in Cell : h[d].state \in TxUse => g[d].state \in TxUse
    BY <1>1, <1>5, <1>6 DEF TxUse, FreeInfo
  <2>3. \A d \in Cell : d # c /\ h[d].state \in TxUse => h[d] = g[d]
    BY <1>6 DEF TxUse, FreeInfo
  <2>4. SoundTx(h)
    BY <1>7, <2>1, <2>2, <2>3 DEF Sound, SoundTx
  <2>5. \A d \in Cell : h[d].state \in RxUse => d # c /\ h[d] = g[d]
    BY <1>5, <1>6 DEF RxUse, FreeInfo
  <2>6. SoundRx(h)
    BY <1>7, <2>5 DEF Sound, SoundRx
  <2>7. \A d \in Cell : h[d].state = "RESERVED" => g[d].state = "RESERVED"
    BY <1>5, <1>6 DEF FreeInfo
  <2>8. \A d \in Cell : g[d].state \in {"RESERVED", "FREE"} => h[d].state = g[d].state
    BY <1>1, <1>6
  <2>9. SoundBc(h)
    BY <1>7, <2>7, <2>8 DEF Sound, SoundBc
  <2>10. SoundPeer(h)
    BY <1>5, <1>6, <1>7 DEF Sound, SoundPeer, FreeInfo, TxUse, RxUse
  <2> QED
    BY <2>4, <2>6, <2>9, <2>10 DEF Sound
<1>8. ASSUME Offered(g, P) PROVE Offered(h, P \ {mac})
  <2>1. \A d \in Cell : h[d].state = "PROPOSED_TX" => h[d] = g[d] /\ g[d].mac # mac
    BY <1>5, <1>6 DEF FreeInfo
  <2>2. \A d \in Cell : g[d].state = "PROPOSED_TX" /\ g[d].mac # mac => h[d] = g[d]
    BY <1>1, <1>6
  <2> QED
    BY <1>8, <2>1, <2>2 DEF Offered
<1>9. Marked(g, R) => Marked(h, R)
  BY <1>5, <1>6 DEF Marked, FreeInfo
<1> QED
  BY <1>3, <1>7, <1>8, <1>9 DEF a, h

(* The final allocation for reception touches neither offers nor marks. *)
LEMMA AllocateRxBooks ==
  ASSUME NEW g \in Grid, NEW c \in Cell, NEW mac \in Node, NEW P, NEW R,
         IsSetAllocatedAllowed(g, c, "RX", mac)
  PROVE  LET h == SetSlotAllocated(g, c, "RX", mac)
         IN  /\ h \in Grid
             /\ Sound(g) => Sound(h)
             /\ Offered(g, P) => Offered(h, P)
             /\ Marked(g, R) => Marked(h, R)
<1> DEFINE h == SetSlotAllocated(g, c, "RX", mac)
<1>1. g[c].state = "PROPOSED_RX"
  BY DEF IsSetAllocatedAllowed
<1>2. /\ h \in Grid
      /\ \A d \in Cell : d # c => h[d] = g[d]
      /\ h[c] = [state |-> "RX", mac |-> mac, removal |-> 0]
  BY AllocatedShape DEF Mode
<1> HIDE DEF h
<1>3. ASSUME Sound(g) PROVE Sound(h)
  <2>1. SoundTx(h)
    BY <1>2, <1>3 DEF Sound, SoundTx, TxUse
  <2>2. SoundRx(h)
    BY <1>1, <1>2, <1>3 DEF Sound, SoundRx, RxUse
  <2>3. SoundBc(h)
    BY <1>1, <1>2, <1>3 DEF Sound, SoundBc
  <2>4. SoundPeer(h)
    BY <1>2, <1>3 DEF Sound, SoundPeer
  <2> QED
    BY <2>1, <2>2, <2>3, <2>4 DEF Sound
<1>4. Offered(g, P) => Offered(h, P)
  BY <1>1, <1>2, SameOffers
<1>5. Marked(g, R) => Marked(h, R)
  BY <1>2 DEF Marked
<1> QED
  BY <1>2, <1>3, <1>4, <1>5 DEF h

(* setSlotPending for a selection leaves offers and marks alone. *)
LEMMA PendingRxBooks ==
  ASSUME NEW g \in Grid, NEW c \in Cell, NEW mac \in Node, NEW P, NEW R
  PROVE  LET h == SetSlotPending(g, c, "PROPOSED_RX", mac)
         IN  /\ Offered(g, P) => Offered(h, P)
             /\ Marked(g, R) => Marked(h, R)
<1> DEFINE h == SetSlotPending(g, c, "PROPOSED_RX", mac)
<1>1. CASE ~IsSetPendingAllowed(g, c, "PROPOSED_RX", mac)
  BY <1>1 DEF SetSlotPending
<1>2. CASE IsSetPendingAllowed(g, c, "PROPOSED_RX", mac)
  <2>1. /\ \A d \in Cell : d # c => h[d] = g[d]
        /\ h[c] = [state |-> "PROPOSED_RX", mac |-> mac, removal |-> 0]
    BY <1>2 DEF SetSlotPending, Grid
  <2>2. g[c].state = "FREE"
    BY <1>2 DEF IsSetPendingAllowed, IsSlotAvailableRX, IsSlotFree
  <2> HIDE DEF h
  <2>3. Offered(g, P) => Offered(h, P)
    BY <2>1, <2>2, SameOffers
  <2>4. Marked(g, R) => Marked(h, R)
    BY <2>1 DEF Marked
  <2> QED
    BY <2>3, <2>4 DEF h
<1> QED
  BY <1>1, <1>2

(* setSlotPending for each of the proposed slots. *)
Proposed(g, cells, mac) ==
  [c \in Cell |-> IF c \in cells
                  THEN [state |-> "PROPOSED_TX", mac |-> mac, removal |-> 0]
                  ELSE g[c]]

(* propose_slots writes cells that setSlotPending accepts: their timeslots have    *)
(* no other transmission, and the peer now has a proposal exactly if one was made. *)
LEMMA ProposeBooks ==
  ASSUME NEW g \in Grid, NEW mac \in Node, NEW P, NEW R, NEW accepted \in SUBSET Cell,
         \A c \in accepted : IsSetPendingAllowed(g, c, "PROPOSED_TX", mac)
  PROVE  LET h == Proposed(g, accepted, mac)
         IN  /\ h \in Grid
             /\ Sound(g) => Sound(h)
             /\ Offered(g, P) => Offered(h, IF accepted = {} THEN P ELSE P \cup {mac})
             /\ Marked(g, R) => Marked(h, R)
<1> DEFINE info == [state |-> "PROPOSED_TX", mac |-> mac, removal |-> 0]
           h == Proposed(g, accepted, mac)
<1>1. h \in Grid
  BY DEF Proposed, Grid, SlotInfo, SlotState
<1>2. \A c \in accepted :
        /\ g[c].state = "FREE"
        /\ \A d \in Cell : d[1] = c[1] =>
             \/ g[d].state \in {"FREE"} \cup RxUse
             \/ g[d].state = "PROPOSED_TX" /\ g[d].mac = mac
  BY CellPair DEF IsSetPendingAllowed, IsSlotFree
<1>3. \A c \in Cell : /\ c \in accepted => h[c] = info
                      /\ c \notin accepted => h[c] = g[c]
  BY DEF Proposed
<1>4. info.state = "PROPOSED_TX" /\ info.mac = mac /\ info.removal = 0
  OBVIOUS
<1> HIDE DEF h, info
<1>5. ASSUME Sound(g) PROVE Sound(h)
  <2>1. SoundTx(h)
    <3> SUFFICES ASSUME NEW c \in Cell, NEW d \in Cell, c # d, c[1] = d[1],
                        h[c].state \in TxUse, h[d].state \in TxUse
                 PROVE  /\ h[c].state = "PROPOSED_TX" /\ h[d].state = "PROPOSED_TX"
                        /\ h[c].mac = h[d].mac
      BY DEF SoundTx
    <3>1. CASE c \in accepted
      BY <1>2, <1>3, <1>4, <3>1 DEF TxUse, RxUse
    <3>2. CASE d \in accepted
      BY <1>2, <1>3, <1>4, <3>2 DEF TxUse, RxUse
    <3>3. CASE c \notin accepted /\ d \notin accepted
      BY <1>3, <1>5, <3>3 DEF Sound, SoundTx
    <3> QED
      BY <3>1, <3>2, <3>3
  <2>2. SoundRx(h)
    BY <1>3, <1>4, <1>5 DEF Sound, SoundRx, RxUse
  <2>3. SoundBc(h)
    BY <1>2, <1>3, <1>4, <1>5 DEF Sound, SoundBc, RxUse
  <2>4. SoundPeer(h)
    BY <1>3, <1>4, <1>5 DEF Sound, SoundPeer
  <2> QED
    BY <2>1, <2>2, <2>3, <2>4 DEF Sound
<1>6. ASSUME Offered(g, P)
      PROVE  Offered(h, IF accepted = {} THEN P ELSE P \cup {mac})
  <2>1. CASE accepted = {}
    BY <1>3, <1>6, <2>1, SameOffers
  <2>2. CASE accepted # {}
    <3> SUFFICES ASSUME NEW other \in Node
                 PROVE  other \in P \cup {mac}
                        <=> \E c \in Cell : h[c].state = "PROPOSED_TX" /\ h[c].mac = other
      BY <2>2 DEF Offered
    <3>1. other \in P <=> \E c \in Cell : g[c].state = "PROPOSED_TX" /\ g[c].mac = other
      BY <1>6 DEF Offered
    <3>2. \A c \in Cell : g[c].state = "PROPOSED_TX" => h[c] = g[c]
      BY <1>2, <1>3
    <3>3. CASE other = mac
      BY <1>3, <1>4, <2>2, <3>3
    <3>4. CASE other # mac
      BY <1>3, <1>4, <3>1, <3>2, <3>4
    <3> QED
      BY <3>3, <3>4
  <2> QED
    BY <2>1, <2>2
<1>7. Marked(g, R) => Marked(h, R)
  BY <1>3, <1>4 DEF Marked
<1> QED
  BY <1>1, <1>5, <1>6, <1>7 DEF h, info

(* executePendingRemoval frees the marked cell: its mark is gone with it. *)
LEMMA ExecuteRemovalBooks ==
  ASSUME NEW g \in Grid, NEW P, NEW R, Marked(g, R), NEW id, id # 0
  PROVE  /\ ExecutePendingRemoval(g, id) \in Grid
         /\ Sound(g) => Sound(ExecutePendingRemoval(g, id))
         /\ Offered(g, P) => Offered(ExecutePendingRemoval(g, id), P)
         /\ Marked(ExecutePendingRemoval(g, id), R \ {id})
<1> DEFINE cells == RemovalCells(g, id)
           h == FreeSlots(g, cells)
<1>1. ExecutePendingRemoval(g, id) = h
  BY FirstRemoval DEF ExecutePendingRemoval
<1>2. \A c \in Cell \cap cells : g[c].state # "PROPOSED_TX"
  BY DEF RemovalCells, Marked
<1>3. \A c \in Cell : h[c] = IF g[c].removal = id THEN FreeInfo ELSE g[c]
  BY DEF FreeSlots, RemovalCells
<1>4. /\ h \in Grid
      /\ Sound(g) => Sound(h)
      /\ Offered(g, P) => Offered(h, P)
  BY <1>2, FreeSlotsSound, FreeSlotsBooks
<1> HIDE DEF h
<1>5. Marked(h, R \ {id})
  BY <1>3 DEF Marked, FreeInfo
<1> QED
  BY <1>1, <1>4, <1>5

(* The grid before the broadcast slots are known, and after. *)
LEMMA EmptyGridBooks ==
  /\ EmptyGrid \in Grid /\ Sound(EmptyGrid)
  /\ Offered(EmptyGrid, {}) /\ Marked(EmptyGrid, {})
BY DEF EmptyGrid, FreeInfo, Grid, SlotInfo, SlotState, Sound, SoundTx, SoundRx, SoundBc,
       SoundPeer, TxUse, RxUse, Offered, Marked

(* setSlotReserved on the empty grid: nothing is offered, used or marked yet. *)
LEMMA ReservedBooks ==
  ASSUME NEW cells, NEW P, NEW R, Offered(EmptyGrid, P)
  PROVE  LET h == SetSlotsReserved(EmptyGrid, cells)
         IN  h \in Grid /\ Sound(h) /\ Offered(h, P) /\ Marked(h, R)
<1> DEFINE h == SetSlotsReserved(EmptyGrid, cells)
<1>1. h \in Grid
  BY DEF SetSlotsReserved, EmptyGrid, FreeInfo, Grid, SlotInfo, SlotState
<1>2. \A c \in Cell : h[c].state \in {"RESERVED", "FREE"} /\ h[c].removal = 0
  BY DEF SetSlotsReserved, EmptyGrid, FreeInfo
<1>3. \A c \in Cell : EmptyGrid[c].state = "FREE"
  BY DEF EmptyGrid, FreeInfo
<1> HIDE DEF h
<1>4. Sound(h)
  BY <1>2 DEF Sound, SoundTx, SoundRx, SoundBc, SoundPeer, TxUse, RxUse
<1>5. Offered(h, P) /\ Marked(h, R)
  BY <1>2, <1>3 DEF Offered, Marked
<1> QED
  BY <1>1, <1>4, <1>5 DEF h

-----------------------------------------------------------------------------
(* The inductive invariant.  The broadcast slots are announced by the first   *)
(* message of a bus, before anything is in the grid; transaction ids are      *)
(* positive, so a mark is never the 0 that stands for none, and smaller than  *)
(* the next fresh one, so a new mark is unlike all others.                    *)

Message == ToAI \cup ToMac

NoBc(s) == \A i \in 1 .. Len(s) : s[i].type # "SET_BC_SLOTS"

BcFirst(s, g) ==
  s # <<>> => /\ NoBc(Tail(s))
              /\ Head(s).type = "SET_BC_SLOTS" => g = EmptyGrid

Books(g, P, R, k, s) ==
  /\ Sound(g)
  /\ Offered(g, P)
  /\ Marked(g, R)
  /\ k > 0
  /\ \A id \in R : 0 < id /\ id < k
  /\ BcFirst(s, g)

IInv ==
  /\ TypeOK
  /\ \A n \in Station : Books(grid[n], pendingTx[n], removals[n], nextId[n], bus[n])

(* The four safety invariants are what the books of each station say. *)
LEMMA InvariantImplies ==
  ASSUME IInv
  PROVE  OneTransmission /\ OneReception /\ BroadcastAlone /\ OffersTracked /\ RemovalsTracked
<1>1. \A n \in Station : /\ SoundTx(grid[n]) /\ SoundRx(grid[n]) /\ SoundBc(grid[n])
                         /\ Offered(grid[n], pendingTx[n])
                         /\ Marked(grid[n], removals[n])
  BY DEF IInv, Books, Sound
<1>2. OneTransmission
  BY <1>1 DEF OneTransmission, SoundTx
<1>3. OneReception
  BY <1>1 DEF OneReception, SoundRx
<1>4. BroadcastAlone
  BY <1>1 DEF BroadcastAlone, SoundBc
<1>5. OffersTracked
  <2> SUFFICES ASSUME NEW n \in Station, NEW mac \in Node
               PROVE  mac \in pendingTx[n] <=> TxProposals(grid[n], mac) # {}
    BY DEF OffersTracked
  <2>1. mac \in pendingTx[n]
          <=> \E c \in Cell : grid[n][c].state = "PROPOSED_TX" /\ grid[n][c].mac = mac
    BY <1>1 DEF Offered
  <2> QED
    BY <2>1 DEF TxProposals
<1>6. RemovalsTracked
  BY <1>1 DEF RemovalsTracked, Marked, IsSlotAllocated
<1> QED
  BY <1>2, <1>3, <1>4, <1>5, <1>6

-----------------------------------------------------------------------------
(* Messages and the bus *)

(* The head and the rest of a queue that is not empty. *)
LEMMA HeadTail ==
  ASSUME NEW M, NEW s \in Seq(M), s # <<>>
  PROVE  Head(s) \in M /\ Tail(s) \in Seq(M)
OBVIOUS

(* Two queues without the broadcast slots, one behind the other, hold none. *)
LEMMA NoBcConcat ==
  ASSUME NEW s \in Seq(Message), NEW t \in Seq(Message), NoBc(s), NoBc(t)
  PROVE  s \o t \in Seq(Message) /\ NoBc(s \o t)
<1>1. s \o t \in Seq(Message) /\ Len(s \o t) = Len(s) + Len(t)
  OBVIOUS
<1>2. \A i \in 1 .. Len(s) + Len(t) :
        (s \o t)[i] = IF i <= Len(s) THEN s[i] ELSE t[i - Len(s)]
  OBVIOUS
<1> QED
  BY <1>1, <1>2 DEF NoBc

(* Taking the head of such a queue leaves such a queue. *)
LEMMA NoBcTail ==
  ASSUME NEW s \in Seq(Message), s # <<>>, NoBc(s)
  PROVE  NoBc(Tail(s)) /\ Head(s).type # "SET_BC_SLOTS"
BY DEF NoBc

(* On such a bus the announcement of the broadcast slots is past. *)
LEMMA NoBcFirst ==
  ASSUME NEW s \in Seq(Message), NoBc(s), NEW g
  PROVE  BcFirst(s, g)
BY NoBcTail DEF BcFirst

(* What a handler leaves on the bus after it takes the head. *)
LEMMA AnswersBus ==
  ASSUME IInv, NEW n \in Station, bus[n] # <<>>,
         NEW sent \in Seq(Message), NoBc(sent), Answers(n, sent), NEW g
  PROVE  /\ bus' = [bus EXCEPT ![n] = bus'[n]]
         /\ bus'[n] \in Seq(Message)
         /\ BcFirst(bus'[n], g)
<1>1. bus \in [Station -> Seq(Message)]
  BY DEF IInv, TypeOK, Message
<1>2. Tail(bus[n]) \in Seq(Message) /\ NoBc(Tail(bus[n]))
  BY <1>1, HeadTail DEF IInv, Books, BcFirst
<1>3. bus'[n] = Tail(bus[n]) \o sent /\ bus' = [bus EXCEPT ![n] = bus'[n]]
  BY <1>1 DEF Answers
<1>4. bus'[n] \in Seq(Message) /\ NoBc(bus'[n])
  BY <1>2, <1>3, NoBcConcat
<1> QED
  BY <1>3, <1>4, NoBcFirst

(* A message added behind the bus. *)
LEMMA SentBus ==
  ASSUME NEW s \in Seq(Message), NEW t \in Seq(Message), NoBc(t), NEW g, BcFirst(s, g)
  PROVE  s \o t \in Seq(Message) /\ BcFirst(s \o t, g)
<1>1. CASE s = <<>>
  BY <1>1, NoBcFirst
<1>2. CASE s # <<>>
  <2>1. Tail(s) \in Seq(Message) /\ NoBc(Tail(s))
    BY <1>2, HeadTail DEF BcFirst
  <2>2. Head(s \o t) = Head(s) /\ Tail(s \o t) = Tail(s) \o t /\ s \o t \in Seq(Message)
    BY <1>2
  <2>3. NoBc(Tail(s \o t))
    BY <2>1, <2>2, NoBcConcat
  <2> QED
    BY <2>2, <2>3 DEF BcFirst
<1> QED
  BY <1>1, <1>2

(* The type of a message decides what it carries. *)
LEMMA AIMessage ==
  ASSUME NEW m \in Message, m.to = "AI"
  PROVE  /\ m.type = "GET_PROPOSED"   => m.id \in Id /\ m.mac \in Node
         /\ m.type = "GET_SELECTED"   => m.id \in Id /\ m.mac \in Node /\ m.slots \subseteq Cell
         /\ m.type = "SET_ALLOCATION" => m.id \in Id /\ m.mac \in Node /\ m.mode \in Mode
                                         /\ m.slot \in Cell
         /\ m.type = "SET_REMOVAL"    => m.id \in Id /\ m.mac \in Node /\ m.slot \in Cell
         /\ m.type = "SET_EXTERNAL_USED" => m.slots \subseteq Cell
         /\ m.type = "SETR"           => m.id \in Id /\ m.result = "OK"
         /\ m.type = "SET_BC_SLOTS"   => m.id \in Id
<1>1. m \in ToAI
  BY RadioMessageAssumption DEF Message, ToMac
<1>2. /\ RequestId \subseteq Id /\ 0 \in Id
      /\ \A slots \in Offer \cup Announcement : slots \subseteq Cell
  BY RequestAssumption, BoundAssumption DEF Id
<1>3. CASE m \in GetProposed
  BY <1>2, <1>3 DEF GetProposed
<1>4. CASE m \in GetSelected
  BY <1>2, <1>4 DEF GetSelected
<1>5. CASE m \in SetAllocation
  BY <1>2, <1>5 DEF SetAllocation
<1>6. CASE m \in SetRemoval
  BY <1>2, <1>6 DEF SetRemoval
<1>7. CASE m \in SetExternalUsed
  BY <1>2, <1>7 DEF SetExternalUsed
<1>8. CASE m \in RemovalDone
  BY <1>8 DEF RemovalDone
<1>9. CASE m \in SetExternalFree \cup Stats
  BY <1>9 DEF SetExternalFree, Stats
<1>10. CASE m = SetBcSlots
  BY <1>2, <1>10 DEF SetBcSlots
<1> QED
  BY <1>1, <1>3, <1>4, <1>5, <1>6, <1>7, <1>8, <1>9, <1>10 DEF ToAI, MacRequest

(* What the MAC may send at any time is a message, and not the broadcast slots. *)
LEMMA MacRequestMessage ==
  ASSUME NEW m \in MacRequest
  PROVE  <<m>> \in Seq(Message) /\ NoBc(<<m>>)
<1>1. m \in Message /\ m.type # "SET_BC_SLOTS"
  BY DEF Message, ToAI, MacRequest, GetProposed, GetSelected, SetAllocation, SetRemoval,
         SetExternalUsed, SetExternalFree, RemovalDone, Stats
<1> QED
  BY <1>1 DEF NoBc

(* So is an answer of the slot selection to a SET message, and silence. *)
LEMMA AnswerMessage ==
  /\ <<>> \in Seq(Message) /\ NoBc(<<>>)
  /\ \A id \in Id, ok \in BOOLEAN :
       <<SetR(id, ok)>> \in Seq(Message) /\ NoBc(<<SetR(id, ok)>>)
<1>1. ASSUME NEW id \in Id, NEW ok \in BOOLEAN
      PROVE  SetR(id, ok) \in Message /\ SetR(id, ok).type # "SET_BC_SLOTS"
  BY DEF SetR, Message, ToMac, Result
<1> QED
  BY <1>1 DEF NoBc

-----------------------------------------------------------------------------
(* The initial state *)

(* At start-up the grid is empty and the broadcast slots wait on the bus. *)
LEMMA InitInv == Init => IInv
<1> SUFFICES ASSUME Init PROVE IInv
  OBVIOUS
<1>1. SetBcSlots \in Message /\ <<SetBcSlots>> \in Seq(Message)
  BY DEF Message, ToAI
<1>2. TypeOK
  BY <1>1, EmptyGridBooks DEF Init, TypeOK, Message
<1>3. ASSUME NEW n \in Station
      PROVE  Books(grid[n], pendingTx[n], removals[n], nextId[n], bus[n])
  <2>1. BcFirst(<<SetBcSlots>>, EmptyGrid)
    BY DEF BcFirst, NoBc
  <2> QED
    BY <2>1, EmptyGridBooks DEF Init, Books
<1> QED
  BY <1>2, <1>3 DEF IInv

-----------------------------------------------------------------------------
(* A step of station n changes nothing of another station: it preserves the   *)
(* invariant if it leaves the books of n in order.                            *)

Local(n) ==
  /\ grid'      = [grid EXCEPT ![n] = grid'[n]]
  /\ pendingTx' = [pendingTx EXCEPT ![n] = pendingTx'[n]]
  /\ pendingRx' = [pendingRx EXCEPT ![n] = pendingRx'[n]]
  /\ removals'  = [removals EXCEPT ![n] = removals'[n]]
  /\ external'  = [external EXCEPT ![n] = external'[n]]
  /\ nextId'    = [nextId EXCEPT ![n] = nextId'[n]]
  /\ bus'       = [bus EXCEPT ![n] = bus'[n]]

Typed(g, P, Q, R, E, k, s) ==
  /\ g \in Grid /\ P \subseteq Node /\ Q \subseteq Node
  /\ R \subseteq Id /\ E \subseteq Cell /\ k \in Nat /\ s \in Seq(Message)

(* What the invariant says of one station. *)
LEMMA TypedStation ==
  ASSUME IInv, NEW n \in Station
  PROVE  /\ Typed(grid[n], pendingTx[n], pendingRx[n], removals[n], external[n],
                  nextId[n], bus[n])
         /\ Books(grid[n], pendingTx[n], removals[n], nextId[n], bus[n])
BY DEF IInv, TypeOK, Typed, Message

(* The books of n are in order after the step, nobody else changed: the invariant *)
(* holds again.                                                                   *)
LEMMA StepInv ==
  ASSUME IInv, NEW n \in Station, Local(n),
         Typed(grid'[n], pendingTx'[n], pendingRx'[n], removals'[n], external'[n],
               nextId'[n], bus'[n]),
         Books(grid'[n], pendingTx'[n], removals'[n], nextId'[n], bus'[n])
  PROVE  IInv'
<1>1. TypeOK'
  BY DEF IInv, TypeOK, Local, Typed, Message
<1>2. ASSUME NEW m \in Station
      PROVE  Books(grid'[m], pendingTx'[m], removals'[m], nextId'[m], bus'[m])
  <2>1. CASE m = n
    BY <2>1
  <2>2. CASE m # n
    <3>1. /\ grid'[m] = grid[m] /\ pendingTx'[m] = pendingTx[m] /\ nextId'[m] = nextId[m]
          /\ removals'[m] = removals[m] /\ bus'[m] = bus[m]
      BY <2>2 DEF IInv, TypeOK, Local
    <3> QED
      BY <3>1, TypedStation
  <2> QED
    BY <2>1, <2>2
<1> QED
  BY <1>1, <1>2 DEF IInv

(* A handler that only answers: the books need not be looked at. *)
LEMMA AnswerOnly ==
  ASSUME IInv, NEW n \in Station, bus[n] # <<>>,
         NEW sent \in Seq(Message), NoBc(sent), Answers(n, sent),
         UNCHANGED <<grid, pendingTx, pendingRx, removals, nextId>>,
         external' = [external EXCEPT ![n] = external'[n]], external'[n] \subseteq Cell
  PROVE  IInv'
<1>1. /\ bus' = [bus EXCEPT ![n] = bus'[n]] /\ bus'[n] \in Seq(Message)
      /\ BcFirst(bus'[n], grid[n])
  BY AnswersBus
<1>2. Local(n)
  BY <1>1 DEF Local, IInv, TypeOK
<1>3. Typed(grid'[n], pendingTx'[n], pendingRx'[n], removals'[n], external'[n],
            nextId'[n], bus'[n])
  BY <1>1, TypedStation DEF Typed
<1>4. Books(grid'[n], pendingTx'[n], removals'[n], nextId'[n], bus'[n])
  BY <1>1, TypedStation DEF Books
<1> QED
  BY <1>2, <1>3, <1>4, StepInv

(* The message a handler takes from the bus is one of the messages. *)
LEMMA HeadMessage ==
  ASSUME IInv, NEW n \in Station, bus[n] # <<>>
  PROVE  Head(bus[n]) \in Message
BY HeadTail DEF IInv, TypeOK, Message

(* allocate_reserved_slots runs on an empty grid: the announcement comes first. *)
LEMMA AllocateReservedSlotsInv ==
  ASSUME IInv, NEW n \in Station, AllocateReservedSlots(n)
  PROVE  IInv'
<1> DEFINE m == Head(bus[n])
<1>1. bus[n] # <<>> /\ m.to = "AI" /\ m.type = "SET_BC_SLOTS"
  BY DEF AllocateReservedSlots, Addressed
<1>2. grid[n] = EmptyGrid
  BY <1>1, TypedStation DEF Books, BcFirst
<1>3. m.id \in Id
  BY <1>1, HeadMessage, AIMessage
<1>4. grid'[n] = SetSlotsReserved(EmptyGrid, Reserved) /\ grid' = [grid EXCEPT ![n] = grid'[n]]
  BY <1>2 DEF AllocateReservedSlots, IInv, TypeOK
<1>5. /\ bus' = [bus EXCEPT ![n] = bus'[n]] /\ bus'[n] \in Seq(Message)
      /\ BcFirst(bus'[n], grid'[n])
  BY <1>1, <1>3, AnswersBus, AnswerMessage DEF AllocateReservedSlots
<1>6. UNCHANGED <<pendingTx, pendingRx, removals, external, nextId>>
  BY DEF AllocateReservedSlots
<1>7. Local(n)
  BY <1>4, <1>5, <1>6 DEF Local, IInv, TypeOK
<1>8. /\ grid'[n] \in Grid /\ Sound(grid'[n]) /\ Offered(grid'[n], pendingTx[n])
      /\ Marked(grid'[n], removals[n])
  BY <1>2, <1>4, ReservedBooks, TypedStation DEF Books
<1>9. Typed(grid'[n], pendingTx'[n], pendingRx'[n], removals'[n], external'[n],
            nextId'[n], bus'[n])
  BY <1>5, <1>6, <1>8, TypedStation DEF Typed
<1>10. Books(grid'[n], pendingTx'[n], removals'[n], nextId'[n], bus'[n])
  BY <1>5, <1>6, <1>8, TypedStation DEF Books
<1> QED
  BY <1>7, <1>9, <1>10, StepInv

(* A dropped request changes nothing (process_get, proposal pending). *)
LEMMA IgnoreRequestInv ==
  ASSUME IInv, NEW n \in Station, IgnoreRequest(n)
  PROVE  IInv'
<1>1. bus[n] # <<>> /\ Answers(n, <<>>) /\ UNCHANGED <<gridVars, nextId>>
  BY DEF IgnoreRequest, Addressed
<1>2. external' = [external EXCEPT ![n] = external'[n]] /\ external'[n] \subseteq Cell
  BY <1>1 DEF gridVars, IInv, TypeOK
<1> QED
  BY <1>1, <1>2, AnswerOnly, AnswerMessage DEF gridVars

(* A refused allocation is answered NOK and changes nothing (allocate_slot). *)
LEMMA RefuseAllocationInv ==
  ASSUME IInv, NEW n \in Station, RefuseAllocation(n)
  PROVE  IInv'
<1>1. bus[n] # <<>> /\ Head(bus[n]).to = "AI" /\ Head(bus[n]).type = "SET_ALLOCATION"
  BY DEF RefuseAllocation, Addressed
<1>2. Head(bus[n]).id \in Id
  BY <1>1, HeadMessage, AIMessage
<1>3. Answers(n, <<SetR(Head(bus[n]).id, FALSE)>>) /\ UNCHANGED <<gridVars, nextId>>
  BY DEF RefuseAllocation
<1>4. external' = [external EXCEPT ![n] = external'[n]] /\ external'[n] \subseteq Cell
  BY <1>3 DEF gridVars, IInv, TypeOK
<1> QED
  BY <1>1, <1>2, <1>3, <1>4, AnswerOnly, AnswerMessage DEF gridVars

(* Announcements of the others touch only the external grid *)
(* (process_external_slot_allocated).                       *)
LEMMA ExternalSlotsAllocatedInv ==
  ASSUME IInv, NEW n \in Station, ExternalSlotsAllocated(n)
  PROVE  IInv'
<1>1. bus[n] # <<>> /\ Head(bus[n]).to = "AI" /\ Head(bus[n]).type = "SET_EXTERNAL_USED"
  BY DEF ExternalSlotsAllocated, Addressed
<1>2. Head(bus[n]).slots \subseteq Cell
  BY <1>1, HeadMessage, AIMessage
<1>3. external' = [external EXCEPT ![n] = external'[n]] /\ external'[n] \subseteq Cell
  BY <1>2 DEF ExternalSlotsAllocated, IInv, TypeOK
<1>4. Answers(n, <<>>) /\ UNCHANGED <<grid, pendingTx, pendingRx, removals, nextId>>
  BY DEF ExternalSlotsAllocated
<1> QED
  BY <1>1, <1>3, <1>4, AnswerOnly, AnswerMessage

(* And so do their removals (process_external_slot_removed). *)
LEMMA ExternalSlotRemovedInv ==
  ASSUME IInv, NEW n \in Station, ExternalSlotRemoved(n)
  PROVE  IInv'
<1>1. bus[n] # <<>>
  BY DEF ExternalSlotRemoved, Addressed
<1>2. external' = [external EXCEPT ![n] = external'[n]] /\ external'[n] \subseteq Cell
  BY DEF ExternalSlotRemoved, IInv, TypeOK
<1>3. Answers(n, <<>>) /\ UNCHANGED <<grid, pendingTx, pendingRx, removals, nextId>>
  BY DEF ExternalSlotRemoved
<1> QED
  BY <1>1, <1>2, <1>3, AnswerOnly, AnswerMessage

(* A handler that answers and keeps the books of a new grid. *)
LEMMA AnswerAndWrite ==
  ASSUME IInv, NEW n \in Station, bus[n] # <<>>,
         NEW sent \in Seq(Message), NoBc(sent), Answers(n, sent),
         grid'      = [grid EXCEPT ![n] = grid'[n]],
         pendingTx' = [pendingTx EXCEPT ![n] = pendingTx'[n]],
         pendingRx' = [pendingRx EXCEPT ![n] = pendingRx'[n]],
         removals'  = [removals EXCEPT ![n] = removals'[n]],
         UNCHANGED <<external, nextId>>,
         grid'[n] \in Grid, pendingTx'[n] \subseteq Node, pendingRx'[n] \subseteq Node,
         removals'[n] \subseteq removals[n],
         Sound(grid'[n]), Offered(grid'[n], pendingTx'[n]), Marked(grid'[n], removals'[n])
  PROVE  IInv'
<1>1. /\ bus' = [bus EXCEPT ![n] = bus'[n]] /\ bus'[n] \in Seq(Message)
      /\ BcFirst(bus'[n], grid'[n])
  BY AnswersBus
<1>2. Local(n)
  BY <1>1 DEF Local, IInv, TypeOK
<1>3. Typed(grid'[n], pendingTx'[n], pendingRx'[n], removals'[n], external'[n],
            nextId'[n], bus'[n])
  BY <1>1, TypedStation DEF Typed
<1>4. Books(grid'[n], pendingTx'[n], removals'[n], nextId'[n], bus'[n])
  BY <1>1, TypedStation DEF Books
<1> QED
  BY <1>2, <1>3, <1>4, StepInv

(* propose_slots keeps one peer per transmitting timeslot and tracks its offer. *)
LEMMA ProposeSlotsInv ==
  ASSUME IInv, NEW n \in Station, ProposeSlots(n)
  PROVE  IInv'
<1> DEFINE m == Head(bus[n])
<1>1. /\ bus[n] # <<>> /\ m.to = "AI" /\ m.type = "GET_PROPOSED"
      /\ UNCHANGED <<pendingRx, removals, external, nextId>>
  BY DEF ProposeSlots, Addressed
<1>2. m.id \in Id /\ m.mac \in Node
  BY <1>1, HeadMessage, AIMessage
<1>3. PICK accepted \in SUBSET Cell :
        /\ \A c \in accepted : IsSetPendingAllowed(grid[n], c, "PROPOSED_TX", m.mac)
        /\ grid' = [grid EXCEPT ![n] = Proposed(grid[n], accepted, m.mac)]
        /\ pendingTx' = [pendingTx EXCEPT ![n] =
             IF accepted = {} THEN pendingTx[n] ELSE pendingTx[n] \cup {m.mac}]
        /\ Answers(n, <<[to |-> "MAC", type |-> "GETR_PROPOSED", id |-> m.id,
                         mac |-> m.mac, slots |-> accepted]>>)
  <2>1. PICK choice \in TxChoices(n) :
          LET accepted == {c \in choice :
                             IsSetPendingAllowed(grid[n], c, "PROPOSED_TX", m.mac)}
          IN  /\ grid' = [grid EXCEPT ![n] = Proposed(grid[n], accepted, m.mac)]
              /\ pendingTx' = [pendingTx EXCEPT ![n] =
                   IF accepted = {} THEN pendingTx[n] ELSE pendingTx[n] \cup {m.mac}]
              /\ Answers(n, <<[to |-> "MAC", type |-> "GETR_PROPOSED", id |-> m.id,
                               mac |-> m.mac, slots |-> accepted]>>)
    BY DEF ProposeSlots, Proposed
  <2>2. choice \subseteq Cell
    BY DEF TxChoices, TxCandidates
  <2> QED
    BY <2>1, <2>2
<1> DEFINE answer == [to |-> "MAC", type |-> "GETR_PROPOSED", id |-> m.id,
                      mac |-> m.mac, slots |-> accepted]
<1>4. answer \in Message /\ answer.type # "SET_BC_SLOTS"
  BY <1>2 DEF Message, ToMac
<1>5. <<answer>> \in Seq(Message) /\ NoBc(<<answer>>)
  BY <1>4 DEF NoBc
<1>6. /\ grid' = [grid EXCEPT ![n] = grid'[n]]
      /\ grid'[n] = Proposed(grid[n], accepted, m.mac)
  BY <1>3 DEF IInv, TypeOK
<1>7. /\ pendingTx' = [pendingTx EXCEPT ![n] = pendingTx'[n]]
      /\ pendingTx'[n] = IF accepted = {} THEN pendingTx[n] ELSE pendingTx[n] \cup {m.mac}
      /\ pendingTx'[n] \subseteq Node
  BY <1>2, <1>3 DEF IInv, TypeOK
<1>8. /\ grid[n] \in Grid /\ Sound(grid[n]) /\ Offered(grid[n], pendingTx[n])
      /\ Marked(grid[n], removals[n]) /\ pendingRx[n] \subseteq Node
  BY TypedStation DEF Typed, Books
<1>9. /\ grid'[n] \in Grid /\ Sound(grid'[n])
      /\ Offered(grid'[n], pendingTx'[n]) /\ Marked(grid'[n], removals[n])
  <2> DEFINE h == Proposed(grid[n], accepted, m.mac)
             P == IF accepted = {} THEN pendingTx[n] ELSE pendingTx[n] \cup {m.mac}
  <2>1. /\ h \in Grid
        /\ Sound(grid[n]) => Sound(h)
        /\ Offered(grid[n], pendingTx[n]) => Offered(h, P)
        /\ Marked(grid[n], removals[n]) => Marked(h, removals[n])
    BY <1>2, <1>3, <1>8, ProposeBooks
  <2>2. grid'[n] = h /\ pendingTx'[n] = P
    BY <1>6, <1>7
  <2> HIDE DEF h, P
  <2> QED
    BY <1>8, <2>1, <2>2
<1>10. Answers(n, <<answer>>)
  BY <1>3
<1>11. /\ pendingRx' = [pendingRx EXCEPT ![n] = pendingRx'[n]]
       /\ removals' = [removals EXCEPT ![n] = removals'[n]]
       /\ pendingRx'[n] \subseteq Node /\ removals'[n] = removals[n]
  BY <1>1, <1>8 DEF IInv, TypeOK
<1> HIDE DEF answer
<1> QED
  BY <1>1, <1>5, <1>6, <1>7, <1>9, <1>10, <1>11, AnswerAndWrite

(* select_slot sets aside a receiver that was unused. *)
LEMMA SelectSlotInv ==
  ASSUME IInv, NEW n \in Station, SelectSlot(n)
  PROVE  IInv'
<1> DEFINE m == Head(bus[n])
<1>1. /\ bus[n] # <<>> /\ m.to = "AI" /\ m.type = "GET_SELECTED"
      /\ UNCHANGED <<pendingTx, removals, external, nextId>>
  BY DEF SelectSlot, Addressed
<1>2. m.id \in Id /\ m.mac \in Node /\ m.slots \subseteq Cell
  BY <1>1, HeadMessage, AIMessage
<1>3. PICK c \in {NoSlot} \cup Cell, accepted \in BOOLEAN :
        /\ accepted => c \in Cell
        /\ grid' = [grid EXCEPT ![n] = IF accepted
                      THEN SetSlotPending(grid[n], c, "PROPOSED_RX", m.mac) ELSE grid[n]]
        /\ pendingRx' = [pendingRx EXCEPT ![n] =
                           IF accepted THEN pendingRx[n] \cup {m.mac} ELSE pendingRx[n]]
        /\ Answers(n, <<[to |-> "MAC", type |-> "GETR_SELECTED", id |-> m.id,
                         mac |-> m.mac, slot |-> IF accepted THEN c ELSE NoSlot]>>)
  <2>1. RxCandidates(n, m.slots) \subseteq Cell
    BY <1>2 DEF RxCandidates
  <2> QED
    BY <2>1 DEF SelectSlot
<1> DEFINE answer == [to |-> "MAC", type |-> "GETR_SELECTED", id |-> m.id,
                      mac |-> m.mac, slot |-> IF accepted THEN c ELSE NoSlot]
<1>4. answer \in Message /\ answer.type # "SET_BC_SLOTS"
  BY <1>2, <1>3 DEF Message, ToMac
<1>5. <<answer>> \in Seq(Message) /\ NoBc(<<answer>>)
  BY <1>4 DEF NoBc
<1>6. /\ grid' = [grid EXCEPT ![n] = grid'[n]]
      /\ grid'[n] = IF accepted THEN SetSlotPending(grid[n], c, "PROPOSED_RX", m.mac)
                    ELSE grid[n]
  BY <1>3 DEF IInv, TypeOK
<1>7. /\ pendingRx' = [pendingRx EXCEPT ![n] = pendingRx'[n]]
      /\ pendingRx'[n] \subseteq Node
  BY <1>2, <1>3 DEF IInv, TypeOK
<1>8. /\ grid[n] \in Grid /\ Sound(grid[n]) /\ Offered(grid[n], pendingTx[n])
      /\ Marked(grid[n], removals[n]) /\ pendingTx[n] \subseteq Node
  BY TypedStation DEF Typed, Books
<1>9. /\ grid'[n] \in Grid /\ Sound(grid'[n])
      /\ Offered(grid'[n], pendingTx[n]) /\ Marked(grid'[n], removals[n])
  BY <1>2, <1>3, <1>6, <1>8, PendingRxSound, PendingRxBooks
<1>10. Answers(n, <<answer>>)
  BY <1>3
<1>11. /\ pendingTx' = [pendingTx EXCEPT ![n] = pendingTx'[n]]
       /\ removals' = [removals EXCEPT ![n] = removals'[n]]
       /\ pendingTx'[n] = pendingTx[n] /\ removals'[n] = removals[n]
  BY <1>1 DEF IInv, TypeOK
<1> HIDE DEF answer
<1> QED
  BY <1>1, <1>5, <1>6, <1>7, <1>8, <1>9, <1>10, <1>11, AnswerAndWrite

(* allocate_slot: the offer becomes the one transmission of its timeslot, for the *)
(* peer's other offers are withdrawn with it; a repeated message changes nothing. *)
LEMMA AllocateSlotInv ==
  ASSUME IInv, NEW n \in Station, AllocateSlot(n)
  PROVE  IInv'
<1> DEFINE m == Head(bus[n])
           g == IF AlreadyAllocated(n, m) THEN grid[n]
                ELSE SetSlotAllocated(grid[n], m.slot, m.mode, m.mac)
<1>1. /\ bus[n] # <<>> /\ m.to = "AI" /\ m.type = "SET_ALLOCATION"
      /\ Answers(n, <<SetR(m.id, TRUE)>>)
      /\ UNCHANGED <<removals, external, nextId>>
      /\ AlreadyAllocated(n, m) \/ NewlyAllocated(n, m)
  BY DEF AllocateSlot, Addressed
<1>2. m.id \in Id /\ m.mac \in Node /\ m.mode \in Mode /\ m.slot \in Cell
  BY <1>1, HeadMessage, AIMessage
<1>3. /\ grid[n] \in Grid /\ Sound(grid[n]) /\ Offered(grid[n], pendingTx[n])
      /\ Marked(grid[n], removals[n]) /\ pendingTx[n] \subseteq Node
      /\ pendingRx[n] \subseteq Node
  BY TypedStation DEF Typed, Books
<1>4. <<SetR(m.id, TRUE)>> \in Seq(Message) /\ NoBc(<<SetR(m.id, TRUE)>>)
  BY <1>2, AnswerMessage
<1>5. removals' = [removals EXCEPT ![n] = removals'[n]] /\ removals'[n] = removals[n]
  BY <1>1 DEF IInv, TypeOK
<1>6. CASE m.mode = "TX"
  <2>1. /\ grid' = [grid EXCEPT ![n] = AbortTXProposals(g, {m.mac})]
        /\ pendingTx' = [pendingTx EXCEPT ![n] = pendingTx[n] \ {m.mac}]
        /\ UNCHANGED pendingRx
    BY <1>6 DEF AllocateSlot
  <2>2. /\ grid'[n] = AbortTXProposals(g, {m.mac})
        /\ grid' = [grid EXCEPT ![n] = grid'[n]]
    BY <2>1 DEF IInv, TypeOK
  <2>3. /\ pendingTx'[n] = pendingTx[n] \ {m.mac}
        /\ pendingTx' = [pendingTx EXCEPT ![n] = pendingTx'[n]]
        /\ pendingRx' = [pendingRx EXCEPT ![n] = pendingRx'[n]]
        /\ pendingRx'[n] = pendingRx[n]
    BY <2>1 DEF IInv, TypeOK
  <2>4. /\ grid'[n] \in Grid /\ Sound(grid'[n])
        /\ Offered(grid'[n], pendingTx'[n]) /\ Marked(grid'[n], removals[n])
    <3>1. CASE AlreadyAllocated(n, m)
      <4> DEFINE h == AbortTXProposals(grid[n], {m.mac})
      <4>1. {m.mac} \in SUBSET Node
        BY <1>2
      <4>2. /\ h \in Grid
            /\ Sound(grid[n]) => Sound(h)
            /\ Offered(grid[n], pendingTx[n]) => Offered(h, pendingTx[n] \ {m.mac})
            /\ Marked(grid[n], removals[n]) => Marked(h, removals[n])
        BY <1>3, <4>1, AbortTXBooks
      <4>3. grid'[n] = h
        BY <2>2, <3>1
      <4> HIDE DEF h
      <4> QED
        BY <1>3, <2>3, <4>2, <4>3
    <3>2. CASE ~AlreadyAllocated(n, m)
      <4>1. IsSetAllocatedAllowed(grid[n], m.slot, "TX", m.mac)
        BY <1>1, <1>6, <3>2 DEF NewlyAllocated
      <4>2. grid'[n] = AbortTXProposals(
                         SetSlotAllocated(grid[n], m.slot, "TX", m.mac), {m.mac})
        BY <1>6, <2>2, <3>2
      <4> DEFINE h == AbortTXProposals(
                        SetSlotAllocated(grid[n], m.slot, "TX", m.mac), {m.mac})
      <4>3. /\ h \in Grid
            /\ Sound(grid[n]) => Sound(h)
            /\ Offered(grid[n], pendingTx[n]) => Offered(h, pendingTx[n] \ {m.mac})
            /\ Marked(grid[n], removals[n]) => Marked(h, removals[n])
        BY <1>2, <1>3, <4>1, AllocateTxBooks
      <4> HIDE DEF h
      <4> QED
        BY <1>3, <2>3, <4>2, <4>3 DEF h
    <3> QED
      BY <3>1, <3>2
  <2> QED
    BY <1>1, <1>3, <1>4, <1>5, <2>2, <2>3, <2>4, AnswerAndWrite
<1>7. CASE m.mode = "RX"
  <2>1. /\ grid' = [grid EXCEPT ![n] = g]
        /\ pendingRx' = [pendingRx EXCEPT ![n] = pendingRx[n] \ {m.mac}]
        /\ UNCHANGED pendingTx
    BY <1>7 DEF AllocateSlot
  <2>2. grid'[n] = g /\ grid' = [grid EXCEPT ![n] = grid'[n]]
    BY <2>1 DEF IInv, TypeOK
  <2>3. /\ pendingRx'[n] = pendingRx[n] \ {m.mac}
        /\ pendingRx' = [pendingRx EXCEPT ![n] = pendingRx'[n]]
        /\ pendingTx' = [pendingTx EXCEPT ![n] = pendingTx'[n]]
        /\ pendingTx'[n] = pendingTx[n]
    BY <2>1 DEF IInv, TypeOK
  <2>4. /\ grid'[n] \in Grid /\ Sound(grid'[n])
        /\ Offered(grid'[n], pendingTx'[n]) /\ Marked(grid'[n], removals[n])
    <3>1. CASE AlreadyAllocated(n, m)
      BY <1>3, <2>2, <2>3, <3>1
    <3>2. CASE ~AlreadyAllocated(n, m)
      <4>1. IsSetAllocatedAllowed(grid[n], m.slot, "RX", m.mac)
        BY <1>1, <1>7, <3>2 DEF NewlyAllocated
      <4>2. grid'[n] = SetSlotAllocated(grid[n], m.slot, "RX", m.mac)
        BY <1>7, <2>2, <3>2
      <4> QED
        BY <1>2, <1>3, <2>3, <4>1, <4>2, AllocateRxBooks
    <3> QED
      BY <3>1, <3>2
  <2> QED
    BY <1>1, <1>3, <1>4, <1>5, <2>2, <2>3, <2>4, AnswerAndWrite
<1> QED
  BY <1>2, <1>6, <1>7 DEF Mode

(* remove_slot frees an allocated cell, its mark with it. *)
LEMMA RemoveSlotInv ==
  ASSUME IInv, NEW n \in Station, RemoveSlot(n)
  PROVE  IInv'
<1> DEFINE m == Head(bus[n])
           ok == IsSlotAllocatedFor(grid[n], m.slot, m.mac)
<1>1. /\ bus[n] # <<>> /\ m.to = "AI" /\ m.type = "SET_REMOVAL"
      /\ Answers(n, <<SetR(m.id, ok)>>)
      /\ UNCHANGED <<pendingTx, pendingRx, removals, external, nextId>>
  BY DEF RemoveSlot, Addressed
<1>2. m.id \in Id /\ m.slot \in Cell
  BY <1>1, HeadMessage, AIMessage
<1>3. /\ grid[n] \in Grid /\ Sound(grid[n]) /\ Offered(grid[n], pendingTx[n])
      /\ Marked(grid[n], removals[n]) /\ pendingTx[n] \subseteq Node
      /\ pendingRx[n] \subseteq Node
  BY TypedStation DEF Typed, Books
<1>4. <<SetR(m.id, ok)>> \in Seq(Message) /\ NoBc(<<SetR(m.id, ok)>>)
  BY <1>2, AnswerMessage DEF IsSlotAllocatedFor, IsSlotAllocated
<1>5. /\ grid'[n] = IF ok THEN FreeSlots(grid[n], {m.slot}) ELSE grid[n]
      /\ grid' = [grid EXCEPT ![n] = grid'[n]]
  BY DEF RemoveSlot, IInv, TypeOK
<1>6. /\ grid'[n] \in Grid /\ Sound(grid'[n])
      /\ Offered(grid'[n], pendingTx[n]) /\ Marked(grid'[n], removals[n])
  <2>1. ok => \A c \in Cell \cap {m.slot} : grid[n][c].state # "PROPOSED_TX"
    BY DEF IsSlotAllocatedFor, IsSlotAllocated
  <2> QED
    BY <1>3, <1>5, <2>1, FreeSlotsSound, FreeSlotsBooks
<1>7. /\ pendingTx' = [pendingTx EXCEPT ![n] = pendingTx'[n]]
      /\ pendingRx' = [pendingRx EXCEPT ![n] = pendingRx'[n]]
      /\ removals' = [removals EXCEPT ![n] = removals'[n]]
      /\ pendingTx'[n] = pendingTx[n] /\ pendingRx'[n] = pendingRx[n]
      /\ removals'[n] = removals[n]
  BY <1>1 DEF IInv, TypeOK
<1> QED
  BY <1>1, <1>3, <1>4, <1>5, <1>6, <1>7, AnswerAndWrite

(* process_set_response frees the cell whose removal the MAC confirms and forgets *)
(* the transaction: the mark is gone with it.                                     *)
LEMMA ProcessSetResponseInv ==
  ASSUME IInv, NEW n \in Station, ProcessSetResponse(n)
  PROVE  IInv'
<1> DEFINE m == Head(bus[n])
<1>1. /\ bus[n] # <<>> /\ m.to = "AI" /\ m.type = "SETR"
      /\ Answers(n, <<>>)
      /\ UNCHANGED <<pendingTx, pendingRx, external, nextId>>
  BY DEF ProcessSetResponse, Addressed
<1>2. m.result = "OK"
  BY <1>1, HeadMessage, AIMessage
<1>3. /\ grid[n] \in Grid /\ Sound(grid[n]) /\ Offered(grid[n], pendingTx[n])
      /\ Marked(grid[n], removals[n]) /\ pendingTx[n] \subseteq Node
      /\ pendingRx[n] \subseteq Node /\ 0 \notin removals[n]
  BY TypedStation DEF Typed, Books
<1>4. /\ grid'[n] = IF m.id \in removals[n] THEN ExecutePendingRemoval(grid[n], m.id)
                    ELSE grid[n]
      /\ grid' = [grid EXCEPT ![n] = grid'[n]]
  BY <1>2 DEF ProcessSetResponse, IInv, TypeOK
<1>5. /\ removals'[n] = removals[n] \ {m.id}
      /\ removals' = [removals EXCEPT ![n] = removals'[n]]
  BY DEF ProcessSetResponse, IInv, TypeOK
<1>6. /\ grid'[n] \in Grid /\ Sound(grid'[n])
      /\ Offered(grid'[n], pendingTx[n]) /\ Marked(grid'[n], removals'[n])
  <2>1. CASE m.id \in removals[n]
    <3>1. m.id # 0
      BY <1>3, <2>1
    <3> QED
      <4> DEFINE h == ExecutePendingRemoval(grid[n], m.id)
      <4>1. /\ h \in Grid
            /\ Sound(grid[n]) => Sound(h)
            /\ Offered(grid[n], pendingTx[n]) => Offered(h, pendingTx[n])
            /\ Marked(h, removals[n] \ {m.id})
        BY <1>3, <3>1, ExecuteRemovalBooks
      <4>2. grid'[n] = h
        BY <1>4, <2>1
      <4> HIDE DEF h
      <4> QED
        BY <1>3, <1>5, <4>1, <4>2
  <2>2. CASE m.id \notin removals[n]
    <3>1. removals'[n] = removals[n]
      BY <1>5, <2>2
    <3> QED
      BY <1>3, <1>4, <2>2, <3>1
  <2> QED
    BY <2>1, <2>2
<1>7. /\ pendingTx' = [pendingTx EXCEPT ![n] = pendingTx'[n]]
      /\ pendingRx' = [pendingRx EXCEPT ![n] = pendingRx'[n]]
      /\ pendingTx'[n] = pendingTx[n] /\ pendingRx'[n] = pendingRx[n]
  BY <1>1 DEF IInv, TypeOK
<1> QED
  BY <1>1, <1>3, <1>4, <1>5, <1>6, <1>7, AnswerAndWrite, AnswerMessage

-----------------------------------------------------------------------------
(* initiate_slot_removal *)

(* The request for a removal is a message: an allocated cell has a peer. *)
LEMMA RemovalRequestMessage ==
  ASSUME NEW g \in Grid, Sound(g), NEW id \in Id, NEW due \in {NoSlot} \cup IdleCandidates(g)
  PROVE  /\ RemovalRequest(g, due, id) \in Seq(Message)
         /\ NoBc(RemovalRequest(g, due, id))
<1>1. CASE due = NoSlot
  BY <1>1, AnswerMessage DEF RemovalRequest
<1>2. CASE due # NoSlot
  <2> DEFINE request == [to |-> "MAC", type |-> "SET_REMOVAL", id |-> id,
                         mac |-> g[due].mac, slot |-> due]
  <2>1. due \in Cell /\ g[due].state \in {"RX", "TX"}
    BY <1>2 DEF IdleCandidates, IsSlotAllocated
  <2>2. g[due].mac \in Node
    BY <2>1 DEF Sound, SoundPeer, TxUse, RxUse
  <2>3. request \in Message /\ request.type # "SET_BC_SLOTS"
    BY <2>1, <2>2 DEF Message, ToMac
  <2>4. <<request>> \in Seq(Message) /\ NoBc(<<request>>)
    BY <2>3 DEF NoBc
  <2> QED
    BY <1>2, <2>4 DEF RemovalRequest
<1> QED
  BY <1>1, <1>2

(* The removal that starts has an id of its own, and it is counted.  The      *)
(* transactions R left of the station's are those that did not time out.      *)
LEMMA NewRemovalBooks ==
  ASSUME IInv, NEW n \in Station, NEW g \in Grid, NEW P, NEW R, NEW due \in Due(g, n),
         Sound(g), Offered(g, P), Marked(g, R), R \subseteq removals[n],
         TakeId(n, due),
         removals' = [removals EXCEPT ![n] = R \cup NewRemoval(n, due)]
  PROVE  /\ MarkRemoval(g, due, nextId[n]) \in Grid
         /\ Sound(MarkRemoval(g, due, nextId[n]))
         /\ Offered(MarkRemoval(g, due, nextId[n]), P)
         /\ Marked(MarkRemoval(g, due, nextId[n]), removals'[n])
         /\ removals'[n] \subseteq Id /\ nextId'[n] \in Nat
         /\ nextId'[n] > 0 /\ \A id \in removals'[n] : 0 < id /\ id < nextId'[n]
         /\ removals' = [removals EXCEPT ![n] = removals'[n]]
         /\ nextId' = [nextId EXCEPT ![n] = nextId'[n]]
         /\ RemovalRequest(g, due, nextId[n]) \in Seq(Message)
         /\ NoBc(RemovalRequest(g, due, nextId[n]))
<1>1. /\ nextId[n] \in Nat /\ nextId[n] > 0 /\ removals[n] \subseteq Id
      /\ \A id \in removals[n] : 0 < id /\ id < nextId[n]
  BY TypedStation DEF Typed, Books
<1>2. nextId[n] \notin R /\ nextId[n] # 0
  BY <1>1 DEF Id
<1>3. due \in {NoSlot} \cup IdleCandidates(g)
  BY DEF Due
<1>4. removals'[n] = R \cup NewRemoval(n, due) /\ removals' = [removals EXCEPT ![n] = removals'[n]]
  BY DEF IInv, TypeOK
<1>5. /\ nextId'[n] = IF due = NoSlot THEN nextId[n] ELSE nextId[n] + 1
      /\ nextId' = [nextId EXCEPT ![n] = nextId'[n]]
  BY DEF TakeId, IInv, TypeOK
<1>6. due # NoSlot => nextId[n] \in Id
  BY <1>1, BoundAssumption DEF Due, Id
<1>7. /\ MarkRemoval(g, due, nextId[n]) \in Grid
      /\ Sound(MarkRemoval(g, due, nextId[n]))
      /\ Offered(MarkRemoval(g, due, nextId[n]), P)
      /\ Marked(MarkRemoval(g, due, nextId[n]), removals'[n])
  BY <1>1, <1>2, <1>3, <1>4, MarkRemovalBooks DEF NewRemoval
<1>8. removals'[n] \subseteq Id /\ \A id \in removals'[n] : 0 < id /\ id < nextId'[n]
  BY <1>1, <1>4, <1>5, <1>6 DEF NewRemoval, Id
<1>9. /\ RemovalRequest(g, due, nextId[n]) \in Seq(Message)
      /\ NoBc(RemovalRequest(g, due, nextId[n]))
  <2>1. CASE due = NoSlot
    BY <2>1, AnswerMessage DEF RemovalRequest
  <2>2. CASE due # NoSlot
    BY <1>3, <1>6, <2>2, RemovalRequestMessage
  <2> QED
    BY <2>1, <2>2
<1> QED
  BY <1>1, <1>4, <1>5, <1>7, <1>8, <1>9

(* process_stats may start one removal, with a fresh id. *)
LEMMA ProcessStatsInv ==
  ASSUME IInv, NEW n \in Station, ProcessStats(n)
  PROVE  IInv'
<1>1. bus[n] # <<>> /\ UNCHANGED <<pendingTx, pendingRx, external>>
  BY DEF ProcessStats, Addressed
<1>2. PICK due \in Due(grid[n], n) :
        /\ grid'     = [grid EXCEPT ![n] = MarkRemoval(grid[n], due, nextId[n])]
        /\ removals' = [removals EXCEPT ![n] = removals[n] \cup NewRemoval(n, due)]
        /\ TakeId(n, due)
        /\ Answers(n, RemovalRequest(grid[n], due, nextId[n]))
  BY DEF ProcessStats
<1>3. /\ grid[n] \in Grid /\ Sound(grid[n]) /\ Offered(grid[n], pendingTx[n])
      /\ Marked(grid[n], removals[n])
  BY TypedStation DEF Typed, Books
<1>4. /\ grid'[n] = MarkRemoval(grid[n], due, nextId[n])
      /\ grid' = [grid EXCEPT ![n] = grid'[n]]
  BY <1>2 DEF IInv, TypeOK
<1>5. /\ MarkRemoval(grid[n], due, nextId[n]) \in Grid
      /\ Sound(MarkRemoval(grid[n], due, nextId[n]))
      /\ Offered(MarkRemoval(grid[n], due, nextId[n]), pendingTx[n])
      /\ Marked(MarkRemoval(grid[n], due, nextId[n]), removals'[n])
      /\ removals'[n] \subseteq Id /\ nextId'[n] \in Nat
      /\ nextId'[n] > 0 /\ \A id \in removals'[n] : 0 < id /\ id < nextId'[n]
      /\ removals' = [removals EXCEPT ![n] = removals'[n]]
      /\ nextId' = [nextId EXCEPT ![n] = nextId'[n]]
      /\ RemovalRequest(grid[n], due, nextId[n]) \in Seq(Message)
      /\ NoBc(RemovalRequest(grid[n], due, nextId[n]))
  BY <1>2, <1>3, NewRemovalBooks
<1>6. /\ bus' = [bus EXCEPT ![n] = bus'[n]] /\ bus'[n] \in Seq(Message)
      /\ BcFirst(bus'[n], grid'[n])
  BY <1>1, <1>2, <1>5, AnswersBus
<1>7. Local(n)
  BY <1>1, <1>4, <1>5, <1>6 DEF Local, IInv, TypeOK
<1>8. Typed(grid'[n], pendingTx'[n], pendingRx'[n], removals'[n], external'[n],
            nextId'[n], bus'[n])
  BY <1>1, <1>4, <1>5, <1>6, TypedStation DEF Typed
<1>9. Books(grid'[n], pendingTx'[n], removals'[n], nextId'[n], bus'[n])
  BY <1>1, <1>4, <1>5, <1>6 DEF Books
<1> QED
  BY <1>7, <1>8, <1>9, StepInv

(* An empty grid has nothing to time out and nothing to remove. *)
LEMMA EmptyGridSteps ==
  ASSUME NEW macs, NEW ids, 0 \notin ids
  PROVE  /\ AbortTXProposals(EmptyGrid, macs) = EmptyGrid
         /\ AbortRXProposals(EmptyGrid, macs) = EmptyGrid
         /\ AbortPendingRemovals(EmptyGrid, ids) = EmptyGrid
         /\ IdleCandidates(EmptyGrid) = {}
<1>1. \A c \in Cell : /\ EmptyGrid[c] = FreeInfo
                      /\ EmptyGrid[c].state = "FREE" /\ EmptyGrid[c].removal = 0
  BY DEF EmptyGrid, FreeInfo
<1>2. AbortTXProposals(EmptyGrid, macs) = EmptyGrid
  BY <1>1 DEF AbortTXProposals, FreeSlots, EmptyGrid
<1>3. AbortRXProposals(EmptyGrid, macs) = EmptyGrid
  BY <1>1 DEF AbortRXProposals, FreeSlots, EmptyGrid
<1>4. AbortPendingRemovals(EmptyGrid, ids) = EmptyGrid
  <2>1. UNION {First(RemovalCells(EmptyGrid, id)) : id \in ids} = {}
    BY <1>1 DEF First, RemovalCells
  <2> QED
    BY <1>1, <2>1 DEF AbortPendingRemovals, EmptyGrid
<1>5. IdleCandidates(EmptyGrid) = {}
  BY <1>1 DEF IdleCandidates, IsSlotAllocated
<1> QED
  BY <1>2, <1>3, <1>4, <1>5

(* interloop_steps: whichever timeouts expire, proposals, selections and marks go *)
(* together with the entries that track them, before a removal is started.        *)
LEMMA InterloopStepsInv ==
  ASSUME IInv, NEW n \in Station, InterloopSteps(n)
  PROVE  IInv'
<1>1. PICK expiredTx \in SUBSET pendingTx[n], expiredRx \in SUBSET pendingRx[n],
           expiredRemovals \in SUBSET removals[n], stale \in SUBSET external[n] :
        LET g == AbortPendingRemovals(
                   AbortRXProposals(AbortTXProposals(grid[n], expiredTx), expiredRx),
                   expiredRemovals)
        IN  \E due \in Due(g, n) :
              /\ grid'      = [grid EXCEPT ![n] = MarkRemoval(g, due, nextId[n])]
              /\ pendingTx' = [pendingTx EXCEPT ![n] = pendingTx[n] \ expiredTx]
              /\ pendingRx' = [pendingRx EXCEPT ![n] = pendingRx[n] \ expiredRx]
              /\ removals'  = [removals EXCEPT ![n] =
                                 (removals[n] \ expiredRemovals) \cup NewRemoval(n, due)]
              /\ external'  = [external EXCEPT ![n] = external[n] \ stale]
              /\ TakeId(n, due)
              /\ bus'       = [bus EXCEPT ![n] =
                                 bus[n] \o RemovalRequest(g, due, nextId[n])]
  BY DEF InterloopSteps
<1> DEFINE a == AbortTXProposals(grid[n], expiredTx)
           b == AbortRXProposals(a, expiredRx)
           g == AbortPendingRemovals(b, expiredRemovals)
           P == pendingTx[n] \ expiredTx
           R == removals[n] \ expiredRemovals
<1>2. PICK due \in Due(g, n) :
        /\ grid'      = [grid EXCEPT ![n] = MarkRemoval(g, due, nextId[n])]
        /\ pendingTx' = [pendingTx EXCEPT ![n] = P]
        /\ pendingRx' = [pendingRx EXCEPT ![n] = pendingRx[n] \ expiredRx]
        /\ removals'  = [removals EXCEPT ![n] = R \cup NewRemoval(n, due)]
        /\ external'  = [external EXCEPT ![n] = external[n] \ stale]
        /\ TakeId(n, due)
        /\ bus'       = [bus EXCEPT ![n] = bus[n] \o RemovalRequest(g, due, nextId[n])]
  BY <1>1
<1>3. /\ grid[n] \in Grid /\ Sound(grid[n]) /\ Offered(grid[n], pendingTx[n])
      /\ Marked(grid[n], removals[n]) /\ pendingTx[n] \subseteq Node
      /\ pendingRx[n] \subseteq Node /\ external[n] \subseteq Cell
      /\ 0 \notin removals[n] /\ bus[n] \in Seq(Message) /\ BcFirst(bus[n], grid[n])
  BY TypedStation DEF Typed, Books
<1>4. expiredTx \in SUBSET Node /\ 0 \notin expiredRemovals
  BY <1>3
<1>5. a \in Grid /\ Sound(a) /\ Offered(a, P) /\ Marked(a, removals[n])
  BY <1>3, <1>4, AbortTXBooks
<1>6. grid[n] = EmptyGrid => a = EmptyGrid
  BY <1>4, EmptyGridSteps
<1> HIDE DEF a
<1>7. b \in Grid /\ Sound(b) /\ Offered(b, P) /\ Marked(b, removals[n])
  BY <1>5, AbortRXBooks
<1>8. grid[n] = EmptyGrid => b = EmptyGrid
  BY <1>4, <1>6, EmptyGridSteps
<1> HIDE DEF b
<1>9. g \in Grid /\ Sound(g) /\ Offered(g, P) /\ Marked(g, R)
  BY <1>4, <1>7, AbortRemovalsBooks
<1>10. grid[n] = EmptyGrid => g = EmptyGrid
  BY <1>4, <1>8, EmptyGridSteps
<1>11. R \subseteq removals[n]
  OBVIOUS
<1> HIDE DEF g, P, R
<1> DEFINE h == MarkRemoval(g, due, nextId[n])
           sent == RemovalRequest(g, due, nextId[n])
<1>12. grid'[n] = h /\ grid' = [grid EXCEPT ![n] = grid'[n]]
  BY <1>2 DEF IInv, TypeOK
<1>13. /\ h \in Grid /\ Sound(h) /\ Offered(h, P) /\ Marked(h, removals'[n])
       /\ removals'[n] \subseteq Id /\ nextId'[n] \in Nat
       /\ nextId'[n] > 0 /\ \A id \in removals'[n] : 0 < id /\ id < nextId'[n]
       /\ removals' = [removals EXCEPT ![n] = removals'[n]]
       /\ nextId' = [nextId EXCEPT ![n] = nextId'[n]]
       /\ sent \in Seq(Message) /\ NoBc(sent)
  BY <1>2, <1>9, <1>11, NewRemovalBooks
<1>14. grid[n] = EmptyGrid => h = EmptyGrid
  <2>1. ASSUME grid[n] = EmptyGrid PROVE due = NoSlot
    <3>1. IdleCandidates(EmptyGrid) = {}
      BY <1>4, EmptyGridSteps
    <3>2. due \in Due(EmptyGrid, n)
      BY <1>10, <2>1
    <3> QED
      BY <3>1, <3>2 DEF Due
  <2> QED
    BY <1>10, <2>1 DEF MarkRemoval
<1> HIDE DEF h, sent
<1>15. /\ pendingTx'[n] = P /\ pendingTx' = [pendingTx EXCEPT ![n] = pendingTx'[n]]
       /\ P \subseteq Node
  BY <1>2, <1>3 DEF P, IInv, TypeOK
<1>16. /\ pendingRx'[n] \subseteq Node
       /\ pendingRx' = [pendingRx EXCEPT ![n] = pendingRx'[n]]
  BY <1>2, <1>3 DEF IInv, TypeOK
<1>17. /\ external'[n] \subseteq Cell
       /\ external' = [external EXCEPT ![n] = external'[n]]
  BY <1>2, <1>3 DEF IInv, TypeOK
<1>18. bus'[n] = bus[n] \o sent /\ bus' = [bus EXCEPT ![n] = bus'[n]]
  BY <1>2 DEF sent, IInv, TypeOK
<1>19. bus'[n] \in Seq(Message) /\ BcFirst(bus'[n], grid[n])
  BY <1>3, <1>13, <1>18, SentBus
<1>20. BcFirst(bus'[n], h)
  BY <1>14, <1>19 DEF BcFirst
<1>21. Local(n)
  BY <1>12, <1>13, <1>15, <1>16, <1>17, <1>18 DEF Local
<1>22. Typed(grid'[n], pendingTx'[n], pendingRx'[n], removals'[n], external'[n],
             nextId'[n], bus'[n])
  BY <1>12, <1>13, <1>15, <1>16, <1>17, <1>19 DEF Typed
<1>23. Books(grid'[n], pendingTx'[n], removals'[n], nextId'[n], bus'[n])
  BY <1>12, <1>13, <1>15, <1>20 DEF Books
<1> QED
  BY <1>21, <1>22, <1>23, StepInv

-----------------------------------------------------------------------------
(* The MAC only uses the bus and takes ids. *)

(* A request of the MAC changes only the bus and the ids. *)
LEMMA MacStepInv ==
  ASSUME IInv, NEW n \in Station, MacStep(n)
  PROVE  IInv'
<1>1. UNCHANGED gridVars
  BY DEF MacStep
<1>2. /\ bus' = [bus EXCEPT ![n] = bus'[n]] /\ bus'[n] \in Seq(Message)
      /\ BcFirst(bus'[n], grid[n])
  <2>1. CASE MacTakes(n)
    <3>1. PICK sent \in {<<>>} \cup {<<m>> : m \in MacRequest} : Answers(n, sent)
      BY <2>1 DEF MacTakes
    <3>2. bus[n] # <<>>
      BY <2>1 DEF MacTakes
    <3>3. sent \in Seq(Message) /\ NoBc(sent)
      BY AnswerMessage, MacRequestMessage
    <3> QED
      BY <3>1, <3>2, <3>3, AnswersBus
  <2>2. CASE MacSends(n)
    <3>1. PICK m \in MacRequest : bus' = [bus EXCEPT ![n] = Append(bus[n], m)]
      BY <2>2 DEF MacSends
    <3>2. <<m>> \in Seq(Message) /\ NoBc(<<m>>)
      BY MacRequestMessage
    <3>3. bus[n] \in Seq(Message) /\ BcFirst(bus[n], grid[n])
      BY TypedStation DEF Typed, Books
    <3>4. bus[n] \o <<m>> \in Seq(Message) /\ BcFirst(bus[n] \o <<m>>, grid[n])
      BY <3>2, <3>3, SentBus
    <3>5. Append(bus[n], m) = bus[n] \o <<m>>
      BY <3>2, <3>3
    <3>6. bus'[n] = bus[n] \o <<m>> /\ bus' = [bus EXCEPT ![n] = bus'[n]]
      BY <3>1, <3>5 DEF IInv, TypeOK
    <3> QED
      BY <3>4, <3>6
  <2> QED
    BY <2>1, <2>2 DEF MacStep
<1>3. /\ nextId' = [nextId EXCEPT ![n] = nextId'[n]] /\ nextId'[n] \in Nat
      /\ nextId'[n] >= nextId[n]
  BY DEF MacStep, IInv, TypeOK
<1>4. Local(n)
  BY <1>1, <1>2, <1>3 DEF Local, gridVars, IInv, TypeOK
<1>5. Typed(grid'[n], pendingTx'[n], pendingRx'[n], removals'[n], external'[n],
            nextId'[n], bus'[n])
  BY <1>1, <1>2, <1>3, TypedStation DEF Typed, gridVars
<1>6. Books(grid'[n], pendingTx'[n], removals'[n], nextId'[n], bus'[n])
  <2>1. \A id \in removals[n] : id \in Nat /\ 0 < id /\ id < nextId[n]
    BY TypedStation DEF Typed, Books, Id
  <2>2. nextId[n] \in Nat /\ nextId[n] > 0
    BY TypedStation DEF Typed, Books
  <2> QED
    BY <1>1, <1>2, <1>3, <2>1, <2>2, TypedStation DEF Books, gridVars
<1> QED
  BY <1>4, <1>5, <1>6, StepInv

(* A packet behind the messages of some stations: every station keeps its books. *)
LEMMA PacketHeardInv ==
  ASSUME IInv, PacketHeard
  PROVE  IInv'
<1>1. PICK m \in RadioMessage, heard \in SUBSET Station :
        /\ bus' = [n \in Station |-> IF n \in heard THEN Append(bus[n], m) ELSE bus[n]]
        /\ UNCHANGED <<gridVars, nextId>>
  BY DEF PacketHeard
<1>2. <<m>> \in Seq(Message) /\ NoBc(<<m>>)
  <2>1. m \in Message /\ m.type # "SET_BC_SLOTS"
    BY RadioMessageAssumption DEF Message, ToMac
  <2> QED
    BY <2>1 DEF NoBc
<1>3. ASSUME NEW n \in Station
      PROVE  bus'[n] \in Seq(Message) /\ BcFirst(bus'[n], grid[n])
  <2>1. bus[n] \in Seq(Message) /\ BcFirst(bus[n], grid[n])
    BY TypedStation DEF Typed, Books
  <2>2. bus[n] \o <<m>> \in Seq(Message) /\ BcFirst(bus[n] \o <<m>>, grid[n])
    BY <1>2, <2>1, SentBus
  <2>3. Append(bus[n], m) = bus[n] \o <<m>>
    BY <1>2, <2>1
  <2> QED
    BY <1>1, <2>1, <2>2, <2>3
<1>4. TypeOK'
  BY <1>1, <1>3 DEF IInv, TypeOK, Message, gridVars
<1>5. ASSUME NEW n \in Station
      PROVE  Books(grid'[n], pendingTx'[n], removals'[n], nextId'[n], bus'[n])
  BY <1>1, <1>3, TypedStation DEF Books, gridVars
<1> QED
  BY <1>4, <1>5 DEF IInv

-----------------------------------------------------------------------------
(* Every step, and the theorems *)

(* Every step keeps the invariant. *)
LEMMA NextInv == IInv /\ [Next]_selVars => IInv'
<1> SUFFICES ASSUME IInv, [Next]_selVars PROVE IInv'
  OBVIOUS
<1>1. CASE UNCHANGED selVars
  BY <1>1 DEF selVars, IInv, TypeOK
<1>2. ASSUME NEW n \in Station, SelectionStep(n) \/ MacStep(n) PROVE IInv'
  BY <1>2, AllocateReservedSlotsInv, IgnoreRequestInv, ProposeSlotsInv, SelectSlotInv,
     AllocateSlotInv, RefuseAllocationInv, RemoveSlotInv, ProcessSetResponseInv,
     ExternalSlotsAllocatedInv, ExternalSlotRemovedInv, ProcessStatsInv,
     InterloopStepsInv, MacStepInv DEF SelectionStep
<1> QED
  BY <1>1, <1>2, PacketHeardInv DEF Next

(* The inductive invariant holds in every reachable state, for every number of       *)
(* stations and cells: handlers and timeouts of the slot selection, and anything the *)
(* MAC sends it (process_message, interloop_steps).                                  *)
THEOREM InductiveInvariant == Spec => []IInv
BY InitInv, NextInv, PTL DEF Spec

(* The grid, the books and the bus of every station stay within their types:  *)
(* in particular no removal request names a cell without a peer.              *)
THEOREM TypeCorrect == Spec => []TypeOK
<1>1. IInv => TypeOK
  BY DEF IInv
<1> QED
  BY <1>1, InductiveInvariant, PTL

(* No station ever commits its transmitter twice in a timeslot, whatever its  *)
(* MAC sends it and whenever its timeouts expire (isSetPendingAllowed,        *)
(* allocate_slot with its abortTXProposals).                                  *)
THEOREM OneTransmissionHolds == Spec => []OneTransmission
BY InductiveInvariant, InvariantImplies, PTL

(* No station ever has two receptions in a timeslot. *)
THEOREM OneReceptionHolds == Spec => []OneReception
BY InductiveInvariant, InvariantImplies, PTL

(* The timeslots of the broadcast slots are never used for anything else. *)
THEOREM BroadcastAloneHolds == Spec => []BroadcastAlone
BY InductiveInvariant, InvariantImplies, PTL

(* Cells are offered to a peer exactly while its proposal is pending. *)
THEOREM OffersTrackedHolds == Spec => []OffersTracked
BY InductiveInvariant, InvariantImplies, PTL

(* A removal mark is on an allocated cell, belongs to a transaction under way *)
(* and to this cell alone.                                                    *)
THEOREM RemovalsTrackedHolds == Spec => []RemovalsTracked
BY InductiveInvariant, InvariantImplies, PTL

-----------------------------------------------------------------------------
(* The radios of one timeslot *)

TxAt(g, t) == Uses(g, t, TxUse)
RxAt(g, t) == Uses(g, t, RxUse)

UseOf(g, t, f) ==
  [phase |-> IF g[<<t, f>>].state \in {"TX", "RX"} THEN "committed" ELSE "offered",
   peer  |-> g[<<t, f>>].mac, freq |-> f]

(* A radio is used by each cell that is in a state which uses it. *)
LEMMA UsesMember ==
  ASSUME NEW g, NEW t, NEW states, NEW u
  PROVE  u \in Uses(g, t, states)
           <=> \E f \in Frequency : g[<<t, f>>].state \in states /\ u = UseOf(g, t, f)
BY DEF Uses, UseOf

(* A radio does not change if no cell that uses it does, before or after. *)
LEMMA SameUses ==
  ASSUME NEW g, NEW h, NEW t \in Timeslot, NEW states,
         \A c \in Cell : c[1] = t /\ (g[c].state \in states \/ h[c].state \in states)
                           => h[c].state = g[c].state /\ h[c].mac = g[c].mac
  PROVE  Uses(h, t, states) = Uses(g, t, states)
<1>1. ASSUME NEW f \in Frequency,
             g[<<t, f>>].state \in states \/ h[<<t, f>>].state \in states
      PROVE  h[<<t, f>>].state = g[<<t, f>>].state /\ h[<<t, f>>].mac = g[<<t, f>>].mac
  <2>1. <<t, f>> \in Cell /\ <<t, f>>[1] = t
    BY DEF Cell
  <2> QED
    BY <1>1, <2>1
<1>2. ASSUME NEW f \in Frequency
      PROVE  /\ g[<<t, f>>].state \in states <=> h[<<t, f>>].state \in states
             /\ g[<<t, f>>].state \in states => UseOf(h, t, f) = UseOf(g, t, f)
  BY <1>1 DEF UseOf
<1>3. ASSUME NEW u PROVE u \in Uses(h, t, states) <=> u \in Uses(g, t, states)
  <2>1. u \in Uses(g, t, states)
          <=> \E f \in Frequency : g[<<t, f>>].state \in states /\ u = UseOf(g, t, f)
    BY DEF Uses, UseOf
  <2>2. u \in Uses(h, t, states)
          <=> \E f \in Frequency : h[<<t, f>>].state \in states /\ u = UseOf(h, t, f)
    BY DEF Uses, UseOf
  <2> QED
    BY <1>2, <2>1, <2>2
<1> QED
  BY <1>3

(* A radio that no cell uses is idle. *)
LEMMA NoUses ==
  ASSUME NEW g, NEW t \in Timeslot, NEW states,
         \A c \in Cell : c[1] = t => g[c].state \notin states
  PROVE  Uses(g, t, states) = {}
<1>1. \A f \in Frequency : <<t, f>> \in Cell /\ <<t, f>>[1] = t
  BY DEF Cell
<1> QED
  BY <1>1 DEF Uses

(* One cell in use, and no other of its timeslot. *)
LEMMA OnlyUse ==
  ASSUME NEW g, NEW c \in Cell, NEW states, g[c].state \in states,
         \A d \in Cell : d[1] = c[1] /\ g[d].state \in states => d = c
  PROVE  Uses(g, c[1], states) = {UseOf(g, c[1], c[2])}
<1>1. c[2] \in Frequency /\ c = <<c[1], c[2]>>
  BY CellPair
<1>2. ASSUME NEW f \in Frequency, g[<<c[1], f>>].state \in states PROVE f = c[2]
  <2>1. <<c[1], f>> \in Cell
    BY CellPair DEF Cell
  <2>2. <<c[1], f>> = c
    BY <1>2, <2>1
  <2> QED
    BY <2>2
<1>3. ASSUME NEW u PROVE u \in Uses(g, c[1], states) <=> u = UseOf(g, c[1], c[2])
  <2>1. u \in Uses(g, c[1], states)
          <=> \E f \in Frequency : g[<<c[1], f>>].state \in states /\ u = UseOf(g, c[1], f)
    BY DEF Uses, UseOf
  <2>2. g[<<c[1], c[2]>>].state \in states
    BY <1>1
  <2> QED
    BY <1>1, <1>2, <2>1, <2>2
<1> QED
  BY <1>3

(* The transmitter is on offer to mac exactly if one of its cells is. *)
LEMMA TxOffers ==
  ASSUME NEW g \in Grid, Sound(g), NEW t \in Timeslot, NEW mac \in Node
  PROVE  TxAt(g, t) \in Radio!Offers(mac)
           <=> \E c \in Cell : c[1] = t /\ g[c].state = "PROPOSED_TX" /\ g[c].mac = mac
<1>1. ASSUME TxAt(g, t) \in Radio!Offers(mac)
      PROVE  \E c \in Cell : c[1] = t /\ g[c].state = "PROPOSED_TX" /\ g[c].mac = mac
  <2>1. PICK u \in TxAt(g, t) : u.phase = "offered" /\ u.peer = mac
    BY <1>1 DEF Radio!Offers
  <2>2. PICK f \in Frequency : g[<<t, f>>].state \in TxUse /\ u = UseOf(g, t, f)
    BY <2>1, UsesMember DEF TxAt
  <2>3. <<t, f>> \in Cell /\ <<t, f>>[1] = t
    BY DEF Cell
  <2>4. g[<<t, f>>].state = "PROPOSED_TX" /\ g[<<t, f>>].mac = mac
    BY <2>1, <2>2 DEF UseOf, TxUse
  <2> QED
    BY <2>3, <2>4
<1>2. ASSUME NEW c \in Cell, c[1] = t, g[c].state = "PROPOSED_TX", g[c].mac = mac
      PROVE  TxAt(g, t) \in Radio!Offers(mac)
  <2>1. ASSUME NEW d \in Cell, d[1] = t, g[d].state \in TxUse
        PROVE  g[d].state = "PROPOSED_TX" /\ g[d].mac = mac
    BY <1>2, <2>1 DEF Sound, SoundTx, TxUse
  <2>2. ASSUME NEW u \in TxAt(g, t)
        PROVE  u \in [phase : {"offered"}, peer : {mac}, freq : Frequency]
    <3>1. PICK f \in Frequency : g[<<t, f>>].state \in TxUse /\ u = UseOf(g, t, f)
      BY UsesMember DEF TxAt
    <3>2. <<t, f>> \in Cell /\ <<t, f>>[1] = t
      BY DEF Cell
    <3> QED
      BY <2>1, <3>1, <3>2 DEF UseOf
  <2>3. UseOf(g, t, c[2]) \in TxAt(g, t)
    BY <1>2, CellPair, UsesMember DEF TxAt, TxUse
  <2> QED
    BY <2>2, <2>3 DEF Radio!Offers
<1> QED
  BY <1>1, <1>2

-----------------------------------------------------------------------------
(* What the setters of a grid do to the radios: g becomes h. *)

KeepsTx(g, h) == \A t \in Timeslot : TxAt(h, t) = TxAt(g, t)
KeepsRx(g, h) == \A t \in Timeslot : RxAt(h, t) = RxAt(g, t)
KeepsOtherTx(g, h, s) == \A t \in Timeslot : t # s => TxAt(h, t) = TxAt(g, t)
KeepsOtherRx(g, h, s) == \A t \in Timeslot : t # s => RxAt(h, t) = RxAt(g, t)

(* The offer of timeslot s to mac is taken up, the others to mac lapse. *)
TakesUpTx(g, h, s, mac) ==
  /\ TxAt(g, s) \in Radio!Offers(mac)
  /\ \E u \in TxAt(g, s) : TxAt(h, s) = Radio!Committed(u)
  /\ \A t \in Timeslot : t # s =>
       TxAt(h, t) = IF TxAt(g, t) \in Radio!Offers(mac) THEN {} ELSE TxAt(g, t)

TakesUpRx(g, h, s) ==
  /\ Radio!IsOffer(RxAt(g, s))
  /\ \E u \in RxAt(g, s) : RxAt(h, s) = Radio!Committed(u)

(* The offers to the peers lapse; some selections do. *)
LapsesTx(g, h, macs) ==
  \A t \in Timeslot :
    TxAt(h, t) = IF \E mac \in macs : TxAt(g, t) \in Radio!Offers(mac)
                 THEN {} ELSE TxAt(g, t)
LapsesRx(g, h) ==
  \A t \in Timeslot : \/ RxAt(h, t) = RxAt(g, t)
                      \/ Radio!IsOffer(RxAt(g, t)) /\ RxAt(h, t) = {}

ReleasesTx(g, h, s) == TxAt(g, s) \in Radio!Commitments /\ TxAt(h, s) = {}
ReleasesRx(g, h, s) == RxAt(g, s) \in Radio!Commitments /\ RxAt(h, s) = {}

FreesCell(g, h, c) == \A d \in Cell : h[d] = IF d = c THEN FreeInfo ELSE g[d]

(* Cells of which only the removal marks change. *)
LEMMA SameCells ==
  ASSUME NEW g, NEW h, \A c \in Cell : h[c].state = g[c].state /\ h[c].mac = g[c].mac
  PROVE  KeepsTx(g, h) /\ KeepsRx(g, h)
BY SameUses DEF TxAt, RxAt, KeepsTx, KeepsRx

(* A timeslot of which no cell changes. *)
LEMMA SameTimeslot ==
  ASSUME NEW g, NEW h, NEW t \in Timeslot, \A c \in Cell : c[1] = t => h[c] = g[c]
  PROVE  TxAt(h, t) = TxAt(g, t) /\ RxAt(h, t) = RxAt(g, t)
<1>1. \A f \in Frequency : h[<<t, f>>] = g[<<t, f>>]
  BY DEF Cell
<1> QED
  BY <1>1 DEF TxAt, RxAt, Uses

(* Cells that are proposed in timeslots without transmission. *)
LEMMA ProposeRadio ==
  ASSUME NEW g \in Grid, NEW mac \in Node, NEW accepted \in SUBSET Cell,
         \A c \in accepted : IsSlotAvailableTX(g, c),
         NEW h \in Grid, Sound(h), h = Proposed(g, accepted, mac),
         NEW t \in Timeslot
  PROVE  /\ RxAt(h, t) = RxAt(g, t)
         /\ \/ TxAt(h, t) = TxAt(g, t)
            \/ TxAt(g, t) = {} /\ TxAt(h, t) \in Radio!Offers(mac)
<1>1. \A c \in Cell : /\ c \in accepted => h[c].state = "PROPOSED_TX" /\ h[c].mac = mac
                      /\ c \notin accepted => h[c] = g[c]
  BY DEF Proposed
<1>2. \A c \in accepted : g[c].state = "FREE"
  BY DEF IsSlotAvailableTX, IsSlotFree
<1>3. RxAt(h, t) = RxAt(g, t)
  <2>1. \A c \in Cell : g[c].state \in RxUse \/ h[c].state \in RxUse => h[c] = g[c]
    BY <1>1, <1>2 DEF RxUse
  <2> QED
    BY <2>1, SameUses DEF RxAt
<1>4. CASE \A c \in accepted : c[1] # t
  <2>1. \A c \in Cell : c[1] = t => h[c] = g[c]
    BY <1>1, <1>4
  <2>2. TxAt(h, t) = TxAt(g, t)
    BY <2>1, SameUses DEF TxAt
  <2> QED
    BY <1>3, <2>2
<1>5. ASSUME NEW c \in accepted, c[1] = t
      PROVE  TxAt(g, t) = {} /\ TxAt(h, t) \in Radio!Offers(mac)
  <2>1. \A d \in Cell : d[1] = t => g[d].state \notin TxUse
    <3>1. \A f \in Frequency : g[<<t, f>>].state \notin TxUse
      BY <1>5 DEF IsSlotAvailableTX, IsTimeslotAvailableTX
    <3> QED
      BY <3>1, CellPair
  <2>2. TxAt(g, t) = {}
    BY <2>1, NoUses DEF TxAt
  <2>3. h[c].state = "PROPOSED_TX" /\ h[c].mac = mac /\ c \in Cell
    BY <1>1
  <2>4. TxAt(h, t) \in Radio!Offers(mac)
    BY <1>5, <2>3, TxOffers
  <2> QED
    BY <2>2, <2>4
<1> QED
  BY <1>3, <1>4, <1>5

(* A cell that is selected in a timeslot without reception. *)
LEMMA SelectRadio ==
  ASSUME NEW g \in Grid, NEW mac \in Node, NEW c \in Cell, IsSlotAvailableRX(g, c),
         NEW h, h = SetSlotPending(g, c, "PROPOSED_RX", mac)
  PROVE  /\ KeepsTx(g, h) /\ KeepsOtherRx(g, h, c[1])
         /\ RxAt(g, c[1]) = {}
         /\ RxAt(h, c[1]) = {[phase |-> "offered", peer |-> mac, freq |-> c[2]]}
<1>1. h = [g EXCEPT ![c] = [state |-> "PROPOSED_RX", mac |-> mac, removal |-> 0]]
  BY DEF SetSlotPending, IsSetPendingAllowed
<1>2. \A d \in Cell : d # c => h[d] = g[d]
  BY <1>1 DEF Grid
<1>3. h[c].state = "PROPOSED_RX" /\ h[c].mac = mac
  BY <1>1 DEF Grid
<1>4. g[c].state = "FREE" /\ \A d \in Cell : d[1] = c[1] => g[d].state \notin RxUse
  <2>1. \A f \in Frequency : g[<<c[1], f>>].state \notin RxUse
    BY DEF IsSlotAvailableRX, IsTimeslotAvailableRX
  <2> QED
    BY <2>1, CellPair DEF IsSlotAvailableRX, IsSlotFree
<1>5. ASSUME NEW t \in Timeslot PROVE TxAt(h, t) = TxAt(g, t)
  <2>1. \A d \in Cell : g[d].state \in TxUse \/ h[d].state \in TxUse => h[d] = g[d]
    BY <1>2, <1>3, <1>4 DEF TxUse
  <2> QED
    BY <2>1, SameUses DEF TxAt
<1>6. ASSUME NEW t \in Timeslot, t # c[1] PROVE RxAt(h, t) = RxAt(g, t)
  <2>1. \A d \in Cell : d[1] = t => h[d] = g[d]
    BY <1>2, <1>6
  <2> QED
    BY <2>1, SameUses DEF RxAt
<1>7. RxAt(g, c[1]) = {}
  BY <1>4, NoUses, CellPair DEF RxAt
<1>8. RxAt(h, c[1]) = {UseOf(h, c[1], c[2])}
  BY <1>2, <1>3, <1>4, OnlyUse DEF RxAt, RxUse
<1>9. UseOf(h, c[1], c[2]) = [phase |-> "offered", peer |-> mac, freq |-> c[2]]
  BY <1>3, CellPair DEF UseOf
<1> QED
  BY <1>5, <1>6, <1>7, <1>8, <1>9 DEF KeepsTx, KeepsOtherRx

(* In the timeslot t the proposals to the peers are freed: all or none. *)
Withdrawn(g, h, t, macs) ==
  \A c \in Cell : c[1] = t =>
    h[c] = IF g[c].state = "PROPOSED_TX" /\ g[c].mac \in macs THEN FreeInfo ELSE g[c]

(* Then the transmitter falls idle if it was on offer to one of them. *)
LEMMA WithdrawnAt ==
  ASSUME NEW g \in Grid, Sound(g), NEW h, NEW t \in Timeslot, NEW macs \in SUBSET Node,
         Withdrawn(g, h, t, macs)
  PROVE  TxAt(h, t) = IF \E mac \in macs : TxAt(g, t) \in Radio!Offers(mac)
                      THEN {} ELSE TxAt(g, t)
<1>1. ASSUME NEW mac \in macs, TxAt(g, t) \in Radio!Offers(mac) PROVE TxAt(h, t) = {}
  <2>1. PICK c \in Cell : c[1] = t /\ g[c].state = "PROPOSED_TX" /\ g[c].mac = mac
    BY <1>1, TxOffers
  <2>2. \A d \in Cell : d[1] = t /\ g[d].state \in TxUse
                          => g[d].state = "PROPOSED_TX" /\ g[d].mac = mac
    BY <2>1 DEF Sound, SoundTx, TxUse
  <2>3. \A d \in Cell : d[1] = t => h[d].state \notin TxUse
    BY <1>1, <2>2 DEF Withdrawn, FreeInfo, TxUse
  <2> QED
    BY <2>3, NoUses DEF TxAt
<1>2. ASSUME ~ \E mac \in macs : TxAt(g, t) \in Radio!Offers(mac)
      PROVE  TxAt(h, t) = TxAt(g, t)
  <2>1. \A c \in Cell : c[1] = t => ~(g[c].state = "PROPOSED_TX" /\ g[c].mac \in macs)
    BY <1>2, TxOffers
  <2>2. \A c \in Cell : c[1] = t => h[c] = g[c]
    BY <2>1 DEF Withdrawn
  <2> QED
    BY <2>2, SameTimeslot
<1> QED
  BY <1>1, <1>2

(* The proposals to the peers lapse; nothing else changes. *)
LEMMA AbortTXRadio ==
  ASSUME NEW g \in Grid, Sound(g), NEW macs \in SUBSET Node, NEW h,
         h = AbortTXProposals(g, macs)
  PROVE  KeepsRx(g, h) /\ LapsesTx(g, h, macs)
<1>1. \A c \in Cell :
        h[c] = IF g[c].state = "PROPOSED_TX" /\ g[c].mac \in macs THEN FreeInfo ELSE g[c]
  BY AbortTXShape
<1>2. \A c \in Cell : g[c].state \in RxUse \/ h[c].state \in RxUse => h[c] = g[c]
  BY <1>1 DEF RxUse, FreeInfo
<1>3. ASSUME NEW t \in Timeslot PROVE RxAt(h, t) = RxAt(g, t)
  BY <1>2, SameUses DEF RxAt
<1>4. \A t \in Timeslot : Withdrawn(g, h, t, macs)
  BY <1>1 DEF Withdrawn
<1>5. LapsesTx(g, h, macs)
  BY <1>4, WithdrawnAt DEF LapsesTx
<1> QED
  BY <1>3, <1>5 DEF KeepsRx

(* The first proposal of each peer is the one reception of its timeslot. *)
LEMMA AbortRXRadio ==
  ASSUME NEW g \in Grid, Sound(g), NEW macs \in SUBSET Node, NEW h,
         h = AbortRXProposals(g, macs)
  PROVE  KeepsTx(g, h) /\ LapsesRx(g, h)
<1> SUFFICES ASSUME NEW t \in Timeslot
             PROVE  /\ TxAt(h, t) = TxAt(g, t)
                    /\ \/ RxAt(h, t) = RxAt(g, t)
                       \/ Radio!IsOffer(RxAt(g, t)) /\ RxAt(h, t) = {}
  BY DEF KeepsTx, LapsesRx
<1> DEFINE cells == UNION {First(RxProposals(g, mac)) : mac \in macs}
<1>1. \A c \in cells : c \in Cell /\ g[c].state = "PROPOSED_RX"
  BY DEF First, RxProposals
<1>2. \A c \in Cell : h[c] = IF c \in cells THEN FreeInfo ELSE g[c]
  BY DEF AbortRXProposals, FreeSlots
<1> HIDE DEF cells
<1>3. TxAt(h, t) = TxAt(g, t)
  <2>1. \A c \in Cell : g[c].state \in TxUse \/ h[c].state \in TxUse => h[c] = g[c]
    BY <1>1, <1>2 DEF TxUse, FreeInfo
  <2> QED
    BY <2>1, SameUses DEF TxAt
<1>4. CASE \A c \in cells : c[1] # t
  <2>1. \A c \in Cell : c[1] = t => h[c] = g[c]
    BY <1>2, <1>4
  <2>2. RxAt(h, t) = RxAt(g, t)
    BY <2>1, SameUses DEF RxAt
  <2> QED
    BY <1>3, <2>2
<1>5. ASSUME NEW c \in cells, c[1] = t
      PROVE  Radio!IsOffer(RxAt(g, t)) /\ RxAt(h, t) = {}
  <2>1. c \in Cell /\ g[c].state = "PROPOSED_RX" /\ g[c].state \in RxUse
    BY <1>1 DEF RxUse
  <2>2. \A d \in Cell : d[1] = c[1] /\ g[d].state \in RxUse => d = c
    BY <2>1 DEF Sound, SoundRx
  <2>3. RxAt(g, t) = {UseOf(g, t, c[2])}
    BY <1>5, <2>1, <2>2, OnlyUse DEF RxAt
  <2>4. g[c].mac \in Node
    BY <2>1 DEF Sound, SoundPeer
  <2>5. UseOf(g, t, c[2]) \in [phase : {"offered"}, peer : {g[c].mac}, freq : Frequency]
    BY <1>5, <2>1, CellPair DEF UseOf
  <2>6. Radio!IsOffer(RxAt(g, t))
    BY <2>3, <2>4, <2>5 DEF Radio!IsOffer, Radio!Offers
  <2>7. \A d \in Cell : d[1] = t => h[d].state \notin RxUse
    BY <1>2, <1>5, <2>2 DEF FreeInfo, RxUse
  <2>8. RxAt(h, t) = {}
    BY <2>7, NoUses DEF RxAt
  <2> QED
    BY <2>6, <2>8
<1> QED
  BY <1>3, <1>4, <1>5

(* The final allocation for transmission takes up the offer of its timeslot; *)
(* the peer's other offers lapse.                                            *)
LEMMA AllocateTXRadio ==
  ASSUME NEW g \in Grid, Sound(g), NEW c \in Cell, NEW mac \in Node,
         IsSetAllocatedAllowed(g, c, "TX", mac),
         NEW h, h = AbortTXProposals(SetSlotAllocated(g, c, "TX", mac), {mac})
  PROVE  KeepsRx(g, h) /\ TakesUpTx(g, h, c[1], mac)
<1>1. g[c].state = "PROPOSED_TX" /\ g[c].mac = mac
  BY DEF IsSetAllocatedAllowed
<1>2. PICK a : a = SetSlotAllocated(g, c, "TX", mac)
  OBVIOUS
<1>3. /\ a \in Grid
      /\ \A d \in Cell : d # c => a[d] = g[d]
      /\ a[c] = [state |-> "TX", mac |-> mac, removal |-> 0]
  BY <1>2, AllocatedShape DEF Mode
<1>4. \A d \in Cell : h[d] = IF a[d].state = "PROPOSED_TX" /\ a[d].mac \in {mac}
                             THEN FreeInfo ELSE a[d]
  BY <1>2, <1>3, AbortTXShape
<1>5. h[c].state = "TX" /\ h[c].mac = mac
  BY <1>3, <1>4
<1>6. \A d \in Cell : d # c =>
        h[d] = IF g[d].state = "PROPOSED_TX" /\ g[d].mac \in {mac} THEN FreeInfo ELSE g[d]
  BY <1>3, <1>4
<1>7. ASSUME NEW t \in Timeslot PROVE RxAt(h, t) = RxAt(g, t)
  <2>1. ASSUME NEW d \in Cell, g[d].state \in RxUse \/ h[d].state \in RxUse
        PROVE  h[d] = g[d]
    <3>1. d # c
      BY <1>1, <1>5, <2>1 DEF RxUse
    <3>2. ~(g[d].state = "PROPOSED_TX" /\ g[d].mac \in {mac})
      BY <1>6, <2>1, <3>1 DEF RxUse, FreeInfo
    <3> QED
      BY <1>6, <3>1, <3>2
  <2> QED
    BY <2>1, SameUses DEF RxAt
<1>8. c[1] \in Timeslot /\ c[2] \in Frequency /\ c = <<c[1], c[2]>>
  BY CellPair
<1>9. TxAt(g, c[1]) \in Radio!Offers(mac)
  BY <1>1, <1>8, TxOffers
<1>10. \E u \in TxAt(g, c[1]) : TxAt(h, c[1]) = Radio!Committed(u)
  <2>1. \A d \in Cell : d[1] = c[1] /\ h[d].state \in TxUse => d = c
    <3> SUFFICES ASSUME NEW d \in Cell, d[1] = c[1], h[d].state \in TxUse, d # c
                 PROVE  FALSE
      OBVIOUS
    <3>1. g[d].state \in TxUse
      BY <1>6 DEF FreeInfo, TxUse
    <3>2. g[d].state = "PROPOSED_TX" /\ g[d].mac = mac
      BY <1>1, <3>1 DEF Sound, SoundTx, TxUse
    <3>3. h[d] = FreeInfo
      BY <1>6, <3>2
    <3> QED
      BY <3>3 DEF FreeInfo, TxUse
  <2>2. TxAt(h, c[1]) = {UseOf(h, c[1], c[2])}
    BY <1>5, <2>1, OnlyUse DEF TxAt, TxUse
  <2>3. UseOf(g, c[1], c[2]) \in TxAt(g, c[1])
    BY <1>1, <1>8, UsesMember DEF TxAt, TxUse
  <2>4. UseOf(h, c[1], c[2]) = [UseOf(g, c[1], c[2]) EXCEPT !.phase = "committed"]
    BY <1>1, <1>5, <1>8 DEF UseOf
  <2> QED
    BY <2>2, <2>3, <2>4 DEF Radio!Committed
<1>11. ASSUME NEW t \in Timeslot, t # c[1]
       PROVE  TxAt(h, t) = IF TxAt(g, t) \in Radio!Offers(mac) THEN {} ELSE TxAt(g, t)
  <2>1. PICK macs \in SUBSET Node : macs = {mac}
    OBVIOUS
  <2>2. Withdrawn(g, h, t, macs)
    BY <1>6, <1>11, <2>1 DEF Withdrawn
  <2>3. TxAt(h, t) = IF \E m \in macs : TxAt(g, t) \in Radio!Offers(m)
                     THEN {} ELSE TxAt(g, t)
    BY <2>2, WithdrawnAt
  <2> QED
    BY <2>1, <2>3
<1> QED
  BY <1>7, <1>9, <1>10, <1>11 DEF KeepsRx, TakesUpTx

(* The final allocation for reception takes up the selection. *)
LEMMA AllocateRXRadio ==
  ASSUME NEW g \in Grid, Sound(g), NEW c \in Cell, NEW mac \in Node,
         IsSetAllocatedAllowed(g, c, "RX", mac),
         NEW h, h = SetSlotAllocated(g, c, "RX", mac)
  PROVE  KeepsTx(g, h) /\ KeepsOtherRx(g, h, c[1]) /\ TakesUpRx(g, h, c[1])
<1>1. g[c].state = "PROPOSED_RX" /\ g[c].mac = mac
  BY DEF IsSetAllocatedAllowed
<1>2. /\ \A d \in Cell : d # c => h[d] = g[d]
      /\ h[c] = [state |-> "RX", mac |-> mac, removal |-> 0]
  BY AllocatedShape DEF Mode
<1>3. h[c].state = "RX" /\ h[c].mac = mac
  BY <1>2
<1>4. c[1] \in Timeslot /\ c[2] \in Frequency /\ c = <<c[1], c[2]>>
  BY CellPair
<1>5. \A d \in Cell : d[1] = c[1] /\ g[d].state \in RxUse => d = c
  BY <1>1 DEF Sound, SoundRx, RxUse
<1>6. \A d \in Cell : d[1] = c[1] /\ h[d].state \in RxUse => d = c
  BY <1>2, <1>5
<1>7. ASSUME NEW t \in Timeslot PROVE TxAt(h, t) = TxAt(g, t)
  <2>1. \A d \in Cell : g[d].state \in TxUse \/ h[d].state \in TxUse => h[d] = g[d]
    BY <1>1, <1>2, <1>3 DEF TxUse
  <2> QED
    BY <2>1, SameUses DEF TxAt
<1>8. ASSUME NEW t \in Timeslot, t # c[1] PROVE RxAt(h, t) = RxAt(g, t)
  <2>1. \A d \in Cell : d[1] = t => h[d] = g[d]
    BY <1>2, <1>8
  <2> QED
    BY <2>1, SameUses DEF RxAt
<1>9. RxAt(g, c[1]) = {UseOf(g, c[1], c[2])}
  BY <1>1, <1>5, OnlyUse DEF RxAt, RxUse
<1>10. RxAt(h, c[1]) = {UseOf(h, c[1], c[2])}
  BY <1>3, <1>6, OnlyUse DEF RxAt, RxUse
<1>11. UseOf(g, c[1], c[2]) \in [phase : {"offered"}, peer : {mac}, freq : Frequency]
  BY <1>1, <1>4 DEF UseOf
<1>12. Radio!IsOffer(RxAt(g, c[1]))
  BY <1>9, <1>11 DEF Radio!IsOffer, Radio!Offers
<1>13. UseOf(h, c[1], c[2]) = [UseOf(g, c[1], c[2]) EXCEPT !.phase = "committed"]
  BY <1>1, <1>3, <1>4 DEF UseOf
<1>14. TakesUpRx(g, h, c[1])
  BY <1>9, <1>10, <1>12, <1>13 DEF TakesUpRx, Radio!Committed
<1> QED
  BY <1>7, <1>8, <1>14 DEF KeepsTx, KeepsOtherRx

(* An allocated cell is freed. *)
LEMMA FreeRadio ==
  ASSUME NEW g \in Grid, Sound(g), NEW c \in Cell, IsSlotAllocated(g, c),
         NEW h, FreesCell(g, h, c)
  PROVE  \/ KeepsRx(g, h) /\ KeepsOtherTx(g, h, c[1]) /\ ReleasesTx(g, h, c[1])
         \/ KeepsTx(g, h) /\ KeepsOtherRx(g, h, c[1]) /\ ReleasesRx(g, h, c[1])
<1>1. c[1] \in Timeslot /\ c[2] \in Frequency /\ c = <<c[1], c[2]>>
  BY CellPair
<1>2. h[c].state = "FREE" /\ \A d \in Cell : d # c => h[d] = g[d]
  BY DEF FreesCell, FreeInfo
<1>3. g[c].state \in {"TX", "RX"} /\ g[c].mac \in Node
  BY DEF IsSlotAllocated, Sound, SoundPeer, TxUse, RxUse
<1>4. UseOf(g, c[1], c[2]) \in [phase : {"committed"}, peer : Node, freq : Frequency]
  BY <1>1, <1>3 DEF UseOf
<1>5. ASSUME NEW t \in Timeslot, t # c[1]
      PROVE  TxAt(h, t) = TxAt(g, t) /\ RxAt(h, t) = RxAt(g, t)
  <2>1. \A d \in Cell : d[1] = t => h[d] = g[d]
    BY <1>2, <1>5
  <2> QED
    BY <2>1, SameTimeslot
<1>6. CASE g[c].state = "TX"
  <2>1. \A d \in Cell : d[1] = c[1] /\ g[d].state \in TxUse => d = c
    BY <1>6 DEF Sound, SoundTx, TxUse
  <2>2. TxAt(g, c[1]) = {UseOf(g, c[1], c[2])}
    BY <1>6, <2>1, OnlyUse DEF TxAt, TxUse
  <2>3. TxAt(g, c[1]) \in Radio!Commitments
    BY <1>4, <2>2 DEF Radio!Commitments
  <2>4. \A d \in Cell : d[1] = c[1] => h[d].state \notin TxUse
    BY <1>2, <2>1 DEF TxUse
  <2>5. TxAt(h, c[1]) = {}
    BY <1>1, <2>4, NoUses DEF TxAt
  <2>6. \A d \in Cell : g[d].state \in RxUse \/ h[d].state \in RxUse => h[d] = g[d]
    BY <1>2, <1>6 DEF RxUse
  <2>7. \A t \in Timeslot : RxAt(h, t) = RxAt(g, t)
    BY <2>6, SameUses DEF RxAt
  <2> QED
    BY <1>5, <2>3, <2>5, <2>7 DEF KeepsRx, KeepsOtherTx, ReleasesTx
<1>7. CASE g[c].state = "RX"
  <2>1. \A d \in Cell : d[1] = c[1] /\ g[d].state \in RxUse => d = c
    BY <1>7 DEF Sound, SoundRx, RxUse
  <2>2. RxAt(g, c[1]) = {UseOf(g, c[1], c[2])}
    BY <1>7, <2>1, OnlyUse DEF RxAt, RxUse
  <2>3. RxAt(g, c[1]) \in Radio!Commitments
    BY <1>4, <2>2 DEF Radio!Commitments
  <2>4. \A d \in Cell : d[1] = c[1] => h[d].state \notin RxUse
    BY <1>2, <2>1 DEF RxUse
  <2>5. RxAt(h, c[1]) = {}
    BY <1>1, <2>4, NoUses DEF RxAt
  <2>6. \A d \in Cell : g[d].state \in TxUse \/ h[d].state \in TxUse => h[d] = g[d]
    BY <1>2, <1>7 DEF TxUse
  <2>7. \A t \in Timeslot : TxAt(h, t) = TxAt(g, t)
    BY <2>6, SameUses DEF TxAt
  <2> QED
    BY <1>5, <2>3, <2>5, <2>7 DEF KeepsTx, KeepsOtherRx, ReleasesRx
<1> QED
  BY <1>3, <1>6, <1>7

-----------------------------------------------------------------------------
(* The radios of the stations, when one grid changes *)

(* The radios of n become those of h, and no others change. *)
Retuned(n, h) ==
  /\ DOMAIN transmitters' = Station /\ DOMAIN receivers' = Station
  /\ DOMAIN transmitters'[n] = Timeslot /\ DOMAIN receivers'[n] = Timeslot
  /\ \A m \in Station \ {n} : /\ transmitters'[m] = transmitters[m]
                             /\ receivers'[m] = receivers[m]
  /\ \A t \in Timeslot : /\ transmitters[n][t] = TxAt(grid[n], t)
                        /\ receivers[n][t] = RxAt(grid[n], t)
                        /\ transmitters'[n][t] = TxAt(h, t)
                        /\ receivers'[n][t] = RxAt(h, t)

(* So it is after every step that writes the grid h of n. *)
LEMMA RadiosAfter ==
  ASSUME IInv, NEW n \in Station, NEW h, grid' = [grid EXCEPT ![n] = h]
  PROVE  Retuned(n, h)
<1>1. grid'[n] = h /\ \A m \in Station \ {n} : grid'[m] = grid[m]
  BY DEF IInv, TypeOK
<1> QED
  BY <1>1 DEF transmitters, receivers, TxAt, RxAt, Retuned

(* What the cells of n say of its transmitters, the others do not change. *)
LEMMA SameTransmitters ==
  ASSUME IInv, NEW n \in Station, NEW h, grid' = [grid EXCEPT ![n] = h],
         KeepsTx(grid[n], h)
  PROVE  UNCHANGED transmitters
<1>1. \A m \in Station : \A t \in Timeslot :
        Uses(grid'[m], t, TxUse) = Uses(grid[m], t, TxUse)
  BY DEF IInv, TypeOK, TxAt, KeepsTx
<1> QED
  BY <1>1 DEF transmitters

(* Likewise of its receivers. *)
LEMMA SameReceivers ==
  ASSUME IInv, NEW n \in Station, NEW h, grid' = [grid EXCEPT ![n] = h],
         KeepsRx(grid[n], h)
  PROVE  UNCHANGED receivers
<1>1. \A m \in Station : \A t \in Timeslot :
        Uses(grid'[m], t, RxUse) = Uses(grid[m], t, RxUse)
  BY DEF IInv, TypeOK, RxAt, KeepsRx
<1> QED
  BY <1>1 DEF receivers

(* The transmitter of one timeslot changes. *)
LEMMA OneTransmitter ==
  ASSUME IInv, NEW n \in Station, NEW h, grid' = [grid EXCEPT ![n] = h],
         NEW s \in Timeslot, KeepsOtherTx(grid[n], h, s)
  PROVE  transmitters' = [transmitters EXCEPT ![n][s] = TxAt(h, s)]
<1>1. /\ \A m \in Station \ {n} : transmitters'[m] = transmitters[m]
      /\ \A t \in Timeslot : /\ transmitters[n][t] = TxAt(grid[n], t)
                            /\ transmitters'[n][t] = TxAt(h, t)
  <2>1. Retuned(n, h)
    BY RadiosAfter
  <2> QED
    BY <2>1 DEF Retuned
<1>2. \A m \in Station : \A t \in Timeslot :
        transmitters'[m][t] = IF m = n /\ t = s THEN TxAt(h, s) ELSE transmitters[m][t]
  BY <1>1 DEF KeepsOtherTx
<1>3. /\ DOMAIN transmitters = Station /\ DOMAIN transmitters' = Station
      /\ \A m \in Station : /\ DOMAIN transmitters[m] = Timeslot
                            /\ DOMAIN transmitters'[m] = Timeslot
      /\ transmitters' = [m \in Station |-> [t \in Timeslot |-> transmitters'[m][t]]]
      /\ transmitters = [m \in Station |-> [t \in Timeslot |-> transmitters[m][t]]]
  BY DEF transmitters
<1> HIDE DEF transmitters
<1> QED
  BY <1>2, <1>3

(* Likewise the receiver of one timeslot. *)
LEMMA OneReceiver ==
  ASSUME IInv, NEW n \in Station, NEW h, grid' = [grid EXCEPT ![n] = h],
         NEW s \in Timeslot, KeepsOtherRx(grid[n], h, s)
  PROVE  receivers' = [receivers EXCEPT ![n][s] = RxAt(h, s)]
<1>1. /\ \A m \in Station \ {n} : receivers'[m] = receivers[m]
      /\ \A t \in Timeslot : /\ receivers[n][t] = RxAt(grid[n], t)
                            /\ receivers'[n][t] = RxAt(h, t)
  <2>1. Retuned(n, h)
    BY RadiosAfter
  <2> QED
    BY <2>1 DEF Retuned
<1>2. \A m \in Station : \A t \in Timeslot :
        receivers'[m][t] = IF m = n /\ t = s THEN RxAt(h, s) ELSE receivers[m][t]
  BY <1>1 DEF KeepsOtherRx
<1>3. /\ DOMAIN receivers = Station /\ DOMAIN receivers' = Station
      /\ \A m \in Station : DOMAIN receivers[m] = Timeslot /\ DOMAIN receivers'[m] = Timeslot
      /\ receivers' = [m \in Station |-> [t \in Timeslot |-> receivers'[m][t]]]
      /\ receivers = [m \in Station |-> [t \in Timeslot |-> receivers[m][t]]]
  BY DEF receivers
<1> QED
  BY <1>2, <1>3

-----------------------------------------------------------------------------
(* The initial states, and the steps that change no radio *)

(* In an empty grid every radio is idle. *)
LEMMA EmptyRadios ==
  ASSUME NEW t \in Timeslot
  PROVE  TxAt(EmptyGrid, t) = {} /\ RxAt(EmptyGrid, t) = {}
<1>1. \A c \in Cell : EmptyGrid[c].state = "FREE"
  BY DEF EmptyGrid, FreeInfo
<1> QED
  BY <1>1, NoUses DEF TxAt, RxAt, TxUse, RxUse

(* The mapping takes initial states to initial states. *)
LEMMA InitSchedule == Init => Radio!Init
<1> SUFFICES ASSUME Init PROVE Radio!Init
  OBVIOUS
<1>1. \A n \in Station : grid[n] = EmptyGrid
  BY DEF Init
<1> QED
  BY <1>1, EmptyRadios DEF Radio!Init, Radio!Idle, transmitters, receivers, TxAt, RxAt

(* The radios are what the grids say, nothing else. *)
LEMMA SameGrids ==
  ASSUME UNCHANGED grid
  PROVE  UNCHANGED Radio!vars
BY DEF Radio!vars, transmitters, receivers

(* The reserved cells were idle and stay so for the schedule. *)
LEMMA AllocateReservedSlotsRadio ==
  ASSUME IInv, NEW n \in Station, AllocateReservedSlots(n)
  PROVE  UNCHANGED Radio!vars
<1>1. grid[n] = EmptyGrid
  BY TypedStation DEF AllocateReservedSlots, Addressed, Books, BcFirst
<1>2. PICK h : h = SetSlotsReserved(grid[n], Reserved)
  OBVIOUS
<1>3. grid' = [grid EXCEPT ![n] = h]
  BY <1>2 DEF AllocateReservedSlots
<1>4. \A c \in Cell : h[c].state \in {"FREE", "RESERVED"}
  BY <1>1, <1>2 DEF SetSlotsReserved, EmptyGrid, FreeInfo
<1>5. ASSUME NEW t \in Timeslot PROVE TxAt(h, t) = {} /\ RxAt(h, t) = {}
  BY <1>4, NoUses DEF TxAt, RxAt, TxUse, RxUse
<1>6. KeepsTx(grid[n], h) /\ KeepsRx(grid[n], h)
  BY <1>1, <1>5, EmptyRadios DEF KeepsTx, KeepsRx
<1> QED
  BY <1>3, <1>6, SameTransmitters, SameReceivers DEF Radio!vars

-----------------------------------------------------------------------------
(* The steps that change a grid *)

(* The grid of n before and after the step. *)
LEMMA SoundGrids ==
  ASSUME IInv, IInv', NEW n \in Station, NEW h, grid' = [grid EXCEPT ![n] = h]
  PROVE  grid[n] \in Grid /\ Sound(grid[n]) /\ h \in Grid /\ Sound(h)
<1>1. grid'[n] = h
  BY DEF IInv, TypeOK
<1> QED
  BY <1>1 DEF IInv, TypeOK, Books

(* A peer that is made an offer had none, and gets it in idle timeslots. *)
LEMMA ProposeSlotsRadio ==
  ASSUME IInv, IInv', NEW n \in Station, ProposeSlots(n)
  PROVE  Radio!Propose(n)
<1> DEFINE mac == Head(bus[n]).mac
<1>1. mac \in Node /\ mac \notin pendingTx[n]
  <2>1. bus[n] # <<>> /\ Head(bus[n]).to = "AI" /\ Head(bus[n]).type = "GET_PROPOSED"
    BY DEF ProposeSlots, Addressed
  <2> QED
    BY <2>1, HeadMessage, AIMessage DEF ProposeSlots
<1>2. PICK accepted \in SUBSET Cell :
        /\ \A c \in accepted : IsSlotAvailableTX(grid[n], c)
        /\ grid' = [grid EXCEPT ![n] = Proposed(grid[n], accepted, mac)]
  <2>1. PICK choice \in TxChoices(n) :
          LET accepted == {c \in choice : IsSetPendingAllowed(grid[n], c, "PROPOSED_TX", mac)}
          IN  grid' = [grid EXCEPT ![n] = Proposed(grid[n], accepted, mac)]
    BY DEF ProposeSlots, Proposed
  <2>2. \A c \in choice : c \in Cell /\ IsSlotAvailableTX(grid[n], c)
    BY DEF TxChoices, TxCandidates
  <2> QED
    BY <2>1, <2>2
<1> HIDE DEF mac
<1>3. PICK h : h = Proposed(grid[n], accepted, mac)
  OBVIOUS
<1>4. grid' = [grid EXCEPT ![n] = h]
  BY <1>2, <1>3
<1>5. grid[n] \in Grid /\ Sound(grid[n]) /\ h \in Grid /\ Sound(h)
  BY <1>4, SoundGrids
<1>6. \A t \in Timeslot : TxAt(grid[n], t) \notin Radio!Offers(mac)
  <2>1. \A c \in Cell : ~(grid[n][c].state = "PROPOSED_TX" /\ grid[n][c].mac = mac)
    BY <1>1, TypedStation DEF Books, Offered
  <2> QED
    BY <1>1, <1>5, <2>1, TxOffers
<1>7. ASSUME NEW t \in Timeslot
      PROVE  /\ RxAt(h, t) = RxAt(grid[n], t)
             /\ \/ TxAt(h, t) = TxAt(grid[n], t)
                \/ TxAt(grid[n], t) = {} /\ TxAt(h, t) \in Radio!Offers(mac)
  BY <1>1, <1>2, <1>3, <1>5, ProposeRadio
<1>8. UNCHANGED receivers
  <2>1. KeepsRx(grid[n], h)
    BY <1>7 DEF KeepsRx
  <2> QED
    BY <1>4, <2>1, SameReceivers
<1>9. Retuned(n, h)
  BY <1>4, RadiosAfter
<1>10. Radio!Changes(n, transmitters,
         LAMBDA t : \/ transmitters'[n][t] = transmitters[n][t]
                    \/ transmitters[n][t] = {} /\ transmitters'[n][t] \in Radio!Offers(mac))
  BY <1>7, <1>9 DEF Retuned, Radio!Changes
<1>11. \A t \in Timeslot : transmitters[n][t] \notin Radio!Offers(mac)
  BY <1>6, <1>9 DEF Retuned
<1> QED
  BY <1>1, <1>8, <1>10, <1>11 DEF Radio!Propose, Radio!Idle, Radio!Changes

(* A selection sets one idle receiver aside. *)
LEMMA SelectSlotRadio ==
  ASSUME IInv, IInv', NEW n \in Station, SelectSlot(n)
  PROVE  Radio!Select(n) \/ UNCHANGED Radio!vars
<1> DEFINE m == Head(bus[n])
<1>1. m.mac \in Node /\ m.slots \subseteq Cell
  <2>1. bus[n] # <<>> /\ m.to = "AI" /\ m.type = "GET_SELECTED"
    BY DEF SelectSlot, Addressed
  <2> QED
    BY <2>1, HeadMessage, AIMessage
<1>2. UNCHANGED grid \/ \E c \in RxCandidates(n, m.slots) :
        grid' = [grid EXCEPT ![n] = SetSlotPending(grid[n], c, "PROPOSED_RX", m.mac)]
  <2>1. PICK c \in (IF RxCandidates(n, m.slots) = {} THEN {NoSlot}
                    ELSE RxCandidates(n, m.slots)), accepted \in BOOLEAN :
          /\ accepted = TRUE => c # NoSlot
          /\ grid' = [grid EXCEPT ![n] =
                        IF accepted = TRUE
                        THEN SetSlotPending(grid[n], c, "PROPOSED_RX", m.mac) ELSE grid[n]]
    BY DEF SelectSlot
  <2>2. CASE accepted = TRUE
    BY <2>1, <2>2
  <2>3. CASE accepted = FALSE
    BY <2>1, <2>3 DEF IInv, TypeOK
  <2> QED
    BY <2>2, <2>3
<1>3. ASSUME NEW c \in RxCandidates(n, m.slots),
             grid' = [grid EXCEPT ![n] = SetSlotPending(grid[n], c, "PROPOSED_RX", m.mac)]
      PROVE  Radio!Select(n)
  <2>1. c \in Cell /\ IsSlotAvailableRX(grid[n], c)
    BY <1>1 DEF RxCandidates
  <2>2. PICK h : h = SetSlotPending(grid[n], c, "PROPOSED_RX", m.mac)
    OBVIOUS
  <2>3. grid' = [grid EXCEPT ![n] = h]
    BY <1>3, <2>2
  <2>4. grid[n] \in Grid
    BY <2>3, SoundGrids
  <2>5. /\ KeepsTx(grid[n], h) /\ KeepsOtherRx(grid[n], h, c[1])
        /\ RxAt(grid[n], c[1]) = {}
        /\ RxAt(h, c[1]) = {[phase |-> "offered", peer |-> m.mac, freq |-> c[2]]}
    BY <1>1, <2>1, <2>2, <2>4, SelectRadio
  <2>6. c[1] \in Timeslot /\ c[2] \in Frequency
    BY <2>1, CellPair
  <2>7. UNCHANGED transmitters
    BY <2>3, <2>5, SameTransmitters
  <2>8. receivers' = [receivers EXCEPT ![n][c[1]] = RxAt(h, c[1])]
    BY <2>3, <2>5, <2>6, OneReceiver
  <2>9. receivers[n][c[1]] = {}
    BY <2>5, <2>6 DEF receivers, RxAt
  <2> QED
    BY <1>1, <2>5, <2>6, <2>7, <2>8, <2>9 DEF Radio!Select, Radio!Idle
<1> QED
  BY <1>2, <1>3, SameGrids

(* Proposals to some peers are aborted, and some selections. *)
LEMMA WithdrawLift ==
  ASSUME IInv, NEW n \in Station, NEW h, grid' = [grid EXCEPT ![n] = h],
         NEW macs \in SUBSET Node, LapsesTx(grid[n], h, macs), LapsesRx(grid[n], h)
  PROVE  Radio!Withdraw(n)
<1>1. Retuned(n, h)
  BY RadiosAfter
<1>2. Radio!Changes(n, transmitters,
        LAMBDA t : transmitters'[n][t] =
                     IF \E mac \in macs : transmitters[n][t] \in Radio!Offers(mac)
                     THEN {} ELSE transmitters[n][t])
  BY <1>1 DEF LapsesTx, Retuned, Radio!Changes
<1>3. Radio!Changes(n, receivers,
        LAMBDA t : \/ receivers'[n][t] = receivers[n][t]
                   \/ Radio!IsOffer(receivers[n][t]) /\ receivers'[n][t] = {})
  BY <1>1 DEF LapsesRx, Retuned, Radio!Changes
<1> QED
  BY <1>2, <1>3 DEF Radio!Withdraw, Radio!Idle, Radio!Changes

(* A message for a slot that is allocated already lets the peer's offers lapse. *)
LEMMA AllocateSlotRadio ==
  ASSUME IInv, IInv', NEW n \in Station, AllocateSlot(n)
  PROVE  Radio!CommitTx(n) \/ Radio!CommitRx(n) \/ Radio!Withdraw(n) \/ UNCHANGED Radio!vars
<1> DEFINE m == Head(bus[n])
           g == IF AlreadyAllocated(n, m) THEN grid[n]
                ELSE SetSlotAllocated(grid[n], m.slot, m.mode, m.mac)
<1>1. /\ m.mac \in Node /\ m.mode \in Mode /\ m.slot \in Cell
      /\ AlreadyAllocated(n, m) \/ NewlyAllocated(n, m)
  <2>1. bus[n] # <<>> /\ m.to = "AI" /\ m.type = "SET_ALLOCATION"
    BY DEF AllocateSlot, Addressed
  <2> QED
    BY <2>1, HeadMessage, AIMessage DEF AllocateSlot
<1>2. PICK mac \in Node, c \in Cell, s \in Timeslot : mac = m.mac /\ c = m.slot /\ s = c[1]
  BY <1>1, CellPair
<1>3. grid[n] \in Grid /\ Sound(grid[n])
  BY TypedStation DEF Typed, Books
<1>4. CASE m.mode = "TX" /\ ~AlreadyAllocated(n, m)
  <2>1. IsSetAllocatedAllowed(grid[n], c, "TX", mac)
    BY <1>1, <1>2, <1>4 DEF NewlyAllocated
  <2>2. PICK h : h = AbortTXProposals(SetSlotAllocated(grid[n], c, "TX", mac), {mac})
    OBVIOUS
  <2>3. grid' = [grid EXCEPT ![n] = h]
    BY <1>2, <1>4, <2>2 DEF AllocateSlot
  <2>4. KeepsRx(grid[n], h) /\ TakesUpTx(grid[n], h, s, mac)
    BY <1>2, <1>3, <2>1, <2>2, AllocateTXRadio
  <2>5. UNCHANGED receivers
    BY <2>3, <2>4, SameReceivers
  <2>6. Retuned(n, h)
    BY <2>3, RadiosAfter
  <2>7. Radio!Changes(n, transmitters,
          LAMBDA t : IF t = s
                     THEN \E u \in transmitters[n][s] :
                            transmitters'[n][s] = Radio!Committed(u)
                     ELSE transmitters'[n][t] =
                            IF transmitters[n][t] \in Radio!Offers(mac)
                            THEN {} ELSE transmitters[n][t])
    BY <2>4, <2>6 DEF TakesUpTx, Retuned, Radio!Changes
  <2>8. transmitters[n][s] \in Radio!Offers(mac)
    BY <2>4, <2>6 DEF TakesUpTx, Retuned
  <2> QED
    BY <2>5, <2>7, <2>8 DEF Radio!CommitTx, Radio!Idle, Radio!Changes
<1>5. CASE m.mode = "TX" /\ AlreadyAllocated(n, m)
  <2>1. PICK macs \in SUBSET Node : macs = {mac}
    OBVIOUS
  <2>2. PICK h : h = AbortTXProposals(grid[n], macs)
    OBVIOUS
  <2>3. grid' = [grid EXCEPT ![n] = h]
    BY <1>2, <1>5, <2>1, <2>2 DEF AllocateSlot
  <2>4. KeepsRx(grid[n], h) /\ LapsesTx(grid[n], h, macs)
    BY <1>3, <2>2, AbortTXRadio
  <2>5. LapsesRx(grid[n], h)
    BY <2>4 DEF KeepsRx, LapsesRx
  <2> QED
    BY <2>3, <2>4, <2>5, WithdrawLift
<1>6. CASE m.mode = "RX" /\ ~AlreadyAllocated(n, m)
  <2>1. IsSetAllocatedAllowed(grid[n], c, "RX", mac)
    BY <1>1, <1>2, <1>6 DEF NewlyAllocated
  <2>2. PICK h : h = SetSlotAllocated(grid[n], c, "RX", mac)
    OBVIOUS
  <2>3. grid' = [grid EXCEPT ![n] = h]
    BY <1>2, <1>6, <2>2 DEF AllocateSlot
  <2>4. KeepsTx(grid[n], h) /\ KeepsOtherRx(grid[n], h, s) /\ TakesUpRx(grid[n], h, s)
    BY <1>2, <1>3, <2>1, <2>2, AllocateRXRadio
  <2>5. UNCHANGED transmitters
    BY <2>3, <2>4, SameTransmitters
  <2>6. receivers' = [receivers EXCEPT ![n][s] = RxAt(h, s)]
    BY <2>3, <2>4, OneReceiver
  <2>7. receivers[n][s] = RxAt(grid[n], s)
    BY DEF receivers, RxAt
  <2> QED
    BY <2>4, <2>5, <2>6, <2>7 DEF TakesUpRx, Radio!CommitRx
<1>7. CASE m.mode = "RX" /\ AlreadyAllocated(n, m)
  <2>1. UNCHANGED grid
    BY <1>7 DEF AllocateSlot, IInv, TypeOK
  <2> QED
    BY <2>1, SameGrids
<1> QED
  BY <1>1, <1>4, <1>5, <1>6, <1>7 DEF Mode

(* A cell that is freed while it is allocated releases its radio. *)
LEMMA FreedRadio ==
  ASSUME IInv, NEW n \in Station, NEW c \in Cell, IsSlotAllocated(grid[n], c),
         NEW h, FreesCell(grid[n], h, c),
         grid' = [grid EXCEPT ![n] = h]
  PROVE  Radio!Release(n)
<1>1. grid[n] \in Grid /\ Sound(grid[n])
  BY TypedStation DEF Typed, Books
<1>2. PICK s \in Timeslot : s = c[1]
  BY CellPair
<1>3. transmitters[n][s] = TxAt(grid[n], s) /\ receivers[n][s] = RxAt(grid[n], s)
  BY DEF transmitters, receivers, TxAt, RxAt
<1>4. CASE /\ KeepsRx(grid[n], h) /\ KeepsOtherTx(grid[n], h, s)
           /\ ReleasesTx(grid[n], h, s)
  <2>1. UNCHANGED receivers
    BY <1>4, SameReceivers
  <2>2. transmitters' = [transmitters EXCEPT ![n][s] = TxAt(h, s)]
    BY <1>4, OneTransmitter
  <2> QED
    BY <1>3, <1>4, <2>1, <2>2 DEF ReleasesTx, Radio!Release, Radio!Idle
<1>5. CASE /\ KeepsTx(grid[n], h) /\ KeepsOtherRx(grid[n], h, s)
           /\ ReleasesRx(grid[n], h, s)
  <2>1. UNCHANGED transmitters
    BY <1>5, SameTransmitters
  <2>2. receivers' = [receivers EXCEPT ![n][s] = RxAt(h, s)]
    BY <1>5, OneReceiver
  <2> QED
    BY <1>3, <1>5, <2>1, <2>2 DEF ReleasesRx, Radio!Release, Radio!Idle
<1> QED
  BY <1>1, <1>2, <1>4, <1>5, FreeRadio

(* A removal releases what it finds allocated to the peer, nothing else. *)
LEMMA RemoveSlotRadio ==
  ASSUME IInv, NEW n \in Station, RemoveSlot(n)
  PROVE  Radio!Release(n) \/ UNCHANGED Radio!vars
<1> DEFINE m == Head(bus[n])
<1>1. m.slot \in Cell
  <2>1. bus[n] # <<>> /\ m.to = "AI" /\ m.type = "SET_REMOVAL"
    BY DEF RemoveSlot, Addressed
  <2> QED
    BY <2>1, HeadMessage, AIMessage
<1>2. CASE IsSlotAllocatedFor(grid[n], m.slot, m.mac)
  <2>1. PICK c \in Cell : c = m.slot
    BY <1>1
  <2>2. IsSlotAllocated(grid[n], c)
    BY <1>2, <2>1 DEF IsSlotAllocatedFor
  <2>3. PICK h : h = FreeSlots(grid[n], {c})
    OBVIOUS
  <2>4. grid' = [grid EXCEPT ![n] = h]
    BY <1>2, <2>1, <2>3 DEF RemoveSlot
  <2>5. FreesCell(grid[n], h, c)
    BY <2>3 DEF FreesCell, FreeSlots
  <2> QED
    BY <2>2, <2>4, <2>5, FreedRadio
<1>3. CASE ~IsSlotAllocatedFor(grid[n], m.slot, m.mac)
  <2>1. UNCHANGED grid
    BY <1>3 DEF RemoveSlot, IInv, TypeOK
  <2> QED
    BY <2>1, SameGrids
<1> QED
  BY <1>2, <1>3

(* The mark of the transaction, if it is still there, is on one allocated cell. *)
LEMMA ProcessSetResponseRadio ==
  ASSUME IInv, NEW n \in Station, ProcessSetResponse(n)
  PROVE  Radio!Release(n) \/ UNCHANGED Radio!vars
<1> DEFINE m == Head(bus[n])
<1>1. /\ grid[n] \in Grid /\ Marked(grid[n], removals[n])
      /\ m.id \in removals[n] => m.id # 0
  BY TypedStation DEF Typed, Books
<1>2. CASE m.id \in removals[n] /\ m.result = "OK"
  <2>1. PICK h : h = FreeSlots(grid[n], RemovalCells(grid[n], m.id))
    OBVIOUS
  <2>2. grid' = [grid EXCEPT ![n] = h]
    <3>1. First(RemovalCells(grid[n], m.id)) = RemovalCells(grid[n], m.id)
      BY <1>1, <1>2, FirstRemoval
    <3> QED
      BY <1>2, <2>1, <3>1 DEF ProcessSetResponse, ExecutePendingRemoval
  <2>3. CASE RemovalCells(grid[n], m.id) = {}
    <3>1. h = grid[n]
      BY <1>1, <2>1, <2>3 DEF FreeSlots, Grid
    <3>2. UNCHANGED grid
      BY <2>2, <3>1 DEF IInv, TypeOK
    <3> QED
      BY <3>2, SameGrids
  <2>4. CASE RemovalCells(grid[n], m.id) # {}
    <3>1. PICK c \in Cell : grid[n][c].removal = m.id
      BY <2>4 DEF RemovalCells
    <3>2. /\ IsSlotAllocated(grid[n], c)
          /\ \A d \in Cell : grid[n][d].removal = m.id => d = c
      BY <1>1, <1>2, <3>1 DEF Marked, IsSlotAllocated
    <3>3. FreesCell(grid[n], h, c)
      BY <2>1, <3>1, <3>2 DEF FreesCell, FreeSlots, RemovalCells
    <3> QED
      BY <2>2, <3>2, <3>3, FreedRadio
  <2> QED
    BY <2>3, <2>4
<1>3. CASE ~(m.id \in removals[n] /\ m.result = "OK")
  <2>1. UNCHANGED grid
    BY <1>3 DEF ProcessSetResponse, IInv, TypeOK
  <2> QED
    BY <2>1, SameGrids
<1> QED
  BY <1>2, <1>3

(* Setting and clearing removal marks is invisible. *)
LEMMA MarkRemovalRadio ==
  ASSUME NEW g \in Grid, NEW id \in Nat, NEW due \in {NoSlot} \cup IdleCandidates(g),
         NEW h, h = MarkRemoval(g, due, id)
  PROVE  KeepsTx(g, h) /\ KeepsRx(g, h)
<1>1. CASE due = NoSlot
  BY <1>1 DEF MarkRemoval, KeepsTx, KeepsRx
<1>2. CASE due # NoSlot
  <2>1. due \in Cell /\ IsSlotAllocated(g, due) /\ ~IsRemovePending(g, due)
    BY <1>2 DEF IdleCandidates
  <2>2. h = [g EXCEPT ![due].removal = id]
    BY <1>2, <2>1 DEF MarkRemoval, SetPendingRemoval
  <2>3. \A c \in Cell : h[c].state = g[c].state /\ h[c].mac = g[c].mac
    BY <2>1, <2>2 DEF Grid, SlotInfo
  <2> QED
    BY <2>3, SameCells
<1> QED
  BY <1>1, <1>2

(* Nor is an expired removal visible. *)
LEMMA AbortRemovalsRadio ==
  ASSUME NEW g \in Grid, NEW ids, NEW h, h = AbortPendingRemovals(g, ids)
  PROVE  KeepsTx(g, h) /\ KeepsRx(g, h)
<1> DEFINE cells == UNION {First(RemovalCells(g, id)) : id \in ids}
<1>1. h = [c \in Cell |-> IF c \in cells THEN [g[c] EXCEPT !.removal = 0] ELSE g[c]]
  BY DEF AbortPendingRemovals
<1> HIDE DEF cells
<1>2. \A c \in Cell : h[c].state = g[c].state /\ h[c].mac = g[c].mac
  BY <1>1 DEF Grid, SlotInfo
<1> QED
  BY <1>2, SameCells

(* A statistic may mark a cell: no radio changes. *)
LEMMA ProcessStatsRadio ==
  ASSUME IInv, NEW n \in Station, ProcessStats(n)
  PROVE  UNCHANGED Radio!vars
<1>1. PICK due \in Due(grid[n], n) :
        grid' = [grid EXCEPT ![n] = MarkRemoval(grid[n], due, nextId[n])]
  BY DEF ProcessStats
<1>2. PICK h : h = MarkRemoval(grid[n], due, nextId[n])
  OBVIOUS
<1>3. grid' = [grid EXCEPT ![n] = h]
  BY <1>1, <1>2
<1>4. grid[n] \in Grid /\ nextId[n] \in Nat /\ due \in {NoSlot} \cup IdleCandidates(grid[n])
  BY TypedStation DEF Typed, Due
<1>5. KeepsTx(grid[n], h) /\ KeepsRx(grid[n], h)
  BY <1>2, <1>4, MarkRemovalRadio
<1> QED
  BY <1>3, <1>5, SameTransmitters, SameReceivers DEF Radio!vars

(* Whichever timeouts expire, the offers of the expired proposals lapse, the    *)
(* first selection of each expired peer does, and the marks change no radio.    *)
LEMMA InterloopStepsRadio ==
  ASSUME IInv, NEW n \in Station, InterloopSteps(n)
  PROVE  Radio!Withdraw(n)
<1>1. PICK expiredTx \in SUBSET pendingTx[n], expiredRx \in SUBSET pendingRx[n],
           expiredRemovals \in SUBSET removals[n], stale \in SUBSET external[n] :
        LET g == AbortPendingRemovals(
                   AbortRXProposals(AbortTXProposals(grid[n], expiredTx), expiredRx),
                   expiredRemovals)
        IN  \E due \in Due(g, n) :
              /\ grid'      = [grid EXCEPT ![n] = MarkRemoval(g, due, nextId[n])]
              /\ pendingTx' = [pendingTx EXCEPT ![n] = pendingTx[n] \ expiredTx]
              /\ pendingRx' = [pendingRx EXCEPT ![n] = pendingRx[n] \ expiredRx]
              /\ removals'  = [removals EXCEPT ![n] =
                                 (removals[n] \ expiredRemovals) \cup NewRemoval(n, due)]
              /\ external'  = [external EXCEPT ![n] = external[n] \ stale]
              /\ TakeId(n, due)
              /\ bus'       = [bus EXCEPT ![n] =
                                 bus[n] \o RemovalRequest(g, due, nextId[n])]
  BY DEF InterloopSteps
<1>2. /\ grid[n] \in Grid /\ Sound(grid[n]) /\ Marked(grid[n], removals[n])
      /\ expiredTx \in SUBSET Node /\ expiredRx \in SUBSET Node
      /\ 0 \notin expiredRemovals /\ nextId[n] \in Nat
  BY TypedStation DEF Typed, Books
<1>3. PICK a : a = AbortTXProposals(grid[n], expiredTx)
  OBVIOUS
<1>4. PICK b : b = AbortRXProposals(a, expiredRx)
  OBVIOUS
<1>5. PICK g : g = AbortPendingRemovals(b, expiredRemovals)
  OBVIOUS
<1>6. PICK due \in Due(g, n) : grid' = [grid EXCEPT ![n] = MarkRemoval(g, due, nextId[n])]
  BY <1>1, <1>3, <1>4, <1>5
<1>7. PICK h : h = MarkRemoval(g, due, nextId[n])
  OBVIOUS
<1>8. grid' = [grid EXCEPT ![n] = h]
  BY <1>6, <1>7
<1>9. a \in Grid /\ Sound(a) /\ Marked(a, removals[n])
  BY <1>2, <1>3, AbortTXBooks
<1>10. b \in Grid /\ Marked(b, removals[n])
  BY <1>4, <1>9, AbortRXBooks
<1>11. g \in Grid
  BY <1>2, <1>5, <1>10, AbortRemovalsBooks
<1>12. KeepsRx(grid[n], a) /\ LapsesTx(grid[n], a, expiredTx)
  BY <1>2, <1>3, AbortTXRadio
<1>13. KeepsTx(a, b) /\ LapsesRx(a, b)
  BY <1>2, <1>4, <1>9, AbortRXRadio
<1>14. KeepsTx(b, g) /\ KeepsRx(b, g)
  BY <1>5, <1>10, AbortRemovalsRadio
<1>15. KeepsTx(g, h) /\ KeepsRx(g, h)
  <2>1. due \in {NoSlot} \cup IdleCandidates(g)
    BY DEF Due
  <2> QED
    BY <1>2, <1>7, <1>11, <2>1, MarkRemovalRadio
<1>16. LapsesTx(grid[n], h, expiredTx)
  BY <1>12, <1>13, <1>14, <1>15 DEF KeepsTx, LapsesTx
<1>17. LapsesRx(grid[n], h)
  BY <1>12, <1>13, <1>14, <1>15 DEF KeepsRx, LapsesRx
<1> QED
  BY <1>2, <1>8, <1>16, <1>17, WithdrawLift

-----------------------------------------------------------------------------
(* The refinement *)

(* Every step maps to a step of the schedule or to a stutter. *)
LEMMA StepSchedule == IInv /\ [Next]_selVars => [Radio!Next]_(Radio!vars)
<1> SUFFICES ASSUME IInv, [Next]_selVars PROVE Radio!Next \/ UNCHANGED Radio!vars
  OBVIOUS
<1>1. IInv'
  BY NextInv
<1>2. CASE UNCHANGED selVars
  BY <1>2, SameGrids DEF selVars
<1>3. ASSUME NEW n \in Station, SelectionStep(n) \/ MacStep(n)
      PROVE  \/ Radio!Propose(n) \/ Radio!CommitTx(n) \/ Radio!Select(n)
             \/ Radio!CommitRx(n) \/ Radio!Withdraw(n) \/ Radio!Release(n)
             \/ UNCHANGED Radio!vars
  <2>1. CASE AllocateReservedSlots(n)
    BY <2>1, AllocateReservedSlotsRadio
  <2>2. CASE ProposeSlots(n)
    BY <1>1, <2>2, ProposeSlotsRadio
  <2>3. CASE SelectSlot(n)
    BY <1>1, <2>3, SelectSlotRadio
  <2>4. CASE AllocateSlot(n)
    BY <1>1, <2>4, AllocateSlotRadio
  <2>5. CASE RemoveSlot(n)
    BY <2>5, RemoveSlotRadio
  <2>6. CASE ProcessSetResponse(n)
    BY <2>6, ProcessSetResponseRadio
  <2>7. CASE ProcessStats(n)
    BY <2>7, ProcessStatsRadio
  <2>8. CASE InterloopSteps(n)
    BY <2>8, InterloopStepsRadio
  <2>9. CASE \/ IgnoreRequest(n) \/ RefuseAllocation(n) \/ ExternalSlotsAllocated(n)
             \/ ExternalSlotRemoved(n) \/ MacStep(n)
    <3>1. UNCHANGED grid
      BY <2>9 DEF IgnoreRequest, RefuseAllocation, ExternalSlotsAllocated,
                  ExternalSlotRemoved, MacStep, gridVars
    <3> QED
      BY <3>1, SameGrids
  <2> QED
    BY <1>3, <2>1, <2>2, <2>3, <2>4, <2>5, <2>6, <2>7, <2>8, <2>9 DEF SelectionStep
<1>4. CASE PacketHeard
  BY <1>4, SameGrids DEF PacketHeard, gridVars
<1> QED
  BY <1>2, <1>3, <1>4 DEF Next, Radio!Next

(* The slot selection keeps its promise to the MAC (RadioSchedule), whatever the MAC *)
(* asks and whichever timeouts expire (process_message, interloop_steps): a radio    *)
(* passes from idle to an offer, from the offer to a commitment to that very peer,   *)
(* and back to idle, one peer and one frequency at a time.                           *)
THEOREM ImplementsRadioScheduleHolds == Spec => ImplementsRadioSchedule
BY InitSchedule, StepSchedule, InductiveInvariant, PTL
   DEF Spec, ImplementsRadioSchedule, Radio!Spec

=============================================================================
