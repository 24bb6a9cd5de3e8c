--------------------------- MODULE TwoEnds_proofs ---------------------------
(***************************************************************************)
(* Proofs about SlotProtocol, third part: on a radio that loses nothing    *)
(* and is in time, the two ends of a slot agree, or a message that         *)
(* restores agreement is on its way.                                       *)
(*                                                                         *)
(* First the two ends of a cell (EndsInv) and the steps by which they may  *)
(* change: an offer made, sent, chosen, granted or refused, a removal      *)
(* sent, done or heard of.  Then that no station has dealings with itself  *)
(* (PeersInv, on any radio).  Then which of those steps each handler of a  *)
(* message is, that of a plain message and that of one that came of a      *)
(* packet, and what the ticks do.                                          *)
(***************************************************************************)
EXTENDS Agreement_proofs

-----------------------------------------------------------------------------
(* The two ends of a slot: the cell c at a station n and at its peer m *)

(* What a message tells a station of the cell c it may share with its peer p: *)
(* an offer, a result or a removal that p sent has come; the station selected *)
(* c of p's offer; the slot selection refused the slot that p's result gave.  *)
Signals(x, P, p, k, c) ==
  \/ /\ k \in Unicast /\ x.to = "MAC" /\ Brought(x, k, p)
     /\ k = "ADD_SLOT" \/ x.packet.slots = {c}
  \/ k = "ADD_SLOT" /\ x.to = "AI" /\ x.type = "GET_SELECTED" /\ x.mac = p
  \/ /\ k = "RESULT" /\ x.to = "AI" /\ x.type = "SET_ALLOCATION" /\ x.mode = "TX"
     /\ x.mac = p /\ x.slot = c
  \/ k = "DELETE" /\ x.to = "AI" /\ x.type = "SET_REMOVAL" /\ x.mac = p /\ x.slot = c
  \/ k = "SELECTED" /\ x.to = "MAC" /\ x.type = "GETR_SELECTED" /\ x.mac = p /\ x.slot = c
  \/ /\ k = "REFUSED" /\ x.to = "MAC" /\ x.type = "SETR" /\ x.id # 0 /\ x.result = "NOK"
     /\ x.id \in DOMAIN P
     /\ P[x.id] = [set |-> "ALLOCATION", mode |-> "TX", mac |-> p, slot |-> c]

Hears(n, p, k, c) == \E x \in Range(bus[n]) : Signals(x, procedures[n], p, k, c)

(* The packets for m that wait at n, and their order. *)
Tells(e, k, m, c) == IsPacket(e, k, m) /\ (k = "ADD_SLOT" \/ e.slots = {c})
Waits(q, m, k, c)     == \E i \in DOMAIN q : Tells(q[i].packet, k, m, c)
Behind(q, m, j, k, c) == \E i, l \in DOMAIN q : /\ i < l /\ Tells(q[i].packet, j, m, c)
                                                /\ Tells(q[l].packet, k, m, c)

(* What is on its way from n to m, and what comes after what. *)
OnWay(n, m, k, c)    == Hears(m, n, k, c) \/ Waits(queue[n], m, k, c)
Later(n, m, j, k, c) == \/ Hears(m, n, j, c) /\ Waits(queue[n], m, k, c)
                        \/ Behind(queue[n], m, j, k, c)

(* What n does with the cell, for m. *)
Sending(n, m, c)   == grid[n][c].state = "TX" /\ grid[n][c].mac = m
Listening(n, m, c) == grid[n][c].state \in RxUse /\ grid[n][c].mac = m
Offering(n, m, c)  == grid[n][c].state = "PROPOSED_TX" /\ grid[n][c].mac = m
Closing(n, m, c)   == Ending(Range(bus[n]), grid[n], c) /\ grid[n][c].mac = m
DueAt(n, m, c)     == \E x \in Range(bus[n]) : RemovalAsked(x) /\ x.mac = m /\ x.slot = c

OfferFresh(n, m, c) ==
  Offering(n, m, c) =>
    /\ ~Later(n, m, "ADD_SLOT", "DELETE", c) /\ ~DueAt(n, m, c)
    /\ Hears(m, n, "SELECTED", c) \/ OnWay(m, n, "RESULT", c) => ~OnWay(n, m, "DELETE", c)
    /\ OnWay(m, n, "RESULT", c) =>
         IF Later(m, n, "RESULT", "DELETE", c) THEN Listening(m, n, c) => Closing(m, n, c)
                                               ELSE Listening(m, n, c)
ResultAlone(n, m, c) ==
  OnWay(m, n, "RESULT", c) =>
    /\ ~Sending(m, n, c)
    /\ Offering(m, n, c) =>
         /\ ~Hears(n, m, "SELECTED", c) /\ ~OnWay(n, m, "RESULT", c)
         /\ OnWay(m, n, "ADD_SLOT", c) => Later(m, n, "RESULT", "ADD_SLOT", c)
RefusalAlone(n, m, c) ==
  Hears(n, m, "REFUSED", c) =>
    /\ ~Sending(n, m, c) /\ ~Offering(n, m, c) /\ ~Sending(m, n, c)
    /\ Offering(m, n, c) => ~OnWay(n, m, "RESULT", c)
SenderSound(n, m, c) ==
  Sending(n, m, c) =>
    /\ IF OnWay(m, n, "DELETE", c) THEN Listening(m, n, c) => Closing(m, n, c)
                                   ELSE Listening(m, n, c)
    /\ OnWay(n, m, "DELETE", c) => Closing(n, m, c)
ListenerSound(n, m, c) ==
  Listening(n, m, c) =>
    \/ Sending(m, n, c) \/ OnWay(m, n, "DELETE", c)
    \/ Hears(n, m, "SELECTED", c) \/ OnWay(n, m, "RESULT", c) \/ Hears(m, n, "REFUSED", c)
ClosingTold(n, m, c) ==
  Closing(n, m, c) =>
    /\ OnWay(n, m, "DELETE", c)
    /\ OnWay(n, m, "RESULT", c) => Later(n, m, "RESULT", "DELETE", c)

Ends(n, m, c) ==
  /\ OfferFresh(n, m, c) /\ ResultAlone(n, m, c) /\ RefusalAlone(n, m, c)
  /\ SenderSound(n, m, c) /\ ListenerSound(n, m, c) /\ ClosingTold(n, m, c)

EndsInv ==
  \A n \in Node : \A m \in Node \ {n} : \A c \in Cell : Ends(n, m, c)

-----------------------------------------------------------------------------
(* How the views of n of the cell c for p, and what is on its way, may change *)

SameView(n, p, c) ==
  /\ Sending(n, p, c)' <=> Sending(n, p, c)
  /\ Listening(n, p, c)' <=> Listening(n, p, c)
  /\ Closing(n, p, c)' <=> Closing(n, p, c)
SameAnswers(n, p, c) ==
  /\ Hears(n, p, "SELECTED", c)' <=> Hears(n, p, "SELECTED", c)
  /\ Hears(n, p, "REFUSED", c)' <=> Hears(n, p, "REFUSED", c)
NoNewOffer(n, p, c) ==
  Offering(n, p, c)' => Offering(n, p, c) /\ (DueAt(n, p, c)' => DueAt(n, p, c))
(* Between the instants. *)
AtRest(p, n, c) ==
  /\ ~Closing(p, n, c) /\ ~Hears(p, n, "SELECTED", c) /\ ~Hears(p, n, "REFUSED", c)
PeerKeeps(p, n, c) ==
  /\ SameView(p, n, c) /\ SameAnswers(p, n, c) /\ AtRest(p, n, c)
  /\ Offering(p, n, c)' <=> Offering(p, n, c)
  /\ DueAt(p, n, c)' <=> DueAt(p, n, c)

(* What is on its way from n to p stays; an offer may be gone. *)
FlightKeeps(n, p, c) ==
  /\ OnWay(n, p, "RESULT", c)' <=> OnWay(n, p, "RESULT", c)
  /\ OnWay(n, p, "DELETE", c)' <=> OnWay(n, p, "DELETE", c)
  /\ Later(n, p, "RESULT", "DELETE", c)' <=> Later(n, p, "RESULT", "DELETE", c)
  /\ Later(n, p, "RESULT", "ADD_SLOT", c)' <=> Later(n, p, "RESULT", "ADD_SLOT", c)
  /\ OnWay(n, p, "ADD_SLOT", c)' => OnWay(n, p, "ADD_SLOT", c)
  /\ Later(n, p, "ADD_SLOT", "DELETE", c)' => Later(n, p, "ADD_SLOT", "DELETE", c)

(* A packet of type k is sent: it comes after all that is on its way. *)
FlightGets(n, p, k, c) ==
  /\ \A j \in Unicast : OnWay(n, p, j, c)' <=> OnWay(n, p, j, c) \/ j = k
  /\ \A j, l \in Unicast : j # l =>
       (Later(n, p, j, l, c)' <=> Later(n, p, j, l, c) \/ (l = k /\ OnWay(n, p, j, c)))

(* A packet of type k that n has from p is done with: the others come after it. *)
FlightEnds(p, n, k, c) ==
  /\ OnWay(p, n, k, c)
  /\ \A j \in Unicast : OnWay(p, n, j, c)' => OnWay(p, n, j, c)
  /\ \A j \in Unicast \ {k} : /\ OnWay(p, n, j, c)' <=> OnWay(p, n, j, c)
                              /\ Later(p, n, k, j, c) <=> OnWay(p, n, j, c)
  /\ \A j, l \in Unicast : j # k => (Later(p, n, j, l, c)' <=> Later(p, n, j, l, c))
  /\ \A j, l \in Unicast : /\ Later(p, n, j, l, c)' => Later(p, n, j, l, c)
                           /\ Later(p, n, j, l, c) => OnWay(p, n, j, c) /\ OnWay(p, n, l, c)

Pair(n, p, c) == Ends(n, p, c) /\ Ends(p, n, c)

-----------------------------------------------------------------------------
(* The cell c between n and p in one step of n *)

Alike(n, p, c) ==
  /\ SameView(n, p, c) /\ SameAnswers(n, p, c) /\ NoNewOffer(n, p, c) /\ FlightKeeps(n, p, c)

(* Nothing new. *)
LEMMA AlikeEnds ==
  ASSUME NEW n, NEW p, NEW c, Ends(n, p, c), Alike(n, p, c), Alike(p, n, c)
  PROVE  Ends(n, p, c)'
<1> QED
  BY SMT DEF Ends, OfferFresh, ResultAlone, RefusalAlone, SenderSound, ListenerSound, ClosingTold,
         Alike, SameView, SameAnswers, NoNewOffer, FlightKeeps

(* n proposes the cell to p. *)
OfferMade(n, p, c) ==
  /\ SameView(n, p, c) /\ SameAnswers(n, p, c) /\ ~Hears(n, p, "REFUSED", c)
  /\ ~(Offering(n, p, c)' /\ DueAt(n, p, c)')
  /\ ~OnWay(n, p, "ADD_SLOT", c) /\ ~OnWay(p, n, "RESULT", c)
  /\ ~Later(n, p, "ADD_SLOT", "DELETE", c) /\ ~Later(p, n, "RESULT", "DELETE", c)
  /\ FlightKeeps(n, p, c) /\ FlightKeeps(p, n, c) /\ PeerKeeps(p, n, c)

LEMMA OfferMadeEnds ==
  ASSUME NEW n, NEW p, NEW c, Pair(n, p, c), OfferMade(n, p, c)
  PROVE  Pair(n, p, c)'
<1> USE DEF Ends, OfferFresh, ResultAlone, RefusalAlone, SenderSound, ListenerSound, ClosingTold,
            SameView, SameAnswers, NoNewOffer, FlightKeeps, PeerKeeps, AtRest
<1>1. Ends(n, p, c)' BY SMT DEF Pair, OfferMade
<1>2. Ends(p, n, c)' BY SMT DEF Pair, OfferMade
<1> QED BY <1>1, <1>2 DEF Pair

(* The offer is sent. *)
OfferSent(n, p, c) ==
  /\ SameView(n, p, c) /\ SameAnswers(n, p, c) /\ NoNewOffer(n, p, c)
  /\ ~OnWay(n, p, "ADD_SLOT", c) /\ FlightGets(n, p, "ADD_SLOT", c)
  /\ ~Later(n, p, "ADD_SLOT", "DELETE", c)
  /\ FlightKeeps(p, n, c) /\ PeerKeeps(p, n, c)

LEMMA OfferSentEnds ==
  ASSUME NEW n, NEW p, NEW c, Pair(n, p, c), OfferSent(n, p, c)
  PROVE  Pair(n, p, c)'
<1> USE DEF Pair, Ends, OfferFresh, ResultAlone, RefusalAlone, SenderSound, ListenerSound,
            ClosingTold, SameView, SameAnswers, NoNewOffer, FlightKeeps, FlightGets, FlightEnds,
            PeerKeeps, AtRest, Unicast
<1>1. Ends(n, p, c)' BY SMT DEF OfferSent
<1>2. Ends(p, n, c)' BY SMT DEF OfferSent
<1> QED BY <1>1, <1>2

(* n selects the cell of an offer of p. *)
Chosen(n, p, c) ==
  /\ ~Sending(n, p, c) /\ ~Listening(n, p, c) /\ ~Closing(n, p, c)
  /\ ~Sending(n, p, c)' /\ Listening(n, p, c)' /\ ~Closing(n, p, c)' /\ ~Offering(n, p, c)'
  /\ Hears(n, p, "SELECTED", c)' /\ ~Hears(n, p, "REFUSED", c) /\ ~Hears(n, p, "REFUSED", c)'
  /\ FlightKeeps(n, p, c) /\ FlightEnds(p, n, "ADD_SLOT", c) /\ PeerKeeps(p, n, c)
  /\ ~Sending(p, n, c) /\ ~OnWay(n, p, "RESULT", c)
  /\ ~Later(p, n, "RESULT", "ADD_SLOT", c)

LEMMA ChosenEnds ==
  ASSUME NEW n, NEW p, NEW c, Pair(n, p, c), Chosen(n, p, c)
  PROVE  Pair(n, p, c)'
<1> USE DEF Pair, Ends, OfferFresh, ResultAlone, RefusalAlone, SenderSound, ListenerSound,
            ClosingTold, SameView, SameAnswers, NoNewOffer, FlightKeeps, FlightGets, FlightEnds,
            PeerKeeps, AtRest, Unicast
<1>1. Ends(n, p, c)' BY SMT DEF Chosen
<1>2. Ends(p, n, c)' BY SMT DEF Chosen
<1> QED BY <1>1, <1>2

(* The result of the selection is sent. *)
ResultSent(n, p, c) ==
  /\ SameView(n, p, c) /\ Listening(n, p, c) /\ ~Sending(n, p, c) /\ ~Closing(n, p, c)
  /\ ~Offering(n, p, c)'
  /\ Hears(n, p, "SELECTED", c) /\ ~Hears(n, p, "SELECTED", c)'
  /\ ~Hears(n, p, "REFUSED", c) /\ ~Hears(n, p, "REFUSED", c)'
  /\ ~OnWay(n, p, "RESULT", c) /\ FlightGets(n, p, "RESULT", c)
  /\ ~Later(n, p, "RESULT", "DELETE", c) /\ ~Later(n, p, "RESULT", "ADD_SLOT", c)
  /\ FlightKeeps(p, n, c) /\ PeerKeeps(p, n, c)

LEMMA ResultSentEnds ==
  ASSUME NEW n, NEW p, NEW c, Pair(n, p, c), ResultSent(n, p, c)
  PROVE  Pair(n, p, c)'
<1> USE DEF Pair, Ends, OfferFresh, ResultAlone, RefusalAlone, SenderSound, ListenerSound,
            ClosingTold, SameView, SameAnswers, NoNewOffer, FlightKeeps, FlightGets, FlightEnds,
            PeerKeeps, AtRest, Unicast
<1>1. Ends(n, p, c)' BY SMT DEF ResultSent
<1>2. Ends(p, n, c)' BY SMT DEF ResultSent
<1> QED BY <1>1, <1>2

(* n takes the cell that the result of p gives it. *)
Granted(n, p, c) ==
  /\ Offering(n, p, c) /\ ~Offering(n, p, c)'
  /\ Sending(n, p, c)' /\ ~Listening(n, p, c)' /\ ~Closing(n, p, c)'
  /\ ~Hears(n, p, "SELECTED", c) /\ ~Hears(n, p, "SELECTED", c)'
  /\ ~Hears(n, p, "REFUSED", c)'
  /\ FlightKeeps(n, p, c) /\ FlightEnds(p, n, "RESULT", c) /\ PeerKeeps(p, n, c)
  /\ ~OnWay(p, n, "RESULT", c)'

LEMMA GrantedEnds ==
  ASSUME NEW n, NEW p, NEW c, Pair(n, p, c), Granted(n, p, c)
  PROVE  Pair(n, p, c)'
<1> USE DEF Pair, Ends, OfferFresh, ResultAlone, RefusalAlone, SenderSound, ListenerSound,
            ClosingTold, SameView, SameAnswers, NoNewOffer, FlightKeeps, FlightGets, FlightEnds,
            PeerKeeps, AtRest, Unicast
<1>1. Ends(n, p, c)' BY SMT DEF Granted
<1>2. Ends(p, n, c)' BY SMT DEF Granted
<1> QED BY <1>1, <1>2

(* n refuses it. *)
Refused(n, p, c) ==
  /\ SameView(n, p, c) /\ ~Sending(n, p, c) /\ ~Offering(n, p, c)'
  /\ ~Hears(n, p, "SELECTED", c) /\ ~Hears(n, p, "SELECTED", c)'
  /\ Hears(n, p, "REFUSED", c)'
  /\ FlightKeeps(n, p, c) /\ FlightEnds(p, n, "RESULT", c) /\ PeerKeeps(p, n, c)
  /\ ~OnWay(p, n, "RESULT", c)'

LEMMA RefusedEnds ==
  ASSUME NEW n, NEW p, NEW c, Pair(n, p, c), Refused(n, p, c)
  PROVE  Pair(n, p, c)'
<1> USE DEF Pair, Ends, OfferFresh, ResultAlone, RefusalAlone, SenderSound, ListenerSound,
            ClosingTold, SameView, SameAnswers, NoNewOffer, FlightKeeps, FlightGets, FlightEnds,
            PeerKeeps, AtRest, Unicast
<1>1. Ends(n, p, c)' BY SMT DEF Refused
<1>2. Ends(p, n, c)' BY SMT DEF Refused
<1> QED BY <1>1, <1>2

(* n tells p that it refused. *)
RefusalSent(n, p, c) ==
  /\ SameView(n, p, c) /\ NoNewOffer(n, p, c)
  /\ Hears(n, p, "SELECTED", c)' <=> Hears(n, p, "SELECTED", c)
  /\ Hears(n, p, "REFUSED", c) /\ ~Hears(n, p, "REFUSED", c)'
  /\ FlightGets(n, p, "DELETE", c) /\ FlightKeeps(p, n, c) /\ PeerKeeps(p, n, c)

LEMMA RefusalSentEnds ==
  ASSUME NEW n, NEW p, NEW c, Pair(n, p, c), RefusalSent(n, p, c)
  PROVE  Pair(n, p, c)'
<1> USE DEF Pair, Ends, OfferFresh, ResultAlone, RefusalAlone, SenderSound, ListenerSound,
            ClosingTold, SameView, SameAnswers, NoNewOffer, FlightKeeps, FlightGets, FlightEnds,
            PeerKeeps, AtRest, Unicast
<1>1. Ends(n, p, c)' BY SMT DEF RefusalSent
<1>2. Ends(p, n, c)' BY SMT DEF RefusalSent
<1> QED BY <1>1, <1>2

(* n removes the cell it asked to remove, and tells p. *)
RemovalSent(n, p, c) ==
  /\ Sending(n, p, c)' <=> Sending(n, p, c)
  /\ Listening(n, p, c)' <=> Listening(n, p, c)
  /\ Sending(n, p, c) \/ Listening(n, p, c) => Closing(n, p, c)'
  /\ SameAnswers(n, p, c) /\ NoNewOffer(n, p, c) /\ DueAt(n, p, c)
  /\ FlightGets(n, p, "DELETE", c) /\ FlightKeeps(p, n, c) /\ PeerKeeps(p, n, c)

LEMMA RemovalSentEnds ==
  ASSUME NEW n, NEW p, NEW c, Pair(n, p, c), RemovalSent(n, p, c)
  PROVE  Pair(n, p, c)'
<1> USE DEF Pair, Ends, OfferFresh, ResultAlone, RefusalAlone, SenderSound, ListenerSound,
            ClosingTold, SameView, SameAnswers, NoNewOffer, FlightKeeps, FlightGets, FlightEnds,
            PeerKeeps, AtRest, Unicast
<1>1. Ends(n, p, c)' BY SMT DEF RemovalSent
<1>2. Ends(p, n, c)' BY SMT DEF RemovalSent
<1> QED BY <1>1, <1>2

(* The cell that n removed is free. *)
Removed(n, p, c) ==
  /\ Closing(n, p, c) /\ ~Sending(n, p, c)' /\ ~Listening(n, p, c)' /\ ~Closing(n, p, c)'
  /\ SameAnswers(n, p, c) /\ ~Offering(n, p, c)'
  /\ FlightKeeps(n, p, c) /\ FlightKeeps(p, n, c) /\ PeerKeeps(p, n, c)

LEMMA RemovedEnds ==
  ASSUME NEW n, NEW p, NEW c, Pair(n, p, c), Removed(n, p, c)
  PROVE  Pair(n, p, c)'
<1> USE DEF Pair, Ends, OfferFresh, ResultAlone, RefusalAlone, SenderSound, ListenerSound,
            ClosingTold, SameView, SameAnswers, NoNewOffer, FlightKeeps, FlightGets, FlightEnds,
            PeerKeeps, AtRest, Unicast
<1>1. Ends(n, p, c)' BY SMT DEF Removed
<1>2. Ends(p, n, c)' BY SMT DEF Removed
<1> QED BY <1>1, <1>2

(* n frees the cell that p removed. *)
Freed(n, p, c) ==
  /\ ~Sending(n, p, c)' /\ ~Listening(n, p, c)' /\ NoNewOffer(n, p, c)
  /\ Closing(n, p, c)' => Closing(n, p, c)
  /\ SameAnswers(n, p, c)
  /\ FlightKeeps(n, p, c) /\ FlightEnds(p, n, "DELETE", c) /\ PeerKeeps(p, n, c)

LEMMA FreedEnds ==
  ASSUME NEW n, NEW p, NEW c, Pair(n, p, c), Freed(n, p, c)
  PROVE  Pair(n, p, c)'
<1> USE DEF Pair, Ends, OfferFresh, ResultAlone, RefusalAlone, SenderSound, ListenerSound,
            ClosingTold, SameView, SameAnswers, NoNewOffer, FlightKeeps, FlightGets, FlightEnds,
            PeerKeeps, AtRest, Unicast
<1>1. Ends(n, p, c)' BY SMT DEF Freed
<1>2. Ends(p, n, c)' BY SMT DEF Freed
<1> QED BY <1>1, <1>2

-----------------------------------------------------------------------------
(* What is on the bus of the station that handles a message *)

LEMMA SignalsDerived ==
  ASSUME NEW x \in Message, NEW P, NEW p, NEW k, NEW c, Signals(x, P, p, k, c)
  PROVE  x \in Derived
<1> QED BY DEF Signals, Derived, Brought

(* The answer to a request that remains on the bus finds the same procedure. *)
LEMMA RestSignals ==
  ASSUME ProtocolInv, ProtocolInv', NEW n \in Node, NEW h, NEW m, NEW ms,
         Handles(n, h, m, ms), SceneOf(n, h, m, ms),
         NEW x \in Rest(bus[n]), NEW p, NEW k, NEW c
  PROVE  Signals(x, procedures'[n], p, k, c) <=> Signals(x, procedures[n], p, k, c)
<1>1. x \in Range(bus[n]) /\ x \in Range(bus'[n])
  BY DEF SceneOf, Onward
<1>2. ASSUME x.to = "MAC", x.type = "SETR"
      PROVE  /\ x.id \in DOMAIN procedures[n] /\ x.id \in DOMAIN procedures'[n]
             /\ procedures'[n][x.id] = procedures[n][x.id]
  <2>1. PICK i \in DOMAIN bus[n] \ {1} : x = bus[n][i]
    BY DEF Rest
  <2>2. Awaited(x)
    BY <1>2 DEF Awaited
  <2>3. x.id \in DOMAIN procedures[n]
    <3>1. BusSound(bus[n], procedures[n], nextId[n])
      BY DEF ProtocolInv, ProcedureInv
    <3> QED BY <2>1, <2>2, <3>1 DEF BusSound, AwaitedKnown
  <2>4. x.id \in DOMAIN procedures'[n]
    <3>1. BusSound(bus'[n], procedures'[n], nextId'[n])
      BY DEF ProtocolInv, ProcedureInv
    <3>2. PICK j \in DOMAIN bus'[n] : x = bus'[n][j]
      BY <1>1 DEF Range
    <3> QED BY <3>1, <3>2, <2>2 DEF BusSound, AwaitedKnown
  <2>5. RestKept(bus[n], procedures[n], procedures'[n])
    BY DEF Handles, KeepsAccount
  <2>6. procedures'[n][x.id] = procedures[n][x.id]
    BY <2>1, <2>2, <2>5 DEF RestKept
  <2> QED BY <2>3, <2>4, <2>6
<1> QED BY <1>2 DEF Signals

(* A message that no packet brought leaves what the station hears as it is. *)
LEMMA SignalsKept ==
  ASSUME ProtocolInv, ProtocolInv', NEW n \in Node, NEW h, NEW m, NEW ms,
         Handles(n, h, m, ms), SceneOf(n, h, m, ms), h \notin Derived,
         NEW p, NEW k, NEW c
  PROVE  Hears(n, p, k, c)' <=> Hears(n, p, k, c)
<1>1. /\ h \in Message /\ Range(bus[n]) = Rest(bus[n]) \cup {h}
      /\ Range(bus'[n]) = Rest(bus[n]) \cup Sent(m, ms)
      /\ (ms = <<m>> => m \in Message)
  BY DEF SceneOf, Scene, Onward
<1>2. ~Signals(h, procedures[n], p, k, c)
  BY <1>1, SignalsDerived
<1>3. ASSUME ms = <<m>>, NEW P PROVE ~Signals(m, P, p, k, c)
  <2>1. Causes(h, m)
    BY <1>3 DEF Handles
  <2>2. h.type = "SET_BC_SLOTS" => h.id = 0
    <3>1. h \in ToAI \/ h \in ToMac
      BY <1>1 DEF Message
    <3>2. CASE h \in ToAI
      BY <3>2 DEF ToAI, MacRequest, SetBcSlots, GetProposed, GetSelected, SetAllocation,
         SetRemoval, SetExternalUsed, SetExternalFree, RemovalDone, Stats
    <3>3. CASE h \in ToMac
      BY <3>3, RadioMessageAssumption DEF ToMac
    <3> QED BY <3>1, <3>2, <3>3
  <2>3. m \notin Derived
    BY <1>1, <2>1, <2>2 DEF Causes, Derived, RemovalAsked, RemovalReported
  <2> QED BY <1>1, <1>3, <2>3, SignalsDerived
<1>4. \A x \in Rest(bus[n]) :
        Signals(x, procedures'[n], p, k, c) <=> Signals(x, procedures[n], p, k, c)
  BY RestSignals
<1> QED BY <1>1, <1>2, <1>3, <1>4 DEF Hears, Sent

(* One that came of a packet is all that the station hears, and so is what it *)
(* sends.                                                                     *)
LEMMA SignalsMoved ==
  ASSUME NEW n \in Node, NEW h, NEW m, NEW ms, SceneOf(n, h, m, ms), h \in Derived,
         NEW p, NEW k, NEW c
  PROVE  /\ Hears(n, p, k, c) <=> Signals(h, procedures[n], p, k, c)
         /\ Hears(n, p, k, c)' <=> ms = <<m>> /\ Signals(m, procedures'[n], p, k, c)
<1>1. /\ h \in Message /\ Range(bus[n]) = Rest(bus[n]) \cup {h}
      /\ Range(bus'[n]) = Rest(bus[n]) \cup Sent(m, ms)
      /\ Rest(bus[n]) \cap Derived = {} /\ Rest(bus[n]) \subseteq Message
  BY DEF SceneOf, Scene, Onward
<1>2. \A x \in Rest(bus[n]) : \A P : ~Signals(x, P, p, k, c)
  BY <1>1, SignalsDerived
<1> QED BY <1>1, <1>2 DEF Hears, Sent

-----------------------------------------------------------------------------
(* What is on its way, by what is heard and what waits *)

LEMMA BehindWaits ==
  ASSUME NEW q, NEW m, NEW j, NEW k, NEW c, Behind(q, m, j, k, c)
  PROVE  Waits(q, m, j, c) /\ Waits(q, m, k, c)
<1> QED BY DEF Behind, Waits

(* What n has heard of p, while the packets of p wait. *)
LEMMA HeardKeeps ==
  ASSUME NEW n, NEW p, NEW c, queue'[p] = queue[p],
         Hears(n, p, "RESULT", c)' <=> Hears(n, p, "RESULT", c),
         Hears(n, p, "DELETE", c)' <=> Hears(n, p, "DELETE", c),
         Hears(n, p, "ADD_SLOT", c)' => Hears(n, p, "ADD_SLOT", c)
  PROVE  FlightKeeps(p, n, c)
<1> QED BY DEF FlightKeeps, OnWay, Later

LEMMA HeardEnds ==
  ASSUME NEW n, NEW p, NEW c, queue'[p] = queue[p], NEW k \in Unicast,
         \A j \in Unicast : Hears(n, p, j, c) <=> j = k,
         \A j \in Unicast : ~Hears(n, p, j, c)'
  PROVE  FlightEnds(p, n, k, c)
<1>1. \A j, l \in Unicast : Behind(queue[p], n, j, l, c)
        => Waits(queue[p], n, j, c) /\ Waits(queue[p], n, l, c)
  BY BehindWaits
<1> QED BY <1>1 DEF FlightEnds, OnWay, Later

(* The packets that n has put in its queue, of which the first may be for p. *)
FirstTells(packets, k, p, c) == packets # <<>> /\ Tells(packets[1], k, p, c)

QueueTells(q, packets, r, p, c) ==
  \A k \in Unicast :
    /\ Waits(r, p, k, c) <=> Waits(q, p, k, c) \/ FirstTells(packets, k, p, c)
    /\ \A j \in Unicast :
         Behind(r, p, j, k, c)
           <=> Behind(q, p, j, k, c) \/ (Waits(q, p, j, c) /\ FirstTells(packets, k, p, c))

LEMMA QueueAdded ==
  ASSUME NEW q \in Seq(Entry), NEW packets \in Seq(Packet),
         \A i \in DOMAIN packets : i # 1 => packets[i].type \notin Unicast,
         NEW r, r = q \o [i \in DOMAIN packets |-> EntryFor(packets[i])], NEW p, NEW c
  PROVE  QueueTells(q, packets, r, p, c)
<1>1. PICK t : t = [i \in DOMAIN packets |-> EntryFor(packets[i])]
  OBVIOUS
<1>a. /\ DOMAIN packets = 1 .. Len(packets) /\ Len(packets) \in Nat
      /\ DOMAIN q = 1 .. Len(q) /\ Len(q) \in Nat
      /\ (packets # <<>> <=> Len(packets) >= 1)
  OBVIOUS
<1>b. \A i \in DOMAIN packets : t[i] = EntryFor(packets[i]) /\ t[i] \in Entry
  BY <1>1, RadioAssumption DEF EntryFor, Entry
<1>c. t \in Seq(Entry) /\ Len(t) = Len(packets)
  <2>1. t \in [1 .. Len(packets) -> Entry]
    BY <1>1, <1>a, <1>b
  <2> QED BY <1>a, <2>1, SMTT(30)
<1>2. JoinShape(Entry, q, t, r)
  <2>1. r = q \o t
    BY <1>1
  <2> QED BY <1>c, <2>1, Joined, Zenon
<1>3. DOMAIN r = 1 .. Len(q) + Len(packets)
  BY <1>a, <1>c, <1>2 DEF JoinShape
<1>4. \A i \in DOMAIN q : i \in DOMAIN r /\ r[i] = q[i] /\ i <= Len(q)
  BY <1>a, <1>c, <1>2, <1>3 DEF JoinShape
<1>5. \A i \in DOMAIN r : \/ i \in DOMAIN q
                          \/ /\ i > Len(q) /\ i - Len(q) \in DOMAIN packets
                             /\ r[i].packet = packets[i - Len(q)]
  BY <1>a, <1>b, <1>c, <1>2, <1>3 DEF JoinShape, EntryFor
<1>6. packets # <<>> => /\ Len(q) + 1 \in DOMAIN r /\ 1 \in DOMAIN packets
                        /\ r[Len(q) + 1].packet = packets[1]
  BY <1>a, <1>b, <1>c, <1>2, <1>3 DEF JoinShape, EntryFor
<1>7. ASSUME NEW k \in Unicast, NEW i \in DOMAIN r, Tells(r[i].packet, k, p, c)
      PROVE  i \in DOMAIN q \/ (i = Len(q) + 1 /\ FirstTells(packets, k, p, c))
  <2>1. CASE i \notin DOMAIN q
    <3>1. i - Len(q) \in DOMAIN packets /\ packets[i - Len(q)].type = k
      BY <1>5, <1>7, <2>1 DEF Tells, IsPacket
    <3>2. i - Len(q) = 1
      BY <3>1
    <3>3. i = Len(q) + 1
      BY <1>a, <1>3, <3>2
    <3>4. packets # <<>>
      BY <1>a, <3>1
    <3> QED BY <1>6, <1>7, <3>3, <3>4 DEF FirstTells
  <2> QED BY <2>1
<1>8. ASSUME NEW k \in Unicast
      PROVE  Waits(r, p, k, c) <=> Waits(q, p, k, c) \/ FirstTells(packets, k, p, c)
  <2>1. Waits(r, p, k, c) => Waits(q, p, k, c) \/ FirstTells(packets, k, p, c)
    BY <1>4, <1>7, <1>8 DEF Waits
  <2>2. Waits(q, p, k, c) => Waits(r, p, k, c)
    BY <1>4 DEF Waits
  <2>3. FirstTells(packets, k, p, c) => Waits(r, p, k, c)
    BY <1>6 DEF Waits, FirstTells
  <2> QED BY <2>1, <2>2, <2>3
<1>9. ASSUME NEW k \in Unicast, NEW j \in Unicast
      PROVE  Behind(r, p, j, k, c)
               <=> Behind(q, p, j, k, c) \/ (Waits(q, p, j, c) /\ FirstTells(packets, k, p, c))
  <2>1. ASSUME Behind(r, p, j, k, c)
        PROVE  Behind(q, p, j, k, c) \/ (Waits(q, p, j, c) /\ FirstTells(packets, k, p, c))
    <3>1. PICK i, l \in DOMAIN r : /\ i < l /\ Tells(r[i].packet, j, p, c)
                                   /\ Tells(r[l].packet, k, p, c)
      BY <2>1 DEF Behind
    <3>2. i \in DOMAIN q
      <4>1. i \in Nat /\ l \in Nat /\ i <= Len(q) + Len(packets)
        BY <1>a, <1>3
      <4>2. CASE i = Len(q) + 1
        <5>1. l \notin DOMAIN q /\ l # Len(q) + 1
          BY <1>a, <3>1, <4>1, <4>2
        <5> QED BY <1>7, <1>9, <3>1, <5>1
      <4> QED BY <1>7, <1>9, <3>1, <4>2
    <3>3. CASE l \in DOMAIN q
      BY <1>4, <3>1, <3>2, <3>3 DEF Behind
    <3>4. CASE l \notin DOMAIN q
      <4>1. FirstTells(packets, k, p, c)
        BY <1>7, <1>9, <3>1, <3>4
      <4>2. Waits(q, p, j, c)
        BY <1>4, <3>1, <3>2 DEF Waits
      <4> QED BY <4>1, <4>2
    <3> QED BY <3>3, <3>4
  <2>2. Behind(q, p, j, k, c) => Behind(r, p, j, k, c)
    BY <1>4 DEF Behind
  <2>3. ASSUME Waits(q, p, j, c), FirstTells(packets, k, p, c)
        PROVE  Behind(r, p, j, k, c)
    <3>1. PICK i \in DOMAIN q : Tells(q[i].packet, j, p, c)
      BY <2>3 DEF Waits
    <3>2. i \in DOMAIN r /\ r[i] = q[i] /\ i < Len(q) + 1
      BY <1>a, <1>4
    <3>3. /\ Len(q) + 1 \in DOMAIN r
          /\ Tells(r[Len(q) + 1].packet, k, p, c)
      BY <1>6, <2>3 DEF FirstTells
    <3> QED BY <3>1, <3>2, <3>3 DEF Behind
  <2> QED BY <2>1, <2>2, <2>3
<1> QED BY <1>8, <1>9 DEF QueueTells

-----------------------------------------------------------------------------
(* The peer p of the station n that handles a message *)

LEMMA PeerRests ==
  ASSUME NEW n \in Node, OthersKeep(n), NEW p \in Node \ {n}, Rests(bus[p]), NEW c
  PROVE  /\ PeerKeeps(p, n, c) /\ queue'[p] = queue[p]
         /\ \A k : Hears(p, n, k, c)' <=> Hears(p, n, k, c)
<1>1. /\ bus'[p] = bus[p] /\ grid'[p] = grid[p] /\ procedures'[p] = procedures[p]
      /\ queue'[p] = queue[p]
  BY DEF OthersKeep
<1>2. \A k : Hears(p, n, k, c)' <=> Hears(p, n, k, c)
  BY <1>1 DEF Hears
<1>3. /\ SameView(p, n, c) /\ SameAnswers(p, n, c)
      /\ Offering(p, n, c)' <=> Offering(p, n, c)
      /\ DueAt(p, n, c)' <=> DueAt(p, n, c)
  BY <1>1, <1>2 DEF SameView, SameAnswers, Offering, DueAt, Sending, Listening, Closing
<1>4. AtRest(p, n, c)
  <2>1. \A x \in Range(bus[p]) :
          /\ x.type \in {"GET_PROPOSED", "STATS", "SET_REMOVAL", "RECEIVE", "SET_BC_SLOTS"}
          /\ x.type = "SET_REMOVAL" => x.to = "MAC"
    BY DEF Rests, Arrives, RemovalAsked
  <2>2. ~Closing(p, n, c)
    BY <2>1 DEF Closing, Ending, RemovalReported
  <2>3. ~Hears(p, n, "SELECTED", c) /\ ~Hears(p, n, "REFUSED", c)
    BY <2>1 DEF Hears, Signals, Unicast
  <2> QED BY <2>2, <2>3 DEF AtRest
<1> QED BY <1>1, <1>2, <1>3, <1>4 DEF PeerKeeps

(* Nothing is sent. *)
LEMMA SilentFlight ==
  ASSUME NEW n, NEW p, NEW c, queue'[n] = queue[n],
         \A k : Hears(p, n, k, c)' <=> Hears(p, n, k, c)
  PROVE  FlightKeeps(n, p, c)
<1> QED BY DEF FlightKeeps, OnWay, Later

(* Packets of which only the first is for one station. *)
Headed(packets) ==
  packets \in Seq(Packet) /\ \A i \in DOMAIN packets : i # 1 => packets[i].type \notin Unicast

LEMMA SentFlight ==
  ASSUME ProtocolInv, NEW n \in Node, NEW packets, Headed(packets), Sends(n, packets),
         NEW p, NEW c, \A k : Hears(p, n, k, c)' <=> Hears(p, n, k, c)
  PROVE  /\ (\A k \in Unicast : ~FirstTells(packets, k, p, c)) => FlightKeeps(n, p, c)
         /\ \A k \in Unicast : FirstTells(packets, k, p, c) => FlightGets(n, p, k, c)
<1>1. /\ queue[n] \in Seq(Entry)
      /\ queue'[n] = queue[n] \o [i \in DOMAIN packets |-> EntryFor(packets[i])]
  <2>1. PacketsTyped
    BY DEF ProtocolInv
  <2> QED BY <2>1, SentQueue
<1>2. PICK q, r : q = queue[n] /\ r = queue'[n]
  OBVIOUS
<1>3. /\ q \in Seq(Entry) /\ packets \in Seq(Packet)
      /\ r = q \o [i \in DOMAIN packets |-> EntryFor(packets[i])]
      /\ \A i \in DOMAIN packets : i # 1 => packets[i].type \notin Unicast
  BY <1>1, <1>2 DEF Headed
<1>4. QueueTells(q, packets, r, p, c)
  BY <1>3, QueueAdded, Zenon
<1>5. QueueTells(queue[n], packets, queue'[n], p, c)
  BY <1>2, <1>4
<1>6. \A j, k \in Unicast : FirstTells(packets, j, p, c) /\ FirstTells(packets, k, p, c) => j = k
  BY DEF FirstTells, Tells, IsPacket
<1>7. (\A k \in Unicast : ~FirstTells(packets, k, p, c)) => FlightKeeps(n, p, c)
  BY <1>5 DEF QueueTells, FlightKeeps, OnWay, Later, Unicast
<1>8. ASSUME NEW k \in Unicast, FirstTells(packets, k, p, c)
      PROVE  FlightGets(n, p, k, c)
  <2>1. \A j \in Unicast : FirstTells(packets, j, p, c) <=> j = k
    BY <1>6, <1>8
  <2> QED BY <1>5, <2>1 DEF QueueTells, FlightGets, OnWay, Later
<1> QED BY <1>7, <1>8

(* What the packets of the handlers tell. *)
LEMMA NoneTold ==
  ASSUME NEW packets \in Seq(Packet), \A i \in DOMAIN packets : packets[i].type \notin Unicast
  PROVE  Headed(packets) /\ \A k \in Unicast : \A p, c : ~FirstTells(packets, k, p, c)
<1>1. packets # <<>> => 1 \in DOMAIN packets
  OBVIOUS
<1> QED BY <1>1 DEF Headed, FirstTells, Tells, IsPacket

LEMMA OneTold ==
  ASSUME NEW packet \in Packet
  PROVE  /\ Headed(<<packet>>)
         /\ \A k, p, c : FirstTells(<<packet>>, k, p, c) <=> Tells(packet, k, p, c)
<1>1. PICK s : s = <<packet>>
  OBVIOUS
<1>2. s \in Seq(Packet) /\ DOMAIN s = {1} /\ s[1] = packet /\ s # <<>>
  BY <1>1
<1> QED BY <1>1, <1>2 DEF Headed, FirstTells

LEMMA FirstTold ==
  ASSUME NEW packet \in Packet, NEW other \in Packet, other.type \notin Unicast, NEW n
  PROVE  /\ Headed(<<packet>> \o IfHeard(n, other))
         /\ \A k, p, c : FirstTells(<<packet>> \o IfHeard(n, other), k, p, c)
                           <=> Tells(packet, k, p, c)
<1>1. CASE IfHeard(n, other) = <<>>
  <2>1. <<packet>> \o <<>> = <<packet>>
    OBVIOUS
  <2> QED BY <1>1, <2>1, OneTold
<1>2. CASE IfHeard(n, other) = <<other>>
  <2>1. PICK q, t, r : q = <<packet>> /\ t = <<other>> /\ r = q \o t
    OBVIOUS
  <2>2. /\ q \in Seq(Packet) /\ Len(q) = 1 /\ q[1] = packet
        /\ t \in Seq(Packet) /\ Len(t) = 1 /\ t[1] = other
    BY <2>1
  <2>3. JoinShape(Packet, q, t, r)
    BY <2>1, <2>2, Joined, Zenon
  <2>4. r \in Seq(Packet) /\ DOMAIN r = 1 .. 2 /\ r[1] = packet /\ r[2] = other /\ r # <<>>
    BY <2>2, <2>3 DEF JoinShape
  <2>5. Headed(r) /\ \A k, p, c : FirstTells(r, k, p, c) <=> Tells(packet, k, p, c)
    BY <2>4 DEF Headed, FirstTells
  <2> QED BY <1>2, <2>1, <2>5
<1> QED BY <1>1, <1>2 DEF IfHeard

-----------------------------------------------------------------------------
(* The packet for p, about c, that the MAC sends when it handles h *)

PostsTo(h, P, k, p, c) ==
  \/ /\ k = "ADD_SLOT" /\ h.to = "MAC" /\ h.type = "GETR_PROPOSED" /\ h.mac = p
     /\ h.slots # {}
  \/ k = "RESULT" /\ Signals(h, P, p, "SELECTED", c)
  \/ k = "DELETE" /\ RemovalAsked(h) /\ h.mac = p /\ h.slot = c
  \/ k = "DELETE" /\ Signals(h, P, p, "REFUSED", c)

(* All that n puts on its way to p when it handles h. *)
FlightOf(n, h, p, c) ==
  /\ (\A k \in Unicast : ~PostsTo(h, procedures[n], k, p, c)) => FlightKeeps(n, p, c)
  /\ \A k \in Unicast : PostsTo(h, procedures[n], k, p, c) => FlightGets(n, p, k, c)

LEMMA NoSlotCell == NoSlot \notin Cell
<1> QED BY SizeAssumption DEF NoSlot, Cell, Timeslot, Frequency

LEMMA MacFlight ==
  ASSUME ProtocolInv, InstantInv, NEW n \in Node, MacHandles(n), NEW h, h = Head(bus[n]),
         NEW p \in Node, NEW c \in Cell, \A k : Hears(p, n, k, c)' <=> Hears(p, n, k, c)
  PROVE  FlightOf(n, h, p, c)
<1> DEFINE P == procedures[n]
<1>1. bus[n] # <<>> /\ h.to = "MAC"
  BY MacHandlesAnswers DEF MacAnswers
<1>2. h \in Message
  BY <1>1, ProtocolStation
<1>3. ASSUME NEW packets, Headed(packets), Sends(n, packets),
             \A k \in Unicast : FirstTells(packets, k, p, c) <=> PostsTo(h, P, k, p, c)
      PROVE  FlightOf(n, h, p, c)
  <2>1. /\ (\A k \in Unicast : ~FirstTells(packets, k, p, c)) => FlightKeeps(n, p, c)
        /\ \A k \in Unicast : FirstTells(packets, k, p, c) => FlightGets(n, p, k, c)
    BY <1>3, SentFlight
  <2> QED BY <1>3, <2>1 DEF FlightOf
<1>4. ASSUME UNCHANGED radioVars, \A k \in Unicast : ~PostsTo(h, P, k, p, c)
      PROVE  FlightOf(n, h, p, c)
  <2>1. FlightKeeps(n, p, c)
    BY <1>4, SilentFlight DEF radioVars
  <2> QED BY <1>4, <2>1 DEF FlightOf
<1>5. ASSUME NEW packets \in Seq(Packet), Sends(n, packets),
             \A i \in DOMAIN packets : packets[i].type \notin Unicast,
             \A k \in Unicast : ~PostsTo(h, P, k, p, c)
      PROVE  FlightOf(n, h, p, c)
  BY <1>3, <1>5, NoneTold
<1>6. CASE SendProposal(n)
  <2>1. /\ h.type = "GETR_PROPOSED"
        /\ Sends(n, IF h.slots = {} THEN <<>> ELSE <<AddSlotPacket(h.mac, h.slots)>>)
    BY <1>6 DEF SendProposal, Addressed
  <2>2. h.mac \in Node /\ h.slots \in SUBSET Cell
    BY <1>1, <1>2, <2>1, MacMessage
  <2>3. \A k \in Unicast :
          PostsTo(h, P, k, p, c) <=> k = "ADD_SLOT" /\ h.mac = p /\ h.slots # {}
    BY <1>1, <2>1 DEF PostsTo, Signals, RemovalAsked, Unicast
  <2>4. CASE h.slots = {}
    <3>1. <<>> \in Seq(Packet) /\ DOMAIN <<>> = {}
      OBVIOUS
    <3> QED BY <1>5, <2>1, <2>3, <2>4, <3>1
  <2>5. CASE h.slots # {}
    <3>1. PICK packet : packet = AddSlotPacket(h.mac, h.slots)
      OBVIOUS
    <3>2. packet \in Packet /\ Sends(n, <<packet>>)
      BY <2>1, <2>2, <2>5, <3>1, PacketTypes
    <3>3. \A k \in Unicast : Tells(packet, k, p, c) <=> k = "ADD_SLOT" /\ h.mac = p
      BY <3>1 DEF Tells, IsPacket, AddSlotPacket, Unicast
    <3> QED BY <1>3, <2>3, <2>5, <3>2, <3>3, OneTold
  <2> QED BY <2>4, <2>5
<1>7. CASE SendSelection(n)
  <2>1. /\ h.type = "GETR_SELECTED"
        /\ \/ h.slot = NoSlot /\ UNCHANGED radioVars
           \/ h.slot # NoSlot /\ Sends(n, <<ResultPacket(h.mac, h.slot)>>)
    BY <1>7 DEF SendSelection, Addressed
  <2>2. h.mac \in Node /\ h.slot \in Cell \cup {NoSlot}
    BY <1>1, <1>2, <2>1, MacMessage
  <2>3. \A k \in Unicast :
          PostsTo(h, P, k, p, c) <=> k = "RESULT" /\ h.mac = p /\ h.slot = c
    BY <1>1, <2>1 DEF PostsTo, Signals, RemovalAsked, Unicast
  <2>4. CASE h.slot = NoSlot /\ UNCHANGED radioVars
    BY <1>4, <2>3, <2>4, NoSlotCell
  <2>5. CASE h.slot # NoSlot /\ Sends(n, <<ResultPacket(h.mac, h.slot)>>)
    <3>1. PICK packet : packet = ResultPacket(h.mac, h.slot)
      OBVIOUS
    <3>2. packet \in Packet /\ Sends(n, <<packet>>)
      BY <2>2, <2>5, <3>1, PacketTypes
    <3>3. \A k \in Unicast : Tells(packet, k, p, c) <=> k = "RESULT" /\ h.mac = p /\ h.slot = c
      BY <3>1 DEF Tells, IsPacket, ResultPacket, Unicast
    <3> QED BY <1>3, <2>3, <3>2, <3>3, OneTold
  <2> QED BY <2>1, <2>4, <2>5
<1>8. CASE RemoveForSelection(n)
  <2>1. /\ h.type = "SET_REMOVAL"
        /\ Sends(n, <<DeletePacket(h.mac, h.slot)>>
                      \o IfHeard(n, AckPacket("ACK_DELETE", h.mac, h.slot)))
    BY <1>8 DEF RemoveForSelection, Addressed
  <2>2. h.mac \in Node /\ h.slot \in Cell
    BY <1>1, <1>2, <2>1, MacMessage
  <2>3. \A k \in Unicast :
          PostsTo(h, P, k, p, c) <=> k = "DELETE" /\ h.mac = p /\ h.slot = c
    BY <1>1, <2>1 DEF PostsTo, Signals, RemovalAsked, Unicast
  <2>4. PICK packet, other : /\ packet = DeletePacket(h.mac, h.slot)
                             /\ other = AckPacket("ACK_DELETE", h.mac, h.slot)
    OBVIOUS
  <2>5. packet \in Packet /\ other \in Packet /\ other.type \notin Unicast
    BY <2>2, <2>4, PacketTypes DEF AckPacket, Unicast
  <2>6. \A k \in Unicast : Tells(packet, k, p, c) <=> k = "DELETE" /\ h.mac = p /\ h.slot = c
    BY <2>4 DEF Tells, IsPacket, DeletePacket, Unicast
  <2>7. Sends(n, <<packet>> \o IfHeard(n, other))
    BY <2>1, <2>4
  <2> QED BY <1>3, <2>3, <2>5, <2>6, <2>7, FirstTold
<1>9. CASE FinishAllocation(n)
  <2> DEFINE r == procedures[n][h.id]
  <2>1. /\ h.type = "SETR" /\ h.id \in DOMAIN procedures[n] /\ r.set = "ALLOCATION"
        /\ \/ h.result = "OK" /\ Sends(n, IfHeard(n, AckPacket("ACK_ADD", r.mac, r.slot)))
           \/ /\ h.result = "NOK"
              /\ Sends(n, IF r.mode = "TX" THEN <<DeletePacket(r.mac, r.slot)>> ELSE <<>>)
    BY <1>9 DEF FinishAllocation, Addressed, Known
  <2>2. r \in Allocations
    <3>1. ProceduresTyped
      BY DEF ProtocolInv
    <3>2. r \in Procedure
      BY <2>1, <3>1 DEF ProceduresTyped
    <3> QED BY <2>1, <3>2 DEF Procedure, Announcements, Removals
  <2>3. h.id # 0
    <3>1. ZeroKept(procedures[n])
      BY DEF InstantInv, Accounted
    <3> QED BY <2>1, <3>1 DEF ZeroKept
  <2>4. /\ r.mac \in Node /\ r.slot \in Cell
        /\ r = [set |-> "ALLOCATION", mode |-> r.mode, mac |-> r.mac, slot |-> r.slot]
    BY <2>2, SMTT(30) DEF Allocations
  <2>5. \A k \in Unicast :
          PostsTo(h, P, k, p, c)
            <=> k = "DELETE" /\ h.result = "NOK" /\ r.mode = "TX" /\ r.mac = p /\ r.slot = c
    <3>1. Signals(h, P, p, "REFUSED", c)
            <=> h.result = "NOK" /\ r.mode = "TX" /\ r.mac = p /\ r.slot = c
      BY <1>1, <2>1, <2>3, <2>4 DEF Signals, Unicast
    <3>2. ~Signals(h, P, p, "SELECTED", c)
      BY <2>1, SMTT(30) DEF Signals, Unicast
    <3> QED BY <2>1, <3>1, <3>2 DEF PostsTo, RemovalAsked, Unicast
  <2>6. CASE h.result = "OK" /\ Sends(n, IfHeard(n, AckPacket("ACK_ADD", r.mac, r.slot)))
    <3>1. PICK other : other = AckPacket("ACK_ADD", r.mac, r.slot)
      BY Zenon
    <3>2. other \in Packet /\ other.type \notin Unicast
      BY <2>4, <3>1, PacketTypes DEF AckPacket, Unicast
    <3>3. PICK packets : packets = IfHeard(n, other) /\ Sends(n, packets)
      BY <2>6, <3>1, ZenonT(60)
    <3>4. packets \in Seq(Packet) /\ \A i \in DOMAIN packets : packets[i].type \notin Unicast
      BY <3>2, <3>3, SMTT(30) DEF IfHeard
    <3> QED BY <1>5, <2>5, <2>6, <3>3, <3>4
  <2>7. CASE h.result = "NOK" /\ r.mode = "TX" /\ Sends(n, <<DeletePacket(r.mac, r.slot)>>)
    <3>1. PICK packet : packet = DeletePacket(r.mac, r.slot)
      BY Zenon
    <3>2. packet \in Packet /\ Sends(n, <<packet>>)
      BY <2>4, <2>7, <3>1, PacketTypes, ZenonT(60)
    <3>3. \A k \in Unicast : Tells(packet, k, p, c) <=> k = "DELETE" /\ r.mac = p /\ r.slot = c
      BY <3>1 DEF Tells, IsPacket, DeletePacket, Unicast
    <3> QED BY <1>3, <2>5, <2>7, <3>2, <3>3, OneTold, ZenonT(60)
  <2>8. CASE h.result = "NOK" /\ r.mode # "TX" /\ Sends(n, <<>>)
    <3>1. <<>> \in Seq(Packet) /\ DOMAIN <<>> = {}
      OBVIOUS
    <3> QED BY <1>5, <2>5, <2>8, <3>1
  <2> QED BY <2>1, <2>6, <2>7, <2>8, SMTT(30)
<1>10. CASE FinishRemoval(n)
  <2> DEFINE r == procedures[n][h.id]
  <2>1. /\ h.type = "SETR" /\ h.id \in DOMAIN procedures[n] /\ r.set = "REMOVAL"
        /\ Sends(n, IF h.result = "OK" THEN IfHeard(n, AckPacket("ACK_DELETE", r.mac, r.slot))
                                       ELSE <<>>)
    BY <1>10, SMTT(30) DEF FinishRemoval, Addressed, Known
  <2>2. r \in Removals
    <3>1. ProceduresTyped
      BY DEF ProtocolInv
    <3>2. r \in Procedure
      BY <2>1, <3>1 DEF ProceduresTyped
    <3> QED BY <2>1, <3>2 DEF Procedure, Announcements, Allocations
  <2>3. \A k \in Unicast : ~PostsTo(h, P, k, p, c)
    BY <2>1 DEF PostsTo, Signals, RemovalAsked, Unicast
  <2>4. PICK other : other = AckPacket("ACK_DELETE", r.mac, r.slot)
    OBVIOUS
  <2>5. other \in Packet /\ other.type \notin Unicast
    BY <2>2, <2>4, PacketTypes DEF AckPacket, Unicast, Removals
  <2>6. PICK packets : /\ packets = IF h.result = "OK" THEN IfHeard(n, other) ELSE <<>>
                       /\ Sends(n, packets)
    BY <2>1, <2>4, ZenonT(60)
  <2>7. packets \in Seq(Packet) /\ \A i \in DOMAIN packets : packets[i].type \notin Unicast
    BY <2>5, <2>6 DEF IfHeard
  <2> QED BY <1>5, <2>3, <2>6, <2>7
<1>11. CASE FinishOther(n)
  <2>1. /\ h.type = "SETR" /\ UNCHANGED radioVars
        /\ h.id \in DOMAIN P => P[h.id].set = "BC_SLOTS"
    BY <1>11 DEF FinishOther, Addressed, Known
  <2>2. \A k \in Unicast : ~PostsTo(h, P, k, p, c)
    BY <2>1 DEF PostsTo, Signals, RemovalAsked, Unicast
  <2> QED BY <1>4, <2>1, <2>2
<1>12. CASE \/ ReceiveAddSlot(n) \/ ReceiveResult(n) \/ ReceiveDelete(n)
            \/ ReceiveAdvertisement(n) \/ ReceiveAckDelete(n)
  <2>1. h.type = "RECEIVE" /\ UNCHANGED radioVars
    BY <1>12, SMTT(30) DEF ReceiveAddSlot, ReceiveResult, ReceiveDelete, ReceiveAdvertisement,
       ReceiveAckDelete, Received, Addressed
  <2>2. \A k \in Unicast : ~PostsTo(h, P, k, p, c)
    BY <2>1 DEF PostsTo, Signals, RemovalAsked, Unicast
  <2> QED BY <1>4, <2>1, <2>2
<1> QED BY <1>6, <1>7, <1>8, <1>9, <1>10, <1>11, <1>12 DEF MacHandles

-----------------------------------------------------------------------------
(* A station deals with others only, and a result or a removal is of one cell *)

Pinned(packet) == packet.type \in {"RESULT", "DELETE"} => \E c \in Cell : packet.slots = {c}

Foreign(n, x) ==
  /\ x.type \in {"GET_PROPOSED", "GET_SELECTED", "SET_ALLOCATION", "SET_REMOVAL",
                 "GETR_PROPOSED", "GETR_SELECTED"} => x.mac # n
  /\ x.type = "RECEIVE" => x.src # n /\ Pinned(x.packet)

ForOthers(n, packet) == packet.type \in Unicast => packet.dst # n /\ Pinned(packet)
Outgoing(n)          == {e \in Entry : ForOthers(n, e.packet)}
ForeignRecords(n, P) ==
  \A id \in DOMAIN P : P[id].set \in {"ALLOCATION", "REMOVAL"} => P[id].mac # n
ForeignCells(n, g)   == \A c \in Cell : g[c].mac # n

PeersAt(n) == /\ \A x \in Range(bus[n]) : Foreign(n, x)
              /\ queue[n] \in Seq(Outgoing(n)) /\ unacked[n] \in Seq(Outgoing(n))
              /\ ForeignRecords(n, procedures[n]) /\ ForeignCells(n, grid[n])
PeersInv   == \A n \in Node : PeersAt(n)

(* What the MAC sends. *)
LEMMA SentOutgoing ==
  ASSUME NEW n \in Node, ProtocolInv, queue[n] \in Seq(Outgoing(n)),
         NEW packets \in Seq(Packet), Sends(n, packets),
         \A i \in DOMAIN packets : ForOthers(n, packets[i])
  PROVE  queue'[n] \in Seq(Outgoing(n))
<1>1. queue'[n] = queue[n] \o [i \in DOMAIN packets |-> EntryFor(packets[i])]
  <2>1. PacketsTyped
    BY DEF ProtocolInv
  <2> QED BY <2>1, SentQueue
<1>2. PICK t : t = [i \in DOMAIN packets |-> EntryFor(packets[i])]
  OBVIOUS
<1>3. t \in Seq(Outgoing(n))
  <2>1. DOMAIN packets = 1 .. Len(packets) /\ Len(packets) \in Nat
    OBVIOUS
  <2>2. \A i \in DOMAIN packets : EntryFor(packets[i]) \in Outgoing(n)
    BY RadioAssumption DEF EntryFor, Entry, Outgoing
  <2>3. t \in [1 .. Len(packets) -> Outgoing(n)]
    BY <1>2, <2>1, <2>2
  <2> QED BY <2>1, <2>3
<1>4. queue[n] \o t \in Seq(Outgoing(n))
  BY <1>3
<1> QED BY <1>1, <1>2, <1>4

(* A procedure that begins, and one that ends. *)
LEMMA RecordsForeign ==
  ASSUME Domains, NEW n \in Node, ForeignRecords(n, procedures[n]),
         \/ procedures'[n] = procedures[n]
         \/ \E id : Forget(n, id)
         \/ \E id, r : Remember(n, id, r) /\ r.mac # n
  PROVE  ForeignRecords(n, procedures'[n])
<1>1. CASE procedures'[n] = procedures[n]
  BY <1>1
<1>2. ASSUME NEW id, Forget(n, id) PROVE ForeignRecords(n, procedures'[n])
  <2>1. procedures'[n] = [i \in DOMAIN procedures[n] \ {id} |-> procedures[n][i]]
    BY <1>2 DEF Forget, Domains
  <2> QED BY <2>1 DEF ForeignRecords
<1>3. ASSUME NEW id, NEW r, Remember(n, id, r), r.mac # n
      PROVE  ForeignRecords(n, procedures'[n])
  <2>1. procedures'[n] = [i \in DOMAIN procedures[n] \cup {id} |->
                            IF i = id THEN r ELSE procedures[n][i]]
    BY <1>3 DEF Remember, Domains
  <2> QED BY <1>3, <2>1 DEF ForeignRecords
<1> QED BY <1>1, <1>2, <1>3

LEMMA MacForeign ==
  ASSUME ProtocolInv, NEW n \in Node, PeersAt(n), MacHandles(n)
  PROVE  /\ queue'[n] \in Seq(Outgoing(n)) /\ unacked'[n] \in Seq(Outgoing(n))
         /\ ForeignRecords(n, procedures'[n])
<1> DEFINE h == Head(bus[n])
<1>1. /\ bus[n] # <<>> /\ h.to = "MAC" /\ h \in Message /\ Foreign(n, h) /\ Domains
  <2>1. bus[n] # <<>> /\ h.to = "MAC"
    BY MacHandlesAnswers DEF MacAnswers
  <2>2. h \in Message /\ h \in Range(bus[n])
    BY <2>1, ProtocolStation DEF Range
  <2> QED BY <2>1, <2>2, ProtocolDomains DEF PeersAt
<1>2. queue[n] \in Seq(Outgoing(n)) /\ unacked[n] \in Seq(Outgoing(n))
      /\ ForeignRecords(n, procedures[n])
  BY DEF PeersAt
<1>3. ASSUME UNCHANGED radioVars
      PROVE  queue'[n] \in Seq(Outgoing(n)) /\ unacked'[n] \in Seq(Outgoing(n))
  BY <1>2, <1>3 DEF radioVars
<1>4. ASSUME NEW packets \in Seq(Packet), Sends(n, packets),
             \A i \in DOMAIN packets : ForOthers(n, packets[i])
      PROVE  queue'[n] \in Seq(Outgoing(n)) /\ unacked'[n] \in Seq(Outgoing(n))
  BY <1>2, <1>4, SentOutgoing DEF Sends
<1>5. \A packet \in Packet : ForOthers(n, packet) =>
        /\ <<packet>> \in Seq(Packet)
        /\ \A i \in DOMAIN <<packet>> : ForOthers(n, <<packet>>[i])
  OBVIOUS
<1>6. ASSUME NEW packet \in Packet, packet.type \notin Unicast
      PROVE  /\ IfHeard(n, packet) \in Seq(Packet)
             /\ \A i \in DOMAIN IfHeard(n, packet) : ForOthers(n, IfHeard(n, packet)[i])
  BY <1>6 DEF IfHeard, ForOthers
<1>7. \A mac \in Node, c \in Cell, slots \in SUBSET Cell :
        /\ AddSlotPacket(mac, slots) \in Packet
        /\ ResultPacket(mac, c) \in Packet /\ DeletePacket(mac, c) \in Packet
        /\ mac # n => /\ ForOthers(n, AddSlotPacket(mac, slots))
                      /\ ForOthers(n, ResultPacket(mac, c)) /\ ForOthers(n, DeletePacket(mac, c))
  <2>1. ASSUME NEW mac \in Node, NEW c \in Cell, NEW slots \in SUBSET Cell
        PROVE  /\ AddSlotPacket(mac, slots) \in Packet
               /\ ResultPacket(mac, c) \in Packet /\ DeletePacket(mac, c) \in Packet
    BY <2>1, PacketTypes
  <2>2. ASSUME NEW mac \in Node, NEW c \in Cell, NEW slots \in SUBSET Cell, mac # n
        PROVE  /\ ForOthers(n, AddSlotPacket(mac, slots))
               /\ ForOthers(n, ResultPacket(mac, c)) /\ ForOthers(n, DeletePacket(mac, c))
    BY <2>2 DEF ForOthers, Pinned, AddSlotPacket, ResultPacket, DeletePacket
  <2> QED BY <2>1, <2>2
<1>8. \A mac \in Node, c \in Cell :
        /\ AckPacket("ACK_ADD", mac, c) \in Packet /\ AckPacket("ACK_DELETE", mac, c) \in Packet
        /\ AckPacket("ACK_ADD", mac, c).type \notin Unicast
        /\ AckPacket("ACK_DELETE", mac, c).type \notin Unicast
  BY PacketTypes DEF AckPacket, Unicast
<1>9. CASE SendProposal(n)
  <2>1. /\ h.type = "GETR_PROPOSED" /\ procedures'[n] = procedures[n]
        /\ Sends(n, IF h.slots = {} THEN <<>> ELSE <<AddSlotPacket(h.mac, h.slots)>>)
    BY <1>9 DEF SendProposal, Addressed, macVars
  <2>2. h.mac \in Node /\ h.slots \in SUBSET Cell /\ h.mac # n
    BY <1>1, <2>1, MacMessage DEF Foreign
  <2>3. CASE h.slots = {}
    <3>1. <<>> \in Seq(Packet) /\ DOMAIN <<>> = {}
      OBVIOUS
    <3> QED BY <1>2, <1>4, <2>1, <2>3, <3>1
  <2>4. CASE h.slots # {}
    <3>1. PICK packet : packet = AddSlotPacket(h.mac, h.slots)
      OBVIOUS
    <3>2. packet \in Packet /\ ForOthers(n, packet)
      <4>1. PICK c : c \in h.slots /\ c \in Cell
        BY <2>2, <2>4
      <4>2. h.mac \in Node /\ c \in Cell /\ h.slots \in SUBSET Cell /\ h.mac # n
        BY <2>2, <4>1
      <4> QED BY <1>7, <3>1, <4>2
    <3>3. Sends(n, <<packet>>)
      BY <2>1, <2>4, <3>1
    <3> QED BY <1>2, <1>4, <1>5, <2>1, <3>2, <3>3
  <2> QED BY <2>3, <2>4
<1>10. CASE SendSelection(n)
  <2>1. /\ h.type = "GETR_SELECTED"
        /\ \/ procedures'[n] = procedures[n] /\ UNCHANGED radioVars
           \/ /\ h.slot # NoSlot /\ Sends(n, <<ResultPacket(h.mac, h.slot)>>)
              /\ SetSlotAllocation(n, h.mac, "RX", h.slot)
    BY <1>10 DEF SendSelection, Addressed, macVars
  <2>2. h.mac \in Node /\ h.slot \in Cell \cup {NoSlot} /\ h.mac # n
    BY <1>1, <2>1, MacMessage DEF Foreign
  <2>3. CASE /\ h.slot # NoSlot /\ Sends(n, <<ResultPacket(h.mac, h.slot)>>)
             /\ SetSlotAllocation(n, h.mac, "RX", h.slot)
    <3>1. PICK packet : packet = ResultPacket(h.mac, h.slot)
      OBVIOUS
    <3>2. packet \in Packet /\ ForOthers(n, packet) /\ Sends(n, <<packet>>)
      BY <1>7, <2>2, <2>3, <3>1
    <3>3. \E id, r : Remember(n, id, r) /\ r.mac # n
      <4>1. PICK r : /\ r = [set |-> "ALLOCATION", mode |-> "RX", mac |-> h.mac, slot |-> h.slot]
                     /\ Remember(n, nextId[n], r)
        BY <2>3 DEF SetSlotAllocation
      <4>2. r.mac # n
        BY <2>2, <4>1
      <4> QED BY <4>1, <4>2
    <3>4. ForeignRecords(n, procedures'[n])
      BY <1>1, <1>2, <3>3, RecordsForeign
    <3> QED BY <1>4, <1>5, <3>2, <3>4
  <2> QED BY <1>2, <1>3, <2>1, <2>3
<1>11. CASE RemoveForSelection(n)
  <2>1. /\ h.type = "SET_REMOVAL" /\ procedures'[n] = procedures[n]
        /\ Sends(n, <<DeletePacket(h.mac, h.slot)>>
                      \o IfHeard(n, AckPacket("ACK_DELETE", h.mac, h.slot)))
    BY <1>11 DEF RemoveForSelection, Addressed
  <2>2. h.mac \in Node /\ h.slot \in Cell /\ h.mac # n
    BY <1>1, <2>1, MacMessage DEF Foreign
  <2>3. PICK packet, other : /\ packet = DeletePacket(h.mac, h.slot)
                             /\ other = AckPacket("ACK_DELETE", h.mac, h.slot)
    OBVIOUS
  <2>4. /\ packet \in Packet /\ ForOthers(n, packet)
        /\ other \in Packet /\ other.type \notin Unicast
    BY <1>7, <1>8, <2>2, <2>3
  <2>5. PICK packets : packets = <<packet>> \o IfHeard(n, other) /\ Sends(n, packets)
    BY <2>1, <2>3
  <2>6. packets \in Seq(Packet) /\ \A i \in DOMAIN packets : ForOthers(n, packets[i])
    <3>1. Headed(packets)
      BY <2>4, <2>5, FirstTold, Zenon
    <3>2. packets # <<>> /\ packets[1] = packet
      <4>1. CASE IfHeard(n, other) = <<>>
        BY <2>5, <4>1
      <4>2. CASE IfHeard(n, other) = <<other>>
        BY <2>5, <4>2
      <4> QED BY <4>1, <4>2 DEF IfHeard
    <3> QED BY <2>4, <3>1, <3>2 DEF Headed, ForOthers
  <2>7. /\ queue'[n] \in Seq(Outgoing(n)) /\ unacked'[n] \in Seq(Outgoing(n))
    BY <1>4, <2>5, <2>6
  <2> QED BY <1>2, <2>1, <2>7
<1>12. CASE FinishAllocation(n) \/ FinishRemoval(n)
  <2> DEFINE r == procedures[n][h.id]
  <2>1. /\ h.id \in DOMAIN procedures[n] /\ r.set \in {"ALLOCATION", "REMOVAL"}
        /\ Forget(n, h.id)
        /\ \/ Sends(n, <<>>) \/ Sends(n, IfHeard(n, AckPacket("ACK_ADD", r.mac, r.slot)))
           \/ Sends(n, IfHeard(n, AckPacket("ACK_DELETE", r.mac, r.slot)))
           \/ Sends(n, <<DeletePacket(r.mac, r.slot)>>)
    BY <1>12, SMTT(30) DEF FinishAllocation, FinishRemoval, Known
  <2>2. r.mac \in Node /\ r.slot \in Cell /\ r.mac # n
    <3>1. ProceduresTyped
      BY DEF ProtocolInv
    <3>2. r \in Procedure
      BY <2>1, <3>1 DEF ProceduresTyped
    <3> QED BY <1>2, <2>1, <3>2 DEF Procedure, Announcements, Allocations, Removals, ForeignRecords
  <2>3. ForeignRecords(n, procedures'[n])
    BY <1>1, <1>2, <2>1, RecordsForeign
  <2>4. PICK d, a, b : /\ d = DeletePacket(r.mac, r.slot)
                       /\ a = AckPacket("ACK_ADD", r.mac, r.slot)
                       /\ b = AckPacket("ACK_DELETE", r.mac, r.slot)
    BY Zenon
  <2>5. /\ d \in Packet /\ ForOthers(n, d)
        /\ a \in Packet /\ a.type \notin Unicast /\ b \in Packet /\ b.type \notin Unicast
    BY <1>7, <1>8, <2>2, <2>4, ZenonT(60)
  <2>6. PICK packets : /\ Sends(n, packets)
                       /\ packets \in {<<>>, <<d>>, IfHeard(n, a), IfHeard(n, b)}
    BY <2>1, <2>4, ZenonT(60)
  <2>7. packets \in Seq(Packet) /\ \A i \in DOMAIN packets : ForOthers(n, packets[i])
    <3>1. CASE packets = <<>>
      BY <3>1
    <3>2. CASE packets = <<d>>
      BY <1>5, <2>5, <3>2
    <3>3. CASE packets = IfHeard(n, a) \/ packets = IfHeard(n, b)
      BY <1>6, <2>5, <3>3
    <3> QED BY <2>6, <3>1, <3>2, <3>3
  <2> QED BY <1>4, <2>3, <2>6, <2>7
<1>13. CASE FinishOther(n)
  <2>1. Forget(n, h.id) /\ UNCHANGED radioVars
    BY <1>13 DEF FinishOther
  <2> QED BY <1>1, <1>2, <1>3, <2>1, RecordsForeign
<1>14. CASE ReceiveResult(n) \/ ReceiveDelete(n)
  <2>1. PICK c : SetSlotAllocation(n, h.src, "TX", c) \/ SetSlotRemoval(n, h.src, c)
    BY <1>14 DEF ReceiveResult, ReceiveDelete
  <2>2. h.type = "RECEIVE" /\ UNCHANGED radioVars
    BY <1>14 DEF ReceiveResult, ReceiveDelete, Received, Addressed
  <2>3. h.src # n
    BY <1>1, <2>2 DEF Foreign
  <2>4. \E id, r : Remember(n, id, r) /\ r.mac # n
    <3>1. PICK r : /\ Remember(n, nextId[n], r)
                   /\ \/ r = [set |-> "ALLOCATION", mode |-> "TX", mac |-> h.src, slot |-> c]
                      \/ r = [set |-> "REMOVAL", mac |-> h.src, slot |-> c]
      BY <2>1 DEF SetSlotAllocation, SetSlotRemoval
    <3>2. r.mac # n
      BY <2>3, <3>1
    <3> QED BY <3>1, <3>2
  <2> QED BY <1>1, <1>2, <1>3, <2>2, <2>4, RecordsForeign
<1>15. CASE ReceiveAddSlot(n) \/ ReceiveAdvertisement(n) \/ ReceiveAckDelete(n)
  <2>1. procedures'[n] = procedures[n] /\ UNCHANGED radioVars
    BY <1>15 DEF ReceiveAddSlot, ReceiveAdvertisement, ReceiveAckDelete, macVars
  <2> QED BY <1>2, <1>3, <2>1
<1> QED BY <1>9, <1>10, <1>11, <1>12, <1>13, <1>14, <1>15 DEF MacHandles

(* The peers of the cells stay, but for one that may be new. *)
PeersKept(g, f, mac) == \A c \in Cell : f[c].mac \in {g[c].mac, NoMac, mac}

LEMMA KeptForeign ==
  ASSUME NEW n \in Node, NEW g, ForeignCells(n, g), NEW mac, mac # n, NEW f, PeersKept(g, f, mac)
  PROVE  ForeignCells(n, f)
<1> QED
  BY NoMacAssumption DEF ForeignCells, PeersKept

LEMMA FreedPeers ==
  ASSUME NEW g, NEW cells PROVE PeersKept(g, FreeSlots(g, cells), NoMac)
<1> QED
  BY DEF PeersKept, FreeSlots, FreeInfo

LEMMA MarkedPeers ==
  ASSUME NEW g \in Grid, NEW due, NEW id PROVE PeersKept(g, MarkRemoval(g, due, id), NoMac)
<1>1. PICK f : f = [g EXCEPT ![due].removal = id]
  OBVIOUS
<1>2. PeersKept(g, f, NoMac) /\ PeersKept(g, g, NoMac)
  BY <1>1 DEF PeersKept, Grid, SlotInfo
<1> QED BY <1>1, <1>2 DEF MarkRemoval, SetPendingRemoval

LEMMA SetPeers ==
  ASSUME NEW g \in Grid, NEW c, NEW mac, NEW state, NEW h \in {"P", "A"},
         NEW f, f = IF h = "P" THEN SetSlotPending(g, c, state, mac)
                               ELSE SetSlotAllocated(g, c, state, mac)
  PROVE  PeersKept(g, f, mac)
<1>1. PICK v : v = [state |-> state, mac |-> mac, removal |-> 0]
  OBVIOUS
<1>2. PICK e : e = [g EXCEPT ![c] = v]
  OBVIOUS
<1>3. PeersKept(g, e, mac) /\ PeersKept(g, g, mac)
  BY <1>1, <1>2 DEF PeersKept, Grid
<1>4. f = e \/ f = g
  BY <1>1, <1>2 DEF SetSlotPending, SetSlotAllocated
<1> QED BY <1>3, <1>4

LEMMA SelectionForeign ==
  ASSUME ProtocolInv, NEW n \in Node, PeersAt(n), SelectionHandles(n)
  PROVE  ForeignCells(n, grid'[n])
<1> DEFINE h == Head(bus[n])
<1>1. grid[n] \in Grid /\ DOMAIN grid = Node /\ ForeignCells(n, grid[n]) /\ NoMac # n
  BY ProtocolGrid, ProtocolDomains, NoMacAssumption DEF Domains, PeersAt
<1>2. ASSUME bus[n] # <<>>, h.type \in {"GET_PROPOSED", "GET_SELECTED", "SET_ALLOCATION"},
             h.to = "AI"
      PROVE  h.mac # n
  <2>1. h \in Range(bus[n])
    BY <1>2, ProtocolStation DEF Range
  <2>2. Foreign(n, h)
    BY <2>1 DEF PeersAt
  <2> QED BY <1>2, <2>2 DEF Foreign
<1>3. CASE \/ IgnoreRequest(n) \/ RefuseAllocation(n) \/ ExternalSlotsAllocated(n)
           \/ ExternalSlotRemoved(n)
  <2>1. grid'[n] = grid[n]
    BY <1>3 DEF IgnoreRequest, RefuseAllocation, ExternalSlotsAllocated, ExternalSlotRemoved,
       gridVars
  <2> QED BY <1>1, <2>1
<1>4. CASE AllocateReservedSlots(n)
  <2>1. grid'[n] = SetSlotsReserved(grid[n], Reserved)
    BY <1>1, <1>4 DEF AllocateReservedSlots
  <2>2. PeersKept(grid[n], SetSlotsReserved(grid[n], Reserved), NoMac)
    BY DEF PeersKept, SetSlotsReserved
  <2> QED BY <1>1, <2>1, <2>2, KeptForeign
<1>5. CASE ProposeSlots(n)
  <2>1. PICK accepted : grid'[n] = [c \in Cell |->
          IF c \in accepted THEN [state |-> "PROPOSED_TX", mac |-> h.mac, removal |-> 0]
                            ELSE grid[n][c]]
    BY <1>1, <1>5 DEF ProposeSlots
  <2>2. PeersKept(grid[n], grid'[n], h.mac)
    BY <2>1 DEF PeersKept
  <2>3. h.mac # n
    BY <1>2, <1>5 DEF ProposeSlots, Addressed
  <2> QED BY <1>1, <2>2, <2>3, KeptForeign
<1>6. CASE SelectSlot(n)
  <2>1. \/ grid'[n] = grid[n]
        \/ \E c : grid'[n] = SetSlotPending(grid[n], c, "PROPOSED_RX", h.mac)
    BY <1>1, <1>6 DEF SelectSlot
  <2>2. ASSUME NEW c PROVE PeersKept(grid[n], SetSlotPending(grid[n], c, "PROPOSED_RX", h.mac), h.mac)
    BY <1>1, SetPeers
  <2>3. h.mac # n
    BY <1>2, <1>6 DEF SelectSlot, Addressed
  <2> QED BY <1>1, <2>1, <2>2, <2>3, KeptForeign
<1>7. CASE RemoveSlot(n) \/ ProcessSetResponse(n)
  <2>1. grid'[n] = grid[n] \/ \E cells : grid'[n] = FreeSlots(grid[n], cells)
    BY <1>1, <1>7 DEF RemoveSlot, ProcessSetResponse, ExecutePendingRemoval
  <2> QED BY <1>1, <2>1, FreedPeers, KeptForeign
<1>8. CASE ProcessStats(n)
  <2>1. \E due : grid'[n] = MarkRemoval(grid[n], due, nextId[n])
    BY <1>1, <1>8 DEF ProcessStats
  <2> QED BY <1>1, <2>1, MarkedPeers, KeptForeign
<1>9. CASE AllocateSlot(n)
  <2>1. PICK g : g = IF AlreadyAllocated(n, h) THEN grid[n]
                     ELSE SetSlotAllocated(grid[n], h.slot, h.mode, h.mac)
    OBVIOUS
  <2>2. grid'[n] = g \/ \E cells : grid'[n] = FreeSlots(g, cells)
    BY <1>1, <1>9, <2>1 DEF AllocateSlot, AbortTXProposals
  <2>3. ForeignCells(n, g)
    <3>1. h.mac # n
      BY <1>2, <1>9 DEF AllocateSlot, Addressed
    <3>2. PeersKept(grid[n], SetSlotAllocated(grid[n], h.slot, h.mode, h.mac), h.mac)
      BY <1>1, SetPeers
    <3> QED BY <1>1, <2>1, <3>1, <3>2, KeptForeign
  <2> QED BY <1>1, <2>2, <2>3, FreedPeers, KeptForeign
<1> QED BY <1>3, <1>4, <1>5, <1>6, <1>7, <1>8, <1>9 DEF SelectionHandles

(* What follows from the head of a bus. *)
LEMMA HandledForeign ==
  ASSUME ProtocolInv, NEW n \in Node, PeersAt(n), NEW h, NEW m, NEW ms, bus[n] # <<>>,
         h = Head(bus[n]), ms \in {<<>>, <<m>>}, bus'[n] = Tail(bus[n]) \o ms,
         ms = <<m>> => Causes(h, m) /\ (RemovalAsked(m) => m.mac # n)
  PROVE  \A x \in Range(bus'[n]) : Foreign(n, x)
<1>1. PICK b, c : b = bus[n] /\ c = bus'[n]
  OBVIOUS
<1>2. HeadHandled(b, h, m, ms, c)
  BY <1>1, HeadRest, ProtocolStation
<1>3. \A x \in Rest(b) \cup {h} : Foreign(n, x)
  BY <1>1, <1>2 DEF HeadHandled, PeersAt
<1>4. ms = <<m>> => Foreign(n, m)
  BY <1>3 DEF Foreign, Causes, RemovalAsked, RemovalReported
<1> QED BY <1>1, <1>2, <1>3, <1>4 DEF HeadHandled, Sent

LEMMA StatsForeign ==
  ASSUME ProtocolInv, NEW n \in Node, PeersAt(n), ProcessStats(n)
  PROVE  \A x \in Range(bus'[n]) : Foreign(n, x)
<1>1. PICK due : /\ due \in Due(grid[n], n)
                 /\ Answers(n, RemovalRequest(grid[n], due, nextId[n]))
  BY DEF ProcessStats
<1>2. PICK h, m, ms : /\ h = Head(bus[n]) /\ ms = RemovalRequest(grid[n], due, nextId[n])
                      /\ m = [to |-> "MAC", type |-> "SET_REMOVAL", id |-> nextId[n],
                              mac |-> grid[n][due].mac, slot |-> due]
  OBVIOUS
<1>3. ms \in {<<>>, <<m>>} /\ (ms = <<m>> => due # NoSlot)
  BY <1>2 DEF RemovalRequest
<1>4. bus[n] # <<>> /\ h.to = "AI" /\ h.type = "STATS" /\ bus'[n] = Tail(bus[n]) \o ms
  BY <1>1, <1>2, ProtocolDomains DEF ProcessStats, Addressed, Answers, Domains
<1>5. ms = <<m>> => Causes(h, m) /\ (RemovalAsked(m) => m.mac # n)
  <2>1. due # NoSlot => due \in Cell
    BY <1>1 DEF Due, IdleCandidates
  <2>2. due \in Cell => m.mac # n
    BY <1>2 DEF PeersAt, ForeignCells
  <2>3. RemovalAsked(m)
    BY <1>2 DEF RemovalAsked
  <2> QED BY <1>3, <1>4, <2>1, <2>2, <2>3 DEF Causes
<1> QED BY <1>2, <1>3, <1>4, <1>5, HandledForeign

LEMMA DrainPeers ==
  ASSUME ProtocolInv, PeersInv, NEW n \in Node, Drain(n)
  PROVE  PeersInv'
<1>1. PeersAt(n) /\ OthersKeep(n)
  BY DrainHandles DEF PeersInv
<1>2. ASSUME NEW x \in Node \ {n} PROVE PeersAt(x)'
  <2>1. /\ bus'[x] = bus[x] /\ queue'[x] = queue[x] /\ unacked'[x] = unacked[x]
        /\ procedures'[x] = procedures[x] /\ grid'[x] = grid[x]
    BY <1>1 DEF OthersKeep
  <2>2. PeersAt(x)
    BY DEF PeersInv
  <2> QED BY <2>1, <2>2 DEF PeersAt
<1>3. /\ queue'[n] \in Seq(Outgoing(n)) /\ unacked'[n] \in Seq(Outgoing(n))
      /\ ForeignRecords(n, procedures'[n]) /\ ForeignCells(n, grid'[n])
  <2>1. CASE MacHandles(n) /\ UNCHANGED gridVars
    <3>1. grid' = grid
      BY <2>1 DEF gridVars
    <3> QED BY <1>1, <2>1, <3>1, MacForeign DEF PeersAt
  <2>2. CASE SelectionHandles(n) /\ UNCHANGED <<macVars, radioVars>>
    <3>1. procedures' = procedures /\ queue' = queue /\ unacked' = unacked
      BY <2>2 DEF macVars, radioVars
    <3> QED BY <1>1, <2>2, <3>1, SelectionForeign DEF PeersAt
  <2> QED BY <2>1, <2>2 DEF Drain
<1>4. \A x \in Range(bus'[n]) : Foreign(n, x)
  <2>1. CASE ProcessStats(n)
    BY <1>1, <2>1, StatsForeign
  <2>2. CASE ~ProcessStats(n)
    <3>1. PICK h, m, ms : Handles(n, h, m, ms)
      BY DrainHandles
    <3>2. h.to = "AI" => h.type # "STATS"
      <4>1. CASE MacHandles(n)
        <5>1. \E o, os : MacAnswers(n, o, os)
          BY <4>1, MacHandlesAnswers, ZenonT(60)
        <5> QED BY <3>1, <5>1 DEF MacAnswers, Handles
      <4>2. CASE SelectionHandles(n)
        BY <2>2, <3>1, <4>2
           DEF SelectionHandles, Handles, Addressed, AllocateReservedSlots, IgnoreRequest,
               ProposeSlots, SelectSlot, AllocateSlot, RefuseAllocation, RemoveSlot,
               ProcessSetResponse, ExternalSlotsAllocated, ExternalSlotRemoved
      <4> QED BY <4>1, <4>2 DEF Drain
    <3>3. ms = <<m>> => Causes(h, m) /\ ~RemovalAsked(m)
      BY <3>1, <3>2 DEF Handles, Causes, RemovalAsked, RemovalReported
    <3> QED BY <1>1, <3>1, <3>3, HandledForeign DEF Handles
  <2> QED BY <2>1, <2>2
<1>5. PeersAt(n)'
  BY <1>3, <1>4 DEF PeersAt, ForeignRecords, ForeignCells, Outgoing
<1> QED BY <1>2, <1>5 DEF PeersInv

(* What a tick adds. *)
LEMMA AddedForeign ==
  ASSUME ProtocolInv, NEW x \in Node, PeersAt(x), NEW m, NEW ms, Adds(x, m, ms),
         ms = <<m>> => Foreign(x, m), procedures'[x] = procedures[x],
         ForeignCells(x, grid'[x]),
         queue'[x] \in Seq(Outgoing(x)), unacked'[x] \in Seq(Outgoing(x))
  PROVE  PeersAt(x)'
<1>1. PICK b, c : b = bus[x] /\ c = bus'[x]
  OBVIOUS
<1>2. IsSeq(b) /\ ms \in {<<>>, <<m>>} /\ c = b \o ms
  BY <1>1, ProtocolStation DEF Adds
<1>3. OneAdded(b, m, ms, c)
  BY <1>2, AddedRange
<1>4. \A y \in Range(bus'[x]) : Foreign(x, y)
  BY <1>1, <1>3 DEF OneAdded, Sent, PeersAt
<1> QED BY <1>4 DEF PeersAt, ForeignRecords, ForeignCells, Outgoing

(* A station that a tick does not touch. *)
LEMMA UntouchedPeers ==
  ASSUME NEW x, PeersAt(x), bus'[x] = bus[x], procedures'[x] = procedures[x],
         grid'[x] = grid[x], queue'[x] = queue[x], unacked'[x] = unacked[x]
  PROVE  PeersAt(x)'
<1> QED BY DEF PeersAt

LEMMA RequestPeers ==
  ASSUME ProtocolInv, PeersInv, NEW n \in Node, NEW m, Request(n, m), m.to = "AI",
         m.type \in {"GET_PROPOSED", "STATS"}, m.type = "GET_PROPOSED" => m.mac # n
  PROVE  PeersInv'
<1>1. /\ Adds(n, m, <<m>>) /\ \A x \in Node \ {n} : bus'[x] = bus[x]
      /\ grid' = grid /\ procedures' = procedures /\ queue' = queue /\ unacked' = unacked
  BY RequestAdds
<1>2. Foreign(n, m)
  BY DEF Foreign
<1>3. PeersAt(n)'
  BY <1>1, <1>2, AddedForeign DEF PeersInv, PeersAt
<1>4. \A x \in Node \ {n} : PeersAt(x)'
  BY <1>1, UntouchedPeers DEF PeersInv
<1> QED BY <1>3, <1>4 DEF PeersInv

LEMMA TimersPeers ==
  ASSUME ProtocolInv, PeersInv, NEW n \in Node, SelectionTimers(n)
  PROVE  PeersInv'
<1>1. /\ \A x \in Node \ {n} : bus'[x] = bus[x] /\ grid'[x] = grid[x]
      /\ procedures' = procedures /\ queue' = queue /\ unacked' = unacked
  BY TimersAdd
<1>2. PICK m0, ms0 : Adds(n, m0, ms0)
  BY TimersAdd
<1>3. PICK e, f, R, due : TimersMark(n, TimedGrid(n, e, f, R), due)
  BY TimersAdd
<1>4. PICK g : g = TimedGrid(n, e, f, R)
  OBVIOUS
<1>5. g \in Grid /\ ForeignCells(n, g)
  <2>1. grid[n] \in Grid /\ ForeignCells(n, grid[n]) /\ NoMac # n
    BY ProtocolGrid, NoMacAssumption DEF PeersInv, PeersAt
  <2>2. g \in Grid
    BY <1>4, <2>1, TimedTrims DEF TimedGrid
  <2>3. PICK g1 : g1 = AbortRXProposals(AbortTXProposals(grid[n], e), f)
    OBVIOUS
  <2>4. ForeignCells(n, AbortTXProposals(grid[n], e))
    BY <2>1, FreedPeers, KeptForeign DEF AbortTXProposals
  <2>5. ForeignCells(n, g1)
    BY <2>1, <2>3, <2>4, FreedPeers, KeptForeign DEF AbortRXProposals
  <2>6. AbortTXProposals(grid[n], e) \in Grid
    BY <2>1 DEF AbortTXProposals, FreeSlots, FreeInfo, Grid, SlotInfo, SlotState
  <2>7. g1 \in Grid
    BY <2>3, <2>6 DEF AbortRXProposals, FreeSlots, FreeInfo, Grid, SlotInfo, SlotState
  <2>8. g = AbortPendingRemovals(g1, R)
    BY <1>4, <2>3 DEF TimedGrid
  <2>9. PeersKept(g1, g, NoMac)
    BY <2>7, <2>8 DEF PeersKept, AbortPendingRemovals, Grid, SlotInfo
  <2> QED BY <2>1, <2>2, <2>5, <2>9, KeptForeign
<1>6. PICK m, ms : /\ ms = RemovalRequest(g, due, nextId[n])
                   /\ m = [to |-> "MAC", type |-> "SET_REMOVAL", id |-> nextId[n],
                           mac |-> g[due].mac, slot |-> due]
  OBVIOUS
<1>7. /\ due \in Due(g, n) /\ grid'[n] = MarkRemoval(g, due, nextId[n])
      /\ bus'[n] = bus[n] \o ms
  BY <1>3, <1>4, <1>6 DEF TimersMark
<1>8. ms \in {<<>>, <<m>>} /\ (ms = <<m>> => Foreign(n, m))
  <2>1. ms \in {<<>>, <<m>>} /\ (ms = <<m>> => due # NoSlot)
    BY <1>6 DEF RemovalRequest
  <2>2. due # NoSlot => due \in Cell
    BY <1>7 DEF Due, IdleCandidates
  <2>3. due \in Cell => m.mac # n
    BY <1>5, <1>6 DEF ForeignCells
  <2>4. m.type = "SET_REMOVAL"
    BY <1>6
  <2> QED BY <2>1, <2>2, <2>3, <2>4 DEF Foreign
<1>9. ForeignCells(n, grid'[n])
  <2>1. PeersKept(g, grid'[n], NoMac)
    BY <1>5, <1>7, MarkedPeers
  <2> QED BY <1>5, <2>1, NoMacAssumption, KeptForeign
<1>10. \A y \in Range(bus'[n]) : Foreign(n, y)
  <2>1. PICK b, c : b = bus[n] /\ c = bus'[n]
    OBVIOUS
  <2>2. OneAdded(b, m, ms, c)
    BY <1>7, <1>8, <2>1, AddedRange, ProtocolStation
  <2> QED BY <1>8, <2>1, <2>2 DEF OneAdded, Sent, PeersAt, PeersInv
<1>11. PeersAt(n)'
  BY <1>1, <1>9, <1>10 DEF PeersAt, PeersInv, ForeignRecords, ForeignCells, Outgoing
<1>12. \A x \in Node \ {n} : PeersAt(x)'
  BY <1>1, UntouchedPeers DEF PeersInv
<1> QED BY <1>11, <1>12 DEF PeersInv

(* A packet that is sent, perhaps to be sent again, and one that is. *)
LEMMA RadioOutgoing ==
  ASSUME ProtocolInv, NEW n \in Node, PeersAt(n), Transmit(n) \/ Retransmit(n)
  PROVE  /\ queue'[n] \in Seq(Outgoing(n)) /\ unacked'[n] \in Seq(Outgoing(n))
         /\ \A x \in Node \ {n} : queue'[x] = queue[x] /\ unacked'[x] = unacked[x]
<1>1. /\ queue[n] \in Seq(Outgoing(n)) /\ unacked[n] \in Seq(Outgoing(n))
      /\ DOMAIN queue = Node /\ DOMAIN unacked = Node
  BY ProtocolDomains DEF PeersAt, Domains
<1>2. CASE Transmit(n)
  <2>1. PICK e : e = Head(queue[n])
    OBVIOUS
  <2>2. /\ queue[n] # <<>>
        /\ queue' = [queue EXCEPT ![n] = Tail(queue[n])]
        /\ \/ UNCHANGED unacked
           \/ /\ e.tries > 1
              /\ unacked' = [unacked EXCEPT ![n] =
                               Append(unacked[n], [e EXCEPT !.tries = @ - 1])]
    BY <1>2, <2>1 DEF Transmit
  <2>3. e \in Outgoing(n) /\ Tail(queue[n]) \in Seq(Outgoing(n))
    BY <1>1, <2>1, <2>2
  <2>4. PICK u : u = [e EXCEPT !.tries = @ - 1]
    OBVIOUS
  <2>5. e.tries > 1 => u \in Outgoing(n)
    <3>1. e \in Entry /\ ForOthers(n, e.packet)
      BY <2>3 DEF Outgoing
    <3>2. e.tries > 1 => u \in Entry /\ u.packet = e.packet
      BY <3>1, <2>4, RadioAssumption DEF Entry
    <3> QED BY <3>1, <3>2 DEF Outgoing
  <2>6. unacked' = unacked \/ unacked' = [unacked EXCEPT ![n] = Append(unacked[n], u)]
    BY <2>2, <2>4
  <2>7. e.tries > 1 => Append(unacked[n], u) \in Seq(Outgoing(n))
    BY <1>1, <2>5
  <2>8. unacked'[n] \in Seq(Outgoing(n)) /\ \A x \in Node \ {n} : unacked'[x] = unacked[x]
    <3>1. CASE unacked' = unacked
      BY <1>1, <3>1
    <3>2. CASE unacked' # unacked
      BY <1>1, <2>2, <2>6, <2>7, <3>2
    <3> QED BY <3>1, <3>2
  <2> QED BY <1>1, <2>2, <2>3, <2>8
<1>3. CASE Retransmit(n)
  <2>1. PICK i \in DOMAIN unacked[n] :
          /\ queue'   = [queue EXCEPT ![n] = Append(queue[n], unacked[n][i])]
          /\ unacked' = [unacked EXCEPT ![n] = RemoveAt(unacked[n], i)]
    BY <1>3 DEF Retransmit
  <2>2. PICK s, O : s = unacked[n] /\ O = Outgoing(n)
    OBVIOUS
  <2>3. s \in Seq(O) /\ i \in 1 .. Len(s) /\ Len(s) \in Nat /\ s[i] \in O
    BY <1>1, <2>1, <2>2
  <2>4. SubSeq(s, 1, i - 1) \in Seq(O) /\ SubSeq(s, i + 1, Len(s)) \in Seq(O)
    BY <2>3
  <2>5. RemoveAt(s, i) \in Seq(O)
    BY <2>4 DEF RemoveAt
  <2>6. Append(queue[n], s[i]) \in Seq(O)
    BY <1>1, <2>2, <2>3
  <2> QED BY <1>1, <2>1, <2>2, <2>5, <2>6
<1> QED BY <1>2, <1>3

LEMMA TransmitPeers ==
  ASSUME ProtocolInv, PeersInv, NEW n \in Node, Transmit(n)
  PROVE  PeersInv'
<1>1. PICK e, m : e = Head(queue[n]) /\ m = Reception(n, e.packet)
  OBVIOUS
<1>2. /\ queue[n] # <<>> /\ \E heard : Reaches(n, e, m, heard)
      /\ grid' = grid /\ procedures' = procedures
  BY <1>1, TransmitAdds
<1>3. PICK heard : Reaches(n, e, m, heard)
  BY <1>2
<1>4. e \in Outgoing(n)
  BY <1>1, <1>2, HeadTail DEF PeersInv, PeersAt
<1>5. \A x \in Node : queue'[x] \in Seq(Outgoing(x)) /\ unacked'[x] \in Seq(Outgoing(x))
  BY RadioOutgoing DEF PeersInv, PeersAt
<1>6. ASSUME NEW x \in Node, x \in heard PROVE PeersAt(x)'
  <2>1. x # n
    BY <1>3, <1>4, <1>6 DEF Reaches, Audience, Outgoing, ForOthers
  <2>2. Foreign(x, m)
    BY <1>1, <1>4, <2>1 DEF Foreign, Reception, Outgoing, ForOthers, Pinned, Unicast
  <2>3. Adds(x, m, <<m>>) /\ PeersAt(x)
    BY <1>3, <1>6 DEF Reaches, PeersInv
  <2>4. ForeignCells(x, grid'[x]) /\ procedures'[x] = procedures[x]
    BY <1>2, <2>3 DEF PeersAt
  <2> QED BY <1>5, <2>2, <2>3, <2>4, AddedForeign
<1>7. ASSUME NEW x \in Node, x \notin heard PROVE PeersAt(x)'
  <2>1. bus'[x] = bus[x] /\ PeersAt(x)
    BY <1>3, <1>7 DEF Reaches, PeersInv
  <2> QED BY <1>2, <1>5, <2>1 DEF PeersAt, ForeignRecords, ForeignCells, Outgoing
<1> QED BY <1>6, <1>7 DEF PeersInv

LEMMA TickPeers ==
  ASSUME ProtocolInv, PeersInv, NEW n \in Node, Tick(n)
  PROVE  PeersInv'
<1>1. CASE AppSend(n) \/ QueueTimeout(n)
  <2>1. PICK mac \in Node \ {n} : Request(n, GetProposedSlots(mac))
    BY <1>1 DEF AppSend, QueueTimeout, RequestSlots
  <2>2. PICK m : m = GetProposedSlots(mac)
    OBVIOUS
  <2>3. m.to = "AI" /\ m.type = "GET_PROPOSED" /\ m.mac = mac
    BY <2>2 DEF GetProposedSlots
  <2> QED BY <2>1, <2>2, <2>3, RequestPeers
<1>2. CASE SendStatistics(n)
  <2>1. PICK c : Request(n, [to |-> "AI", type |-> "STATS", slot |-> c])
    BY <1>2 DEF SendStatistics
  <2>2. PICK m : m = [to |-> "AI", type |-> "STATS", slot |-> c]
    OBVIOUS
  <2>3. m.to = "AI" /\ m.type = "STATS"
    BY <2>2
  <2> QED BY <2>1, <2>2, <2>3, RequestPeers
<1>3. CASE Advertise(n)
  <2>1. PICK slots \in SUBSET Cell : Sends(n, IfHeard(n, AdvertPacket(slots)))
    BY <1>3 DEF Advertise
  <2>2. /\ bus' = bus /\ procedures' = procedures /\ grid' = grid /\ unacked' = unacked
    BY <1>3 DEF Advertise, Sends, selVars, macVars
  <2>3. PICK packet, packets : packet = AdvertPacket(slots) /\ packets = IfHeard(n, packet)
    OBVIOUS
  <2>4. packets \in Seq(Packet) /\ \A i \in DOMAIN packets : ForOthers(n, packets[i])
    <3>1. packet \in Packet /\ packet.type = "ADVERTISE"
      BY <2>3 DEF AdvertPacket, Packet, Broadcast
    <3> QED BY <2>3, <3>1 DEF IfHeard, ForOthers, Unicast
  <2>5. queue'[n] \in Seq(Outgoing(n))
    BY <2>1, <2>3, <2>4, SentOutgoing DEF PeersInv, PeersAt
  <2>6. \A x \in Node \ {n} : queue'[x] = queue[x]
    BY <2>1, ProtocolDomains DEF Sends, Domains
  <2>7. PeersAt(n)'
    BY <2>2, <2>5 DEF PeersInv, PeersAt, Foreign, ForeignRecords, ForeignCells, Outgoing
  <2>8. \A x \in Node \ {n} : PeersAt(x)'
    BY <2>2, <2>6, UntouchedPeers DEF PeersInv
  <2> QED BY <2>7, <2>8 DEF PeersInv
<1>4. CASE Retransmit(n)
  <2>1. bus' = bus /\ procedures' = procedures /\ grid' = grid
    BY <1>4 DEF Retransmit, selVars, macVars
  <2>2. \A x \in Node : queue'[x] \in Seq(Outgoing(x)) /\ unacked'[x] \in Seq(Outgoing(x))
    BY <1>4, RadioOutgoing DEF PeersInv, PeersAt
  <2> QED BY <2>1, <2>2 DEF PeersInv, PeersAt, Foreign, ForeignRecords, ForeignCells, Outgoing
<1> QED BY <1>1, <1>2, <1>3, <1>4, TimersPeers, TransmitPeers DEF Tick

LEMMA InitPeers == ProtocolInit => PeersInv
<1>1. ASSUME ProtocolInit, NEW n \in Node PROVE PeersAt(n)
  <2>1. /\ bus[n] = <<SetBcSlots>> /\ queue[n] = <<>> /\ unacked[n] = <<>>
        /\ grid[n] = EmptyGrid /\ procedures[n] = [i \in {0} |-> [set |-> "BC_SLOTS"]]
    BY <1>1, StationAssumption DEF ProtocolInit, Init
  <2>2. \A x \in Range(bus[n]) : Foreign(n, x)
    BY <2>1 DEF Range, Foreign, SetBcSlots
  <2>3. ForeignCells(n, grid[n])
    BY <2>1, NoMacAssumption DEF ForeignCells, EmptyGrid, FreeInfo
  <2>4. ForeignRecords(n, procedures[n])
    BY <2>1 DEF ForeignRecords
  <2>5. <<>> \in Seq(Outgoing(n))
    OBVIOUS
  <2> QED BY <2>1, <2>2, <2>3, <2>4, <2>5 DEF PeersAt
<1> QED BY <1>1 DEF PeersInv

LEMMA PeersInvInductive == ProtocolInv /\ PeersInv /\ [ProtocolNext]_vars => PeersInv'
<1> SUFFICES ASSUME ProtocolInv, PeersInv, [ProtocolNext]_vars PROVE PeersInv'
  OBVIOUS
<1>1. CASE UNCHANGED vars
  <2>1. bus' = bus /\ procedures' = procedures /\ grid' = grid /\ queue' = queue
        /\ unacked' = unacked
    BY <1>1 DEF vars, selVars, macVars, radioVars
  <2> QED BY <2>1, UntouchedPeers DEF PeersInv
<1>2. CASE ProtocolNext
  BY <1>2, DrainPeers, TickPeers DEF ProtocolNext
<1> QED BY <1>1, <1>2

-----------------------------------------------------------------------------
(* What is known when the station n handles a message *)

Handling(n, h, m, ms) ==
  /\ ProtocolInv /\ ProtocolInv' /\ InstantInv /\ ConfirmedInv /\ ConfirmedInv'
  /\ ExchangeInv /\ TablesInv /\ PeersInv
  /\ Handles(n, h, m, ms) /\ SceneOf(n, h, m, ms) /\ OthersKeep(n)
  /\ \A p \in Node \ {n} : Rests(bus[p])

LEMMA LaterOnWay ==
  ASSUME NEW n, NEW m, NEW j, NEW k, NEW c, Later(n, m, j, k, c)
  PROVE  OnWay(n, m, j, c) /\ OnWay(n, m, k, c)
<1> QED BY BehindWaits DEF Later, OnWay

LEMMA AlikePair ==
  ASSUME NEW n, NEW p, NEW c, Pair(n, p, c), PeerKeeps(p, n, c),
         Alike(n, p, c), FlightKeeps(p, n, c)
  PROVE  Pair(n, p, c)'
<1>1. Alike(p, n, c)
  BY DEF PeerKeeps, Alike, NoNewOffer
<1>2. Ends(n, p, c) /\ Ends(p, n, c)
  BY DEF Pair
<1>3. Ends(n, p, c)' /\ Ends(p, n, c)'
  BY <1>1, <1>2, AlikeEnds
<1> QED BY <1>3 DEF Pair

(* The views of the handling station. *)
SameState(n, p, c) == /\ Sending(n, p, c)' <=> Sending(n, p, c)
                      /\ Listening(n, p, c)' <=> Listening(n, p, c)
                      /\ Offering(n, p, c)' => Offering(n, p, c)

(* No removal that a cell waits for is asked for or reported. *)
LEMMA ClosingKept ==
  ASSUME NEW n \in Node, NEW h, NEW m, NEW ms, SceneOf(n, h, m, ms), ~Marks(h),
         ms = <<m>> => ~Marks(m), NEW p, NEW c,
         \/ grid'[n][c] = grid[n][c]
         \/ grid[n][c].removal = 0 /\ grid'[n][c].removal = 0
         \/ grid[n][c].mac # p /\ grid'[n][c].mac # p
  PROVE  /\ Closing(n, p, c)' <=> Closing(n, p, c)
         /\ DueAt(n, p, c)' <=> DueAt(n, p, c)
<1>1. /\ Range(bus[n]) = Rest(bus[n]) \cup {h}
      /\ Range(bus'[n]) = Rest(bus[n]) \cup Sent(m, ms)
      /\ \A x \in Rest(bus[n]) \cup {h} : OldId(x, nextId[n])
  BY DEF SceneOf, Scene, Onward
<1>2. \A x : Marks(x) => (x \in Range(bus'[n]) <=> x \in Range(bus[n]))
  BY <1>1 DEF Sent
<1>3. \A x \in Range(bus'[n]) \cup Range(bus[n]) : RemovalReported(x) => x.id # 0
  BY <1>1, <1>2 DEF OldId, Marks
<1>4. Closing(n, p, c)' <=> Closing(n, p, c)
  <2>1. CASE grid'[n][c] = grid[n][c]
    BY <1>2, <2>1 DEF Closing, Ending, Marks
  <2>2. CASE grid[n][c].removal = 0 /\ grid'[n][c].removal = 0
    BY <1>3, <2>2 DEF Closing, Ending
  <2>3. CASE grid[n][c].mac # p /\ grid'[n][c].mac # p
    BY <2>3 DEF Closing
  <2> QED BY <2>1, <2>2, <2>3
<1>5. DueAt(n, p, c)' <=> DueAt(n, p, c)
  BY <1>2 DEF DueAt, Marks
<1> QED BY <1>4, <1>5

LEMMA ViewKept ==
  ASSUME NEW n \in Node, NEW h, NEW m, NEW ms, SceneOf(n, h, m, ms), ~Marks(h),
         ms = <<m>> => ~Marks(m), NEW p, NEW c, SameState(n, p, c),
         \/ grid'[n][c] = grid[n][c]
         \/ grid[n][c].removal = 0 /\ grid'[n][c].removal = 0
         \/ grid[n][c].mac # p /\ grid'[n][c].mac # p
  PROVE  SameView(n, p, c) /\ NoNewOffer(n, p, c)
<1>1. /\ Closing(n, p, c)' <=> Closing(n, p, c)
      /\ DueAt(n, p, c)' <=> DueAt(n, p, c)
  BY ClosingKept
<1> QED BY <1>1 DEF SameView, NoNewOffer, SameState

LEMMA SameCellState ==
  ASSUME NEW n, NEW p, NEW c, grid'[n][c] = grid[n][c]
  PROVE  SameState(n, p, c)
<1> QED BY DEF SameState, Sending, Listening, Offering

(* A message that no packet brought is handled. *)
LEMMA PlainContext ==
  ASSUME NEW n \in Node, NEW h, NEW m, NEW ms, Handling(n, h, m, ms), h \notin Derived,
         NEW p \in Node \ {n}, NEW c \in Cell
  PROVE  /\ PeerKeeps(p, n, c) /\ FlightKeeps(p, n, c) /\ SameAnswers(n, p, c)
         /\ \A k : Hears(p, n, k, c)' <=> Hears(p, n, k, c)
<1>1. /\ PeerKeeps(p, n, c) /\ queue'[p] = queue[p]
      /\ \A k : Hears(p, n, k, c)' <=> Hears(p, n, k, c)
  BY PeerRests DEF Handling
<1>2. \A k : Hears(n, p, k, c)' <=> Hears(n, p, k, c)
  BY SignalsKept DEF Handling
<1>3. FlightKeeps(p, n, c)
  BY <1>1, <1>2, HeardKeeps
<1> QED BY <1>1, <1>2, <1>3 DEF SameAnswers

(* A message that came of a packet is: nothing else that did is on the bus. *)
Moves(n, h, m, ms, p, c) ==
  /\ \A k : Hears(n, p, k, c) <=> Signals(h, procedures[n], p, k, c)
  /\ \A k : Hears(n, p, k, c)' <=> ms = <<m>> /\ Signals(m, procedures'[n], p, k, c)

LEMMA DerivedContext ==
  ASSUME NEW n \in Node, NEW h, NEW m, NEW ms, Handling(n, h, m, ms), h \in Derived,
         NEW p \in Node \ {n}, NEW c \in Cell
  PROVE  /\ PeerKeeps(p, n, c) /\ queue'[p] = queue[p] /\ Moves(n, h, m, ms, p, c)
         /\ \A k : Hears(p, n, k, c)' <=> Hears(p, n, k, c)
<1>1. /\ PeerKeeps(p, n, c) /\ queue'[p] = queue[p]
      /\ \A k : Hears(p, n, k, c)' <=> Hears(p, n, k, c)
  BY PeerRests DEF Handling
<1>2. Moves(n, h, m, ms, p, c)
  BY SignalsMoved DEF Handling, Moves
<1> QED BY <1>1, <1>2

(* The stages of an exchange, by what is on its way. *)
LEMMA StageOf ==
  ASSUME NEW n, NEW p, NEW c \in Cell
  PROVE  /\ Waits(queue[n], p, "ADD_SLOT", c) => Underway(2, n, p) # {}
         /\ Hears(p, n, "ADD_SLOT", c) => Underway(3, n, p) # {}
         /\ Hears(p, n, "SELECTED", c) => Underway(4, n, p) # {}
         /\ Waits(queue[p], n, "RESULT", c) => Underway(5, n, p) # {}
         /\ Hears(n, p, "RESULT", c) => Underway(6, n, p) # {}
<1>1. ASSUME Waits(queue[n], p, "ADD_SLOT", c) PROVE Underway(2, n, p) # {}
  <2>1. PICK i \in DOMAIN queue[n] : Tells(queue[n][i].packet, "ADD_SLOT", p, c)
    BY <1>1 DEF Waits
  <2>2. Carries(queue[n][i], 2, p) /\ queue[n][i] \in Range(queue[n])
    BY <2>1 DEF Carries, Tells, Range
  <2>3. queue[n][i].packet.slots \in Has(2, n, p)
    BY <2>2 DEF Has, QueueHas
  <2> QED BY <2>3 DEF Underway, Asking
<1>2. ASSUME NEW x \in Range(bus[p]), Bears(x, 3, n) \/ Bears(x, 4, n)
      PROVE  Underway(3, n, p) # {} \/ Underway(4, n, p) # {}
  BY <1>2 DEF Underway, Asking, Has, BusHas
<1>3. ASSUME NEW x \in Range(bus[p]), Bears(x, 3, n) PROVE Underway(3, n, p) # {}
  BY <1>3 DEF Underway, Asking, Has, BusHas
<1>4. ASSUME NEW x \in Range(bus[p]), Bears(x, 4, n) PROVE Underway(4, n, p) # {}
  BY <1>4 DEF Underway, Asking, Has, BusHas
<1>5. ASSUME NEW x \in Range(bus[n]), Bears(x, 6, p) PROVE Underway(6, n, p) # {}
  BY <1>5 DEF Underway, Asking, Has, BusHas
<1>6. ASSUME Waits(queue[p], n, "RESULT", c) PROVE Underway(5, n, p) # {}
  <2>1. PICK i \in DOMAIN queue[p] : Tells(queue[p][i].packet, "RESULT", n, c)
    BY <1>6 DEF Waits
  <2>2. Carries(queue[p][i], 5, n) /\ queue[p][i] \in Range(queue[p])
    BY <2>1 DEF Carries, Tells, Range
  <2>3. queue[p][i].packet.slots \in Has(5, p, n)
    BY <2>2 DEF Has, QueueHas
  <2> QED BY <2>3 DEF Underway, Asking
<1>7. \A x, P : /\ Signals(x, P, n, "ADD_SLOT", c) => Bears(x, 3, n)
                /\ Signals(x, P, n, "SELECTED", c) => Bears(x, 4, n)
                /\ Signals(x, P, p, "RESULT", c) => Bears(x, 6, p)
  BY NoSlotCell DEF Signals, Bears, Unicast
<1> QED BY <1>1, <1>3, <1>4, <1>5, <1>6, <1>7 DEF Hears

LEMMA OneStage ==
  ASSUME ExchangeInv, NEW n \in Node, NEW p \in Node, NEW k \in Stage, NEW l \in Stage, k # l,
         Underway(k, n, p) # {}
  PROVE  Underway(l, n, p) = {}
<1> QED BY DEF ExchangeInv, Exclusive

-----------------------------------------------------------------------------
(* A message that no packet brought is handled *)

LEMMA UnmarkedSent ==
  ASSUME NEW h, NEW m, Causes(h, m), ~RemovalAsked(h), ~(h.to = "AI" /\ h.type = "STATS")
  PROVE  ~Marks(m)
<1> QED BY DEF Causes, Marks, RemovalAsked, RemovalReported

LEMMA UnusedUnmarked ==
  ASSUME ProtocolInv, NEW n \in Node, NEW c \in Cell, ~Busy(grid[n], c)
  PROVE  grid[n][c].removal = 0
<1> QED BY ProtocolGrid DEF Marked, Busy

(* Handlers of the slot selection send no packet. *)
LEMMA QuietContext ==
  ASSUME NEW n \in Node, NEW h, NEW m, NEW ms, Handling(n, h, m, ms), h \notin Derived,
         queue'[n] = queue[n], NEW p \in Node \ {n}, NEW c \in Cell
  PROVE  /\ PeerKeeps(p, n, c) /\ FlightKeeps(p, n, c) /\ SameAnswers(n, p, c)
         /\ FlightKeeps(n, p, c)
<1>1. /\ PeerKeeps(p, n, c) /\ FlightKeeps(p, n, c) /\ SameAnswers(n, p, c)
      /\ \A k : Hears(p, n, k, c)' <=> Hears(p, n, k, c)
  BY PlainContext
<1>2. FlightKeeps(n, p, c)
  BY <1>1, SilentFlight
<1> QED BY <1>1, <1>2

LEMMA QuietPair ==
  ASSUME NEW n \in Node, NEW h, NEW m, NEW ms, Handling(n, h, m, ms), h \notin Derived,
         queue'[n] = queue[n], NEW p \in Node \ {n}, NEW c \in Cell,
         SameView(n, p, c), NoNewOffer(n, p, c), Pair(n, p, c)
  PROVE  Pair(n, p, c)'
<1>1. /\ PeerKeeps(p, n, c) /\ FlightKeeps(p, n, c) /\ SameAnswers(n, p, c)
      /\ FlightKeeps(n, p, c)
  BY QuietContext
<1>2. Alike(n, p, c)
  BY <1>1 DEF Alike
<1> QED BY <1>1, <1>2, AlikePair

(* The grid is left alone, or the broadcast slots are reserved in an empty one. *)
LEMMA SameGridPairs ==
  ASSUME NEW n \in Node, NEW h, NEW m, NEW ms, Handling(n, h, m, ms), h \notin Derived,
         IgnoreRequest(n) \/ ExternalSlotsAllocated(n) \/ ExternalSlotRemoved(n),
         UNCHANGED <<macVars, radioVars>>,
         NEW p \in Node \ {n}, NEW c \in Cell, Pair(n, p, c)
  PROVE  Pair(n, p, c)'
<1>1. /\ SceneOf(n, h, m, ms) /\ h = Head(bus[n]) /\ (ms = <<m>> => Causes(h, m))
  BY DEF Handling, Handles
<1>2. /\ grid'[n] = grid[n] /\ h.to = "AI"
      /\ h.type \in {"GET_PROPOSED", "SET_EXTERNAL_USED", "SET_EXTERNAL_FREE"}
  BY <1>1 DEF IgnoreRequest, ExternalSlotsAllocated, ExternalSlotRemoved, Addressed, gridVars
<1>3. ~Marks(h) /\ (ms = <<m>> => ~Marks(m))
  BY <1>1, <1>2, UnmarkedSent DEF Marks, RemovalAsked, RemovalReported
<1>4. SameView(n, p, c) /\ NoNewOffer(n, p, c)
  BY <1>1, <1>2, <1>3, SameCellState, ViewKept
<1> QED BY <1>4, QuietPair DEF radioVars

LEMMA ReservePairs ==
  ASSUME NEW n \in Node, NEW h, NEW m, NEW ms, Handling(n, h, m, ms), h \notin Derived,
         AllocateReservedSlots(n), UNCHANGED <<macVars, radioVars>>,
         NEW p \in Node \ {n}, NEW c \in Cell, Pair(n, p, c)
  PROVE  Pair(n, p, c)'
<1>1. /\ SceneOf(n, h, m, ms) /\ h = Head(bus[n]) /\ (ms = <<m>> => Causes(h, m))
      /\ ProtocolInv
  BY DEF Handling, Handles
<1>2. /\ bus[n] # <<>> /\ h.to = "AI" /\ h.type = "SET_BC_SLOTS"
      /\ grid' = [grid EXCEPT ![n] = SetSlotsReserved(@, Reserved)]
  BY <1>1 DEF AllocateReservedSlots, Addressed
<1>3. grid[n] = EmptyGrid /\ grid'[n] = SetSlotsReserved(grid[n], Reserved)
  BY <1>1, <1>2, ProtocolGrid
<1>4. /\ grid[n][c] = FreeInfo
      /\ grid'[n][c].state \in {"FREE", "RESERVED"} /\ grid'[n][c].removal = 0
  BY <1>3 DEF EmptyGrid, SetSlotsReserved, FreeInfo
<1>5. ~Marks(h) /\ (ms = <<m>> => ~Marks(m))
  BY <1>1, <1>2, UnmarkedSent DEF Marks, RemovalAsked, RemovalReported
<1>6. SameState(n, p, c)
  BY <1>4 DEF SameState, Sending, Listening, Offering, FreeInfo, RxUse
<1>7. grid[n][c].removal = 0
  BY <1>4 DEF FreeInfo
<1>8. SameView(n, p, c) /\ NoNewOffer(n, p, c)
  BY <1>1, <1>4, <1>5, <1>6, <1>7, ViewKept
<1> QED BY <1>8, QuietPair DEF radioVars

-----------------------------------------------------------------------------
(* Slots are proposed *)

(* What is proposed was free. *)
LEMMA ProposeShape ==
  ASSUME ProtocolInv, NEW n \in Node, ProposeSlots(n), NEW h, h = Head(bus[n]), NEW c \in Cell
  PROVE  /\ h.to = "AI" /\ h.type = "GET_PROPOSED" /\ h.mac \notin pendingTx[n]
         /\ \/ grid'[n][c] = grid[n][c]
            \/ /\ grid[n][c].state = "FREE"
               /\ grid'[n][c] = [state |-> "PROPOSED_TX", mac |-> h.mac, removal |-> 0]
<1>1. /\ h.to = "AI" /\ h.type = "GET_PROPOSED" /\ h.mac \notin pendingTx[n]
      /\ DOMAIN grid = Node
  BY ProtocolGrid DEF ProposeSlots, Addressed
<1>2. PICK choice \in TxChoices(n) :
        LET chosen == {d \in choice : IsSetPendingAllowed(grid[n], d, "PROPOSED_TX", h.mac)}
        IN  grid' = [grid EXCEPT ![n] = [d \in Cell |->
                          IF d \in chosen
                          THEN [state |-> "PROPOSED_TX", mac |-> h.mac, removal |-> 0]
                          ELSE @[d]]]
  BY DEF ProposeSlots
<1>3. PICK chosen : chosen = {d \in choice :
                                IsSetPendingAllowed(grid[n], d, "PROPOSED_TX", h.mac)}
  OBVIOUS
<1>4. grid'[n][c] = IF c \in chosen
                    THEN [state |-> "PROPOSED_TX", mac |-> h.mac, removal |-> 0]
                    ELSE grid[n][c]
  BY <1>1, <1>2, <1>3
<1>5. c \in chosen => grid[n][c].state = "FREE"
  BY <1>3 DEF IsSetPendingAllowed, IsSlotFree
<1> QED BY <1>1, <1>4, <1>5

LEMMA ProposePairs ==
  ASSUME NEW n \in Node, NEW h, NEW m, NEW ms, Handling(n, h, m, ms), h \notin Derived,
         ProposeSlots(n), UNCHANGED <<macVars, radioVars>>,
         NEW p \in Node \ {n}, NEW c \in Cell, Pair(n, p, c)
  PROVE  Pair(n, p, c)'
<1>1. /\ SceneOf(n, h, m, ms) /\ h = Head(bus[n]) /\ (ms = <<m>> => Causes(h, m))
      /\ ProtocolInv /\ ExchangeInv /\ RightAt(n) /\ queue'[n] = queue[n]
  BY DEF Handling, Handles, TablesInv, radioVars
<1>2. /\ h.to = "AI" /\ h.type = "GET_PROPOSED" /\ h.mac \notin pendingTx[n]
      /\ \/ grid'[n][c] = grid[n][c]
         \/ /\ grid[n][c].state = "FREE"
            /\ grid'[n][c] = [state |-> "PROPOSED_TX", mac |-> h.mac, removal |-> 0]
  BY <1>1, ProposeShape
<1>3. ~Marks(h) /\ (ms = <<m>> => ~Marks(m))
  BY <1>1, <1>2, UnmarkedSent DEF Marks, RemovalAsked, RemovalReported
<1>4. CASE grid'[n][c] = grid[n][c]
  <2>1. SameView(n, p, c) /\ NoNewOffer(n, p, c)
    BY <1>1, <1>3, <1>4, SameCellState, ViewKept
  <2> QED BY <1>1, <2>1, QuietPair
<1>5. CASE /\ grid[n][c].state = "FREE"
           /\ grid'[n][c] = [state |-> "PROPOSED_TX", mac |-> h.mac, removal |-> 0]
  <2>1. grid[n][c].removal = 0 /\ grid'[n][c].removal = 0
    BY <1>1, <1>5, UnusedUnmarked DEF Busy
  <2>2. /\ ~Sending(n, p, c) /\ ~Sending(n, p, c)' /\ ~Listening(n, p, c)
        /\ ~Listening(n, p, c)' /\ (h.mac # p => ~Offering(n, p, c)')
    BY <1>5 DEF Sending, Listening, Offering, RxUse
  <2>3. CASE h.mac # p
    <3>1. SameView(n, p, c) /\ NoNewOffer(n, p, c)
      BY <1>1, <1>3, <2>1, <2>2, <2>3, ViewKept DEF SameState
    <3> QED BY <1>1, <3>1, QuietPair
  <2>4. CASE h.mac = p
    <3>1. h \in Range(bus[n]) /\ h \in Message /\ h \in Early
      BY <1>1, <1>2 DEF SceneOf, Scene, Early
    <3>2. ~Hears(n, p, "REFUSED", c)
      <4>1. Range(bus[n]) \subseteq Message /\ Rest(bus[n]) \cap Answered = {} /\ h \notin Answered
            /\ Range(bus[n]) = Rest(bus[n]) \cup {h}
        BY <1>1, <1>2, <3>1 DEF SceneOf, Scene, Answered
      <4>2. \A x \in Range(bus[n]) : x \notin Answered
        BY <4>1
      <4> QED BY <4>1, <4>2 DEF Hears, Signals, Answered, Unicast
    <3>3. /\ Closing(n, p, c)' <=> Closing(n, p, c)
          /\ DueAt(n, p, c)' <=> DueAt(n, p, c)
      BY <1>1, <1>3, <2>1, ClosingKept
    <3>4. ~DueAt(n, p, c)
      <4>1. AskingRight(Range(bus[n]), grid[n], draining[n])
        BY <1>1 DEF RightAt, TablesRight
      <4>2. ~Settling(Range(bus[n]))
        BY <3>1 DEF Settling
      <4>3. ~Busy(grid[n], c)
        BY <1>5 DEF Busy
      <4> QED BY <4>1, <4>2, <4>3 DEF AskingRight, DueAt
    <3>5. Over(n, p)
      BY <1>1, <1>2, <2>4, <3>1 DEF ExchangeInv, Asked, RequestTo, Over
    <3>6. ~OnWay(n, p, "ADD_SLOT", c) /\ ~OnWay(p, n, "RESULT", c)
      <4>1. \A k \in {2, 3, 5, 6} : Underway(k, n, p) = {}
        BY <3>5 DEF Over, Stage
      <4> QED BY <4>1, StageOf DEF OnWay
    <3>7. ~Later(n, p, "ADD_SLOT", "DELETE", c) /\ ~Later(p, n, "RESULT", "DELETE", c)
      BY <3>6, LaterOnWay
    <3>8. /\ PeerKeeps(p, n, c) /\ FlightKeeps(p, n, c) /\ SameAnswers(n, p, c)
          /\ FlightKeeps(n, p, c)
      BY <1>1, QuietContext
    <3>9. OfferMade(n, p, c)
      BY <2>2, <3>2, <3>3, <3>4, <3>6, <3>7, <3>8 DEF OfferMade, SameView
    <3> QED BY <3>9, OfferMadeEnds
  <2> QED BY <2>3, <2>4
<1> QED BY <1>2, <1>4, <1>5

-----------------------------------------------------------------------------
(* A cell is marked, and one that was is freed *)

(* A handler that leaves the tail of its queue alone has sent nothing. *)
LEMMA NothingSent ==
  ASSUME NEW b, NEW m, NEW ms, IsSeq(b), b # <<>>, ms \in {<<>>, <<m>>},
         Tail(b) \o ms = Tail(b) \o <<>>
  PROVE  ms = <<>>
<1>1. PICK os : os = <<>>
  OBVIOUS
<1>2. ASSUME ms = <<m>> PROVE os = <<0>> /\ 0 = m
  <2>1. os \in {<<>>, <<0>>} /\ Tail(b) \o os = Tail(b) \o <<m>>
    BY <1>1, <1>2
  <2> QED
    BY <2>1, SameSent
<1>3. <<0>> # <<>>
  OBVIOUS
<1> QED
  BY <1>1, <1>2, <1>3

(* The statistics may make the slot selection mark a cell in use. *)
LEMMA StatsShape ==
  ASSUME ProtocolInv, InstantInv, NEW n \in Node, ProcessStats(n),
         NEW h, NEW m, NEW ms, Handles(n, h, m, ms)
  PROVE  /\ h.to = "AI" /\ h.type = "STATS"
         /\ \/ grid'[n] = grid[n] /\ ms = <<>>
            \/ /\ ms = <<m>>
               /\ \E due \in Cell :
                    /\ Busy(grid[n], due) /\ grid[n][due].removal = 0
                    /\ grid'[n][due].state = grid[n][due].state
                    /\ grid'[n][due].mac = grid[n][due].mac
                    /\ grid'[n][due].removal = nextId[n]
                    /\ \A c \in Cell \ {due} : grid'[n][c] = grid[n][c]
                    /\ m = [to |-> "MAC", type |-> "SET_REMOVAL", id |-> nextId[n],
                            mac |-> grid[n][due].mac, slot |-> due]
<1>1. PICK due \in Due(grid[n], n) :
        /\ grid' = [grid EXCEPT ![n] = MarkRemoval(@, due, nextId[n])]
        /\ Answers(n, RemovalRequest(grid[n], due, nextId[n]))
  BY DEF ProcessStats
<1>2. /\ h = Head(bus[n]) /\ h.to = "AI" /\ h.type = "STATS" /\ bus[n] # <<>>
      /\ ms \in {<<>>, <<m>>} /\ bus'[n] = Tail(bus[n]) \o ms
  BY DEF Handles, ProcessStats, Addressed
<1>3. /\ DOMAIN grid = Node /\ grid[n] \in Grid /\ nextId[n] \in Nat /\ DOMAIN bus = Node
      /\ IsSeq(bus[n])
  BY ProtocolGrid, ProtocolStation, ProtocolDomains DEF Domains
<1>4. grid'[n] = MarkRemoval(grid[n], due, nextId[n])
  BY <1>1, <1>3
<1>5. CASE due = NoSlot
  <2>1. grid'[n] = grid[n] /\ Answers(n, <<>>)
    BY <1>1, <1>4, <1>5 DEF MarkRemoval, RemovalRequest
  <2>2. ms = <<>>
    <3>1. Tail(bus[n]) \o ms = Tail(bus[n]) \o <<>>
      BY <1>2, <1>3, <2>1 DEF Answers
    <3> QED BY <1>2, <1>3, <3>1, NothingSent
  <2> QED BY <1>2, <2>1, <2>2
<1>6. CASE due # NoSlot
  <2>1. PICK o : o = [to |-> "MAC", type |-> "SET_REMOVAL", id |-> nextId[n],
                      mac |-> grid[n][due].mac, slot |-> due]
    OBVIOUS
  <2>2. Answers(n, <<o>>)
    BY <1>1, <1>6, <2>1 DEF RemovalRequest
  <2>3. Tail(bus[n]) \o ms = Tail(bus[n]) \o <<o>>
    BY <1>2, <1>3, <2>2 DEF Answers
  <2>4. ms = <<m>> /\ m = o
    BY <1>2, <1>3, <2>3, SameSent
  <2>5. /\ due \in Cell /\ Busy(grid[n], due) /\ grid[n][due].removal = 0
        /\ grid'[n][due].state = grid[n][due].state /\ grid'[n][due].mac = grid[n][due].mac
        /\ grid'[n][due].removal = nextId[n]
        /\ \A c \in Cell \ {due} : grid'[n][c] = grid[n][c]
    BY <1>3, <1>4, <1>6, DueMarked
  <2> QED BY <1>2, <2>1, <2>4, <2>5
<1> QED BY <1>5, <1>6

LEMMA StatsPairs ==
  ASSUME NEW n \in Node, NEW h, NEW m, NEW ms, Handling(n, h, m, ms), h \notin Derived,
         ProcessStats(n), UNCHANGED <<macVars, radioVars>>,
         NEW p \in Node \ {n}, NEW c \in Cell, Pair(n, p, c)
  PROVE  Pair(n, p, c)'
<1>1. /\ SceneOf(n, h, m, ms) /\ ProtocolInv /\ queue'[n] = queue[n]
      /\ Handles(n, h, m, ms) /\ InstantInv
  BY DEF Handling, radioVars
<1>2. /\ h.to = "AI" /\ h.type = "STATS"
      /\ \/ grid'[n] = grid[n] /\ ms = <<>>
         \/ /\ ms = <<m>>
            /\ \E due \in Cell :
                 /\ Busy(grid[n], due) /\ grid[n][due].removal = 0
                 /\ grid'[n][due].state = grid[n][due].state
                 /\ grid'[n][due].mac = grid[n][due].mac
                 /\ grid'[n][due].removal = nextId[n]
                 /\ \A d \in Cell \ {due} : grid'[n][d] = grid[n][d]
                 /\ m = [to |-> "MAC", type |-> "SET_REMOVAL", id |-> nextId[n],
                         mac |-> grid[n][due].mac, slot |-> due]
  BY <1>1, StatsShape
<1>3. CASE grid'[n] = grid[n] /\ ms = <<>>
  <2>1. ~Marks(h) /\ ms # <<m>>
    BY <1>2, <1>3 DEF Marks, RemovalAsked, RemovalReported
  <2>2. SameView(n, p, c) /\ NoNewOffer(n, p, c)
    BY <1>1, <1>3, <2>1, SameCellState, ViewKept
  <2> QED BY <1>1, <2>2, QuietPair
<1>4. CASE ms = <<m>> /\ ~(grid'[n] = grid[n] /\ ms = <<>>)
  <2>1. PICK due \in Cell :
          /\ Busy(grid[n], due) /\ grid[n][due].removal = 0
          /\ grid'[n][due].state = grid[n][due].state
          /\ grid'[n][due].mac = grid[n][due].mac
          /\ grid'[n][due].removal = nextId[n]
          /\ \A d \in Cell \ {due} : grid'[n][d] = grid[n][d]
          /\ m = [to |-> "MAC", type |-> "SET_REMOVAL", id |-> nextId[n],
                  mac |-> grid[n][due].mac, slot |-> due]
    BY <1>2, <1>4
  <2>2. /\ Range(bus[n]) = Rest(bus[n]) \cup {h}
        /\ Range(bus'[n]) = Rest(bus[n]) \cup {m}
        /\ \A x \in Rest(bus[n]) \cup {h} : OldId(x, nextId[n])
        /\ nextId[n] \in Nat
    BY <1>1, <1>4 DEF SceneOf, Scene, Onward, Sent
  <2>3. /\ ~RemovalReported(h) /\ ~RemovalAsked(h) /\ ~RemovalReported(m)
        /\ m.slot = due /\ m.mac = grid[n][due].mac
    BY <1>2, <2>1 DEF RemovalReported, RemovalAsked
  <2>4. /\ grid'[n][c].state = grid[n][c].state /\ grid'[n][c].mac = grid[n][c].mac
        /\ c # due => grid'[n][c] = grid[n][c]
    BY <2>1
  <2>5. /\ Sending(n, p, c)' <=> Sending(n, p, c)
        /\ Listening(n, p, c)' <=> Listening(n, p, c)
        /\ Offering(n, p, c)' <=> Offering(n, p, c)
    BY <2>4 DEF Sending, Listening, Offering
  <2>6. \A x : RemovalReported(x) => (x \in Range(bus'[n]) <=> x \in Range(bus[n]))
    BY <2>2, <2>3
  <2>7. \A x \in Range(bus[n]) : RemovalReported(x) => x.id # 0 /\ x.id # nextId[n]
    BY <2>2 DEF OldId
  <2>8. Closing(n, p, c)' <=> Closing(n, p, c)
    <3>1. CASE c = due
      BY <2>1, <2>6, <2>7, <3>1 DEF Closing, Ending
    <3>2. CASE c # due
      BY <2>4, <2>6, <3>2 DEF Closing, Ending
    <3> QED BY <3>1, <3>2
  <2>9. Offering(n, p, c)' /\ DueAt(n, p, c)' => DueAt(n, p, c)
    <3>1. Offering(n, p, c) => c # due
      BY <2>1 DEF Offering, Busy
    <3>2. c # due /\ DueAt(n, p, c)' => DueAt(n, p, c)
      BY <2>2, <2>3 DEF DueAt
    <3> QED BY <2>5, <3>1, <3>2
  <2>10. SameView(n, p, c) /\ NoNewOffer(n, p, c)
    BY <2>5, <2>8, <2>9 DEF SameView, NoNewOffer
  <2> QED BY <1>1, <2>10, QuietPair
<1> QED BY <1>2, <1>3, <1>4

(* The cells marked with the id of the MAC's answer are freed. *)
LEMMA ResponseShape ==
  ASSUME ProtocolInv, InstantInv, NEW n \in Node, ProcessSetResponse(n),
         NEW h, NEW m, NEW ms, Handles(n, h, m, ms)
  PROVE  /\ RemovalReported(h) /\ h.id # 0 /\ ms = <<>>
         /\ \A c \in Cell : IF grid[n][c].removal = h.id THEN grid'[n][c] = FreeInfo
                                                         ELSE grid'[n][c] = grid[n][c]
<1> DEFINE g == grid[n]  f == grid'[n]  R == removals[n]
<1>1. /\ h = Head(bus[n]) /\ bus[n] # <<>> /\ RemovalReported(h)
      /\ grid' = [grid EXCEPT ![n] = IF h.id \in R /\ h.result = "OK"
                                     THEN ExecutePendingRemoval(@, h.id) ELSE @]
      /\ Answers(n, <<>>)
      /\ ms \in {<<>>, <<m>>} /\ bus'[n] = Tail(bus[n]) \o ms
  BY DEF Handles, ProcessSetResponse, Addressed, RemovalReported
<1>2. h \in Message /\ h \in Range(bus[n])
  BY <1>1, HeadVowed
<1>3. h.id # 0
  <2>1. OldId(h, nextId[n])
    BY <1>2 DEF InstantInv, Accounted
  <2> QED BY <1>1, <2>1 DEF OldId
<1>4. h.result = "OK"
  BY <1>1, <1>2, <1>3, RadioMessageAssumption
     DEF RemovalReported, Message, ToAI, ToMac, MacRequest, GetProposed, GetSelected,
         SetAllocation, SetRemoval, SetExternalUsed, SetExternalFree, RemovalDone, Stats,
         SetBcSlots
<1>5. DOMAIN grid = Node /\ g \in Grid /\ Marked(g, R) /\ DOMAIN bus = Node /\ IsSeq(bus[n])
  BY ProtocolGrid, ProtocolDomains, ProtocolStation DEF Domains
<1>6. ms = <<>>
  <2>1. Tail(bus[n]) \o ms = Tail(bus[n]) \o <<>>
    BY <1>1, <1>5 DEF Answers
  <2> QED BY <1>1, <1>5, <2>1, NothingSent
<1>7. \A c \in Cell : IF g[c].removal = h.id THEN f[c] = FreeInfo ELSE f[c] = g[c]
  <2>1. CASE h.id \in R
    <3>1. First(RemovalCells(g, h.id)) = RemovalCells(g, h.id)
      BY <1>3, <1>5, FirstRemoval
    <3>2. f = ExecutePendingRemoval(g, h.id)
      BY <1>1, <1>4, <1>5, <2>1
    <3>3. f = FreeSlots(g, RemovalCells(g, h.id))
      BY <3>1, <3>2 DEF ExecutePendingRemoval
    <3> QED BY <3>3 DEF FreeSlots, RemovalCells
  <2>2. CASE h.id \notin R
    <3>1. f = g
      BY <1>1, <1>5, <2>2
    <3>2. \A c \in Cell : g[c].removal # h.id
      BY <1>3, <1>5, <2>2 DEF Marked
    <3> QED BY <3>1, <3>2
  <2> QED BY <2>1, <2>2
<1> QED BY <1>1, <1>3, <1>6, <1>7

LEMMA ResponsePairs ==
  ASSUME NEW n \in Node, NEW h, NEW m, NEW ms, Handling(n, h, m, ms), h \notin Derived,
         ProcessSetResponse(n), UNCHANGED <<macVars, radioVars>>,
         NEW p \in Node \ {n}, NEW c \in Cell, Pair(n, p, c)
  PROVE  Pair(n, p, c)'
<1>1. /\ SceneOf(n, h, m, ms) /\ ProtocolInv /\ queue'[n] = queue[n]
      /\ Handles(n, h, m, ms) /\ InstantInv
  BY DEF Handling, radioVars
<1>2. /\ RemovalReported(h) /\ h.id # 0 /\ ms = <<>>
      /\ IF grid[n][c].removal = h.id THEN grid'[n][c] = FreeInfo
                                      ELSE grid'[n][c] = grid[n][c]
  BY <1>1, ResponseShape
<1>3. /\ Range(bus[n]) = Rest(bus[n]) \cup {h}
      /\ Range(bus'[n]) = Rest(bus[n])
      /\ \A x \in Rest(bus[n]) \cup {h} : OldId(x, nextId[n])
  <2>1. Sent(m, ms) = {}
    BY <1>2 DEF Sent
  <2> QED BY <1>1, <2>1 DEF SceneOf, Scene, Onward
<1>4. DueAt(n, p, c)' => DueAt(n, p, c)
  BY <1>3 DEF DueAt
<1>5. CASE grid[n][c].removal # h.id
  <2>1. Closing(n, p, c)' <=> Closing(n, p, c)
    BY <1>2, <1>3, <1>5 DEF Closing, Ending
  <2>2. SameState(n, p, c)
    BY <1>2, <1>5, SameCellState
  <2>3. SameView(n, p, c) /\ NoNewOffer(n, p, c)
    BY <1>4, <2>1, <2>2 DEF SameView, NoNewOffer, SameState
  <2> QED BY <1>1, <2>3, QuietPair
<1>6. CASE grid[n][c].removal = h.id
  <2>1. Busy(grid[n], c)
    BY <1>1, <1>2, <1>6, UnusedUnmarked
  <2>2. grid'[n][c] = [state |-> "FREE", mac |-> NoMac, removal |-> 0]
    BY <1>2, <1>6 DEF FreeInfo
  <2>3. /\ ~Sending(n, p, c)' /\ ~Listening(n, p, c)' /\ ~Offering(n, p, c)'
        /\ ~Closing(n, p, c)'
    <3>1. grid'[n][c].state = "FREE" /\ grid'[n][c].mac # p
      BY <2>2, NoMacAssumption
    <3> QED BY <3>1 DEF Sending, Listening, Offering, Closing
  <2>4. /\ PeerKeeps(p, n, c) /\ FlightKeeps(p, n, c) /\ SameAnswers(n, p, c)
        /\ FlightKeeps(n, p, c)
    BY <1>1, QuietContext
  <2>5. CASE grid[n][c].mac = p
    <3>1. Closing(n, p, c)
      BY <1>2, <1>3, <1>6, <2>5 DEF Closing, Ending
    <3>2. Removed(n, p, c)
      BY <2>3, <2>4, <3>1 DEF Removed
    <3> QED BY <3>2, RemovedEnds
  <2>6. CASE grid[n][c].mac # p
    <3>1. ~Sending(n, p, c) /\ ~Listening(n, p, c) /\ ~Closing(n, p, c)
      BY <2>6 DEF Sending, Listening, Closing
    <3>2. SameView(n, p, c) /\ NoNewOffer(n, p, c)
      BY <2>3, <3>1 DEF SameView, NoNewOffer
    <3> QED BY <1>1, <3>2, QuietPair
  <2> QED BY <2>5, <2>6
<1> QED BY <1>5, <1>6

-----------------------------------------------------------------------------
(* The MAC handles a message that no packet brought *)

LEMMA MacContext ==
  ASSUME NEW n \in Node, NEW h, NEW m, NEW ms, Handling(n, h, m, ms), h \notin Derived,
         MacHandles(n), UNCHANGED gridVars, NEW p \in Node \ {n}, NEW c \in Cell
  PROVE  /\ PeerKeeps(p, n, c) /\ FlightKeeps(p, n, c) /\ SameAnswers(n, p, c)
         /\ FlightOf(n, h, p, c) /\ grid'[n] = grid[n]
<1>1. /\ PeerKeeps(p, n, c) /\ FlightKeeps(p, n, c) /\ SameAnswers(n, p, c)
      /\ \A k : Hears(p, n, k, c)' <=> Hears(p, n, k, c)
  BY PlainContext
<1>2. ProtocolInv /\ InstantInv /\ h = Head(bus[n])
  BY DEF Handling, Handles
<1>3. FlightOf(n, h, p, c)
  BY <1>1, <1>2, MacFlight
<1> QED BY <1>1, <1>3 DEF gridVars

(* Nothing is sent to p, and no removal ends or begins. *)
LEMMA MacSilent ==
  ASSUME NEW n \in Node, NEW h, NEW m, NEW ms, Handling(n, h, m, ms), h \notin Derived,
         MacHandles(n), UNCHANGED gridVars, h.to = "MAC", ~RemovalAsked(h),
         NEW p \in Node \ {n}, NEW c \in Cell, Pair(n, p, c),
         \A k \in Unicast : ~PostsTo(h, procedures[n], k, p, c)
  PROVE  Pair(n, p, c)'
<1>1. /\ PeerKeeps(p, n, c) /\ FlightKeeps(p, n, c) /\ SameAnswers(n, p, c)
      /\ FlightOf(n, h, p, c) /\ grid'[n] = grid[n]
  BY MacContext
<1>2. SceneOf(n, h, m, ms) /\ (ms = <<m>> => Causes(h, m))
  BY DEF Handling, Handles
<1>3. ~Marks(h) /\ (ms = <<m>> => ~Marks(m))
  BY <1>2, UnmarkedSent DEF Marks, RemovalReported
<1>4. SameView(n, p, c) /\ NoNewOffer(n, p, c)
  BY <1>1, <1>2, <1>3, SameCellState, ViewKept
<1>5. FlightKeeps(n, p, c)
  BY <1>1 DEF FlightOf
<1>6. Alike(n, p, c)
  BY <1>1, <1>4, <1>5 DEF Alike
<1> QED BY <1>1, <1>6, AlikePair

LEMMA PlainPosts ==
  ASSUME NEW h \in Message, h \notin Derived, NEW P, NEW p, NEW k, NEW c, PostsTo(h, P, k, p, c)
  PROVE  \/ k = "ADD_SLOT" /\ h.to = "MAC" /\ h.type = "GETR_PROPOSED" /\ h.mac = p
            /\ h.slots # {}
         \/ k = "DELETE" /\ RemovalAsked(h) /\ h.mac = p /\ h.slot = c
<1>1. ~Signals(h, P, p, "SELECTED", c) /\ ~Signals(h, P, p, "REFUSED", c)
  BY SignalsDerived
<1> QED BY <1>1 DEF PostsTo

LEMMA ProposalPairs ==
  ASSUME NEW n \in Node, NEW h, NEW m, NEW ms, Handling(n, h, m, ms), h \notin Derived,
         SendProposal(n), UNCHANGED gridVars,
         NEW p \in Node \ {n}, NEW c \in Cell, Pair(n, p, c)
  PROVE  Pair(n, p, c)'
<1>1. /\ SceneOf(n, h, m, ms) /\ h = Head(bus[n]) /\ (ms = <<m>> => Causes(h, m))
      /\ ExchangeInv /\ h \in Message /\ h \in Range(bus[n])
  BY DEF Handling, Handles, SceneOf, Scene
<1>2. h.to = "MAC" /\ h.type = "GETR_PROPOSED" /\ MacHandles(n)
  BY <1>1 DEF SendProposal, Addressed, MacHandles
<1>3. ~RemovalAsked(h)
  BY <1>2 DEF RemovalAsked
<1>4. CASE h.mac = p /\ h.slots # {}
  <2>1. /\ PeerKeeps(p, n, c) /\ FlightKeeps(p, n, c) /\ SameAnswers(n, p, c)
        /\ FlightOf(n, h, p, c) /\ grid'[n] = grid[n]
    BY <1>2, MacContext
  <2>2. ~Marks(h) /\ (ms = <<m>> => ~Marks(m))
    BY <1>1, <1>2, <1>3, UnmarkedSent DEF Marks, RemovalReported
  <2>3. SameView(n, p, c) /\ NoNewOffer(n, p, c)
    BY <1>1, <2>1, <2>2, SameCellState, ViewKept
  <2>4. FlightGets(n, p, "ADD_SLOT", c)
    BY <1>2, <1>4, <2>1 DEF FlightOf, PostsTo, Unicast
  <2>5. Underway(1, n, p) # {}
    <3>1. Bears(h, 1, p)
      BY <1>2, <1>4 DEF Bears
    <3>2. Told(h) \in Has(1, n, p)
      BY <1>1, <3>1 DEF Has, BusHas
    <3> QED BY <3>2 DEF Underway, Asking
  <2>6. Underway(2, n, p) = {} /\ Underway(3, n, p) = {}
    BY <1>1, <2>5, OneStage DEF Stage
  <2>7. ~OnWay(n, p, "ADD_SLOT", c)
    BY <2>6, StageOf DEF OnWay
  <2>8. ~Later(n, p, "ADD_SLOT", "DELETE", c)
    BY <2>7, LaterOnWay
  <2>9. OfferSent(n, p, c)
    BY <2>1, <2>3, <2>4, <2>7, <2>8 DEF OfferSent
  <2> QED BY <2>9, OfferSentEnds
<1>5. CASE ~(h.mac = p /\ h.slots # {})
  <2>1. \A k \in Unicast : ~PostsTo(h, procedures[n], k, p, c)
    BY <1>1, <1>3, <1>5, PlainPosts
  <2> QED BY <1>2, <1>3, <2>1, MacSilent
<1> QED BY <1>4, <1>5

(* The answer to the broadcast slots. *)
LEMMA AnswerPairs ==
  ASSUME NEW n \in Node, NEW h, NEW m, NEW ms, Handling(n, h, m, ms), h \notin Derived,
         FinishAllocation(n) \/ FinishRemoval(n) \/ FinishOther(n), UNCHANGED gridVars,
         NEW p \in Node \ {n}, NEW c \in Cell, Pair(n, p, c)
  PROVE  Pair(n, p, c)'
<1>1. h = Head(bus[n]) /\ h \in Message
  BY SMTT(30) DEF Handling, Handles, SceneOf, Scene
<1>2. h.to = "MAC" /\ h.type = "SETR" /\ MacHandles(n)
  BY <1>1 DEF FinishAllocation, FinishRemoval, FinishOther, Addressed, MacHandles
<1>3. ~RemovalAsked(h)
  BY <1>2 DEF RemovalAsked
<1>4. \A k \in Unicast : ~PostsTo(h, procedures[n], k, p, c)
  BY <1>1, <1>2, <1>3, PlainPosts
<1> QED BY <1>2, <1>3, <1>4, MacSilent

-----------------------------------------------------------------------------
(* The MAC removes a slot for its slot selection *)

LEMMA RemoveShape ==
  ASSUME NEW n \in Node, NEW h, NEW m, NEW ms, Handling(n, h, m, ms), RemoveForSelection(n)
  PROVE  /\ RemovalAsked(h) /\ ms = <<m>> /\ RemovalReported(m) /\ ~RemovalAsked(m)
         /\ m.id = h.id /\ h.id # 0 /\ h.slot \in Cell
         /\ \A d \in Cell : grid[n][d].removal = h.id => d = h.slot /\ grid[n][d].mac = h.mac
         /\ Busy(grid[n], h.slot) /\ grid[n][h.slot].mac = h.mac
              => grid[n][h.slot].removal = h.id
         /\ grid[n][h.slot].state # "PROPOSED_RX"
<1>1. /\ SceneOf(n, h, m, ms) /\ h = Head(bus[n]) /\ bus[n] # <<>> /\ ProtocolInv
      /\ ConfirmedInv /\ RightAt(n) /\ IsSeq(bus[n]) /\ DOMAIN bus = Node
      /\ ms \in {<<>>, <<m>>} /\ bus'[n] = Tail(bus[n]) \o ms
  BY ProtocolStation, ProtocolDomains DEF Handling, Handles, TablesInv, Domains
<1>2. /\ h.to = "MAC" /\ h.type = "SET_REMOVAL"
      /\ Answers(n, <<[to |-> "AI", type |-> "SETR", id |-> h.id, result |-> "OK"]>>)
  BY <1>1 DEF RemoveForSelection, Addressed
<1>3. ms = <<m>> /\ m = [to |-> "AI", type |-> "SETR", id |-> h.id, result |-> "OK"]
  <2>1. PICK o : o = [to |-> "AI", type |-> "SETR", id |-> h.id, result |-> "OK"]
    OBVIOUS
  <2>2. Tail(bus[n]) \o ms = Tail(bus[n]) \o <<o>>
    BY <1>1, <1>2, <2>1 DEF Answers
  <2> QED BY <1>1, <2>1, <2>2, SameSent
<1>4. RemovalAsked(h) /\ RemovalReported(m) /\ m.id = h.id /\ ~RemovalAsked(m)
  BY <1>2, <1>3 DEF RemovalAsked, RemovalReported
<1>5. h \in Message /\ h \in Range(bus[n]) /\ h.id # 0
  BY <1>1, <1>4 DEF SceneOf, Scene, OldId
<1>6. h.slot \in Cell
  BY <1>4, <1>5, MacMessage DEF RemovalAsked
<1>7. /\ \A d \in Cell : grid[n][d].removal = h.id => d = h.slot
      /\ \/ Busy(grid[n], h.slot) /\ grid[n][h.slot].mac = h.mac
            /\ grid[n][h.slot].removal = h.id
         \/ ~Busy(grid[n], h.slot) /\ Settling(Range(bus[n]))
  BY <1>1, <1>4, <1>5 DEF RightAt, TablesRight, AskingRight
<1>8. ~Busy(grid[n], h.slot) => grid[n][h.slot].removal = 0
  BY <1>1, <1>6, UnusedUnmarked
<1>9. grid[n][h.slot].state # "PROPOSED_RX"
  <2>1. SUFFICES ASSUME grid[n][h.slot].state = "PROPOSED_RX" PROVE FALSE
    OBVIOUS
  <2>2. ~Busy(grid[n], h.slot)
    BY <2>1 DEF Busy
  <2>3. Settling(Range(bus[n]))
    BY <1>7, <2>2
  <2>4. <<grid[n][h.slot].mac, h.slot>> \in Selections(bus[n])
    BY <1>1, <1>6, <2>1 DEF ConfirmedInv, Confirmed, SelectedCells
  <2>5. PICK i \in DOMAIN bus[n] : Confirms(bus[n][i])
    BY <2>4 DEF Selections
  <2>6. bus[n][i] \in Range(bus[n]) /\ bus[n][i] \in Message
    BY <1>1, <2>5 DEF SceneOf, Scene, Range
  <2>7. bus[n][i] \in Derived /\ bus[n][i] \notin Answered
    BY <2>5, <2>6 DEF Confirms, Derived, Answered
  <2> QED BY <2>3, <2>6, <2>7 DEF Settling
<1> QED BY <1>3, <1>4, <1>5, <1>6, <1>7, <1>8, <1>9

LEMMA RemovePairs ==
  ASSUME NEW n \in Node, NEW h, NEW m, NEW ms, Handling(n, h, m, ms), h \notin Derived,
         RemoveForSelection(n), UNCHANGED gridVars,
         NEW p \in Node \ {n}, NEW c \in Cell, Pair(n, p, c)
  PROVE  Pair(n, p, c)'
<1>1. /\ SceneOf(n, h, m, ms) /\ h \in Message /\ MacHandles(n)
  BY DEF Handling, SceneOf, Scene, MacHandles
<1>2. /\ RemovalAsked(h) /\ ms = <<m>> /\ RemovalReported(m) /\ ~RemovalAsked(m)
      /\ m.id = h.id /\ h.id # 0 /\ h.slot \in Cell
      /\ \A d \in Cell : grid[n][d].removal = h.id => d = h.slot /\ grid[n][d].mac = h.mac
      /\ Busy(grid[n], h.slot) /\ grid[n][h.slot].mac = h.mac
           => grid[n][h.slot].removal = h.id
      /\ grid[n][h.slot].state # "PROPOSED_RX"
  BY RemoveShape
<1>3. /\ PeerKeeps(p, n, c) /\ FlightKeeps(p, n, c) /\ SameAnswers(n, p, c)
      /\ FlightOf(n, h, p, c) /\ grid'[n] = grid[n]
  BY <1>1, MacContext
<1>4. /\ Range(bus[n]) = Rest(bus[n]) \cup {h} /\ Range(bus'[n]) = Rest(bus[n]) \cup {m}
  BY <1>1, <1>2 DEF SceneOf, Onward, Sent
<1>5. /\ Sending(n, p, c)' <=> Sending(n, p, c)
      /\ Listening(n, p, c)' <=> Listening(n, p, c)
      /\ Offering(n, p, c)' <=> Offering(n, p, c)
  BY <1>3 DEF Sending, Listening, Offering
<1>6. DueAt(n, p, c)' => DueAt(n, p, c)
  BY <1>2, <1>4 DEF DueAt
<1>7. NoNewOffer(n, p, c)
  BY <1>5, <1>6 DEF NoNewOffer
<1>8. CASE h.mac = p /\ h.slot = c
  <2>1. Sending(n, p, c) \/ Listening(n, p, c) => Closing(n, p, c)'
    <3>1. SUFFICES ASSUME Sending(n, p, c) \/ Listening(n, p, c) PROVE Closing(n, p, c)'
      OBVIOUS
    <3>2. Busy(grid[n], c) /\ grid[n][c].mac = p
      BY <1>2, <1>8, <3>1 DEF Sending, Listening, Busy, RxUse
    <3>3. grid[n][c].removal = h.id
      BY <1>2, <1>8, <3>2
    <3>4. Ending(Range(bus'[n]), grid'[n], c) /\ grid'[n][c].mac = p
      BY <1>2, <1>3, <1>4, <3>2, <3>3 DEF Ending
    <3> QED BY <3>4 DEF Closing
  <2>2. DueAt(n, p, c)
    BY <1>2, <1>4, <1>8 DEF DueAt
  <2>3. FlightGets(n, p, "DELETE", c)
    BY <1>2, <1>3, <1>8 DEF FlightOf, PostsTo, Unicast
  <2>4. RemovalSent(n, p, c)
    BY <1>3, <1>5, <1>7, <2>1, <2>2, <2>3 DEF RemovalSent
  <2> QED BY <2>4, RemovalSentEnds
<1>9. CASE ~(h.mac = p /\ h.slot = c)
  <2>1. \A k \in Unicast : ~PostsTo(h, procedures[n], k, p, c)
    BY <1>1, <1>2, <1>9, PlainPosts DEF RemovalAsked
  <2>2. Closing(n, p, c)' <=> Closing(n, p, c)
    <3>1. ~(m.id = grid[n][c].removal /\ grid[n][c].mac = p)
      BY <1>2, <1>9
    <3>2. ~RemovalReported(h)
      BY <1>2 DEF RemovalAsked, RemovalReported
    <3> QED BY <1>3, <1>4, <3>1, <3>2 DEF Closing, Ending
  <2>3. FlightKeeps(n, p, c)
    BY <1>3, <2>1 DEF FlightOf
  <2>4. Alike(n, p, c)
    BY <1>3, <1>5, <1>7, <2>2, <2>3 DEF Alike, SameView
  <2> QED BY <1>3, <2>4, AlikePair
<1> QED BY <1>8, <1>9

-----------------------------------------------------------------------------
(* A message that no packet brought *)
LEMMA PlainPairs ==
  ASSUME NEW n \in Node, NEW h, NEW m, NEW ms, Handling(n, h, m, ms), h \notin Derived,
         \/ MacHandles(n) /\ UNCHANGED gridVars
         \/ SelectionHandles(n) /\ UNCHANGED <<macVars, radioVars>>,
         NEW p \in Node \ {n}, NEW c \in Cell, Pair(n, p, c)
  PROVE  Pair(n, p, c)'
<1>1. h = Head(bus[n]) /\ h \in Message
  BY DEF Handling, Handles, SceneOf, Scene
<1>2. CASE MacHandles(n) /\ UNCHANGED gridVars
  <2>1. ~(\/ SendSelection(n) \/ ReceiveAddSlot(n) \/ ReceiveResult(n) \/ ReceiveDelete(n)
          \/ ReceiveAdvertisement(n) \/ ReceiveAckDelete(n))
    BY <1>1 DEF Derived, SendSelection, ReceiveAddSlot, ReceiveResult, ReceiveDelete,
                ReceiveAdvertisement, ReceiveAckDelete, Received, Addressed
  <2> QED BY <1>2, <2>1, ProposalPairs, RemovePairs, AnswerPairs DEF MacHandles
<1>3. CASE SelectionHandles(n) /\ UNCHANGED <<macVars, radioVars>>
  <2>1. ~(SelectSlot(n) \/ AllocateSlot(n) \/ RefuseAllocation(n) \/ RemoveSlot(n))
    BY <1>1 DEF Derived, SelectSlot, AllocateSlot, RefuseAllocation, RemoveSlot, Addressed
  <2> QED BY <1>3, <2>1, SameGridPairs, ReservePairs, ProposePairs, StatsPairs, ResponsePairs
          DEF SelectionHandles
<1> QED BY <1>2, <1>3

-----------------------------------------------------------------------------
(* A message that came of a packet is handled *)

(* What the station hears of p is in what it sends as it was in what it handles. *)
Relays(n, h, m, ms, p, c) ==
  /\ \A k \in {"RESULT", "DELETE", "SELECTED", "REFUSED"} :
       ms = <<m>> /\ Signals(m, procedures'[n], p, k, c) <=> Signals(h, procedures[n], p, k, c)
  /\ ms = <<m>> /\ Signals(m, procedures'[n], p, "ADD_SLOT", c)
       => Signals(h, procedures[n], p, "ADD_SLOT", c)

LEMMA RelayContext ==
  ASSUME NEW n \in Node, NEW h, NEW m, NEW ms, Handling(n, h, m, ms), h \in Derived,
         NEW p \in Node \ {n}, NEW c \in Cell, Relays(n, h, m, ms, p, c)
  PROVE  PeerKeeps(p, n, c) /\ SameAnswers(n, p, c) /\ FlightKeeps(p, n, c)
<1>1. PeerKeeps(p, n, c) /\ queue'[p] = queue[p] /\ Moves(n, h, m, ms, p, c)
  BY DerivedContext
<1>2. /\ \A k \in {"RESULT", "DELETE", "SELECTED", "REFUSED"} :
           Hears(n, p, k, c)' <=> Hears(n, p, k, c)
      /\ Hears(n, p, "ADD_SLOT", c)' => Hears(n, p, "ADD_SLOT", c)
  BY <1>1 DEF Moves, Relays
<1>3. FlightKeeps(p, n, c)
  BY <1>1, <1>2, HeardKeeps
<1> QED BY <1>1, <1>2, <1>3 DEF SameAnswers

LEMMA DerivedUnmarked ==
  ASSUME NEW n \in Node, NEW h, NEW m, NEW ms, Handling(n, h, m, ms), h \in Derived
  PROVE  /\ SceneOf(n, h, m, ms) /\ ~Marks(h) /\ (ms = <<m>> => ~Marks(m))
         /\ DrainFrom(n, h, m, ms)
<1>1. /\ SceneOf(n, h, m, ms) /\ (ms = <<m>> => Causes(h, m))
      /\ ProtocolInv /\ Handles(n, h, m, ms) /\ RightAt(n)
  BY DEF Handling, Handles, TablesInv
<1>2. ~Marks(h) /\ ~RemovalAsked(h) /\ ~(h.to = "AI" /\ h.type = "STATS")
  BY DEF Derived, Marks, RemovalAsked, RemovalReported
<1>3. ms = <<m>> => ~Marks(m)
  BY <1>1, <1>2, UnmarkedSent
<1> QED BY <1>1, <1>2, <1>3 DEF DrainFrom

LEMMA RelayPairs ==
  ASSUME NEW n \in Node, NEW h, NEW m, NEW ms, Handling(n, h, m, ms), h \in Derived,
         NEW p \in Node \ {n}, NEW c \in Cell, Relays(n, h, m, ms, p, c),
         SameView(n, p, c), NoNewOffer(n, p, c), FlightKeeps(n, p, c), Pair(n, p, c)
  PROVE  Pair(n, p, c)'
<1>1. PeerKeeps(p, n, c) /\ SameAnswers(n, p, c) /\ FlightKeeps(p, n, c)
  BY RelayContext
<1>2. Alike(n, p, c)
  BY <1>1 DEF Alike
<1> QED BY <1>1, <1>2, AlikePair

-----------------------------------------------------------------------------
(* The MAC handles it *)

LEMMA MacDerived ==
  ASSUME NEW n \in Node, NEW h, NEW m, NEW ms, Handling(n, h, m, ms), h \in Derived,
         MacHandles(n), UNCHANGED gridVars, NEW p \in Node \ {n}, NEW c \in Cell
  PROVE  /\ SameView(n, p, c) /\ NoNewOffer(n, p, c) /\ FlightOf(n, h, p, c)
         /\ PeerKeeps(p, n, c) /\ queue'[p] = queue[p] /\ Moves(n, h, m, ms, p, c)
<1>1. /\ PeerKeeps(p, n, c) /\ queue'[p] = queue[p] /\ Moves(n, h, m, ms, p, c)
      /\ \A k : Hears(p, n, k, c)' <=> Hears(p, n, k, c)
  BY DerivedContext
<1>2. SceneOf(n, h, m, ms) /\ ~Marks(h) /\ (ms = <<m>> => ~Marks(m))
  BY DerivedUnmarked
<1>3. grid'[n] = grid[n] /\ ProtocolInv /\ InstantInv /\ h = Head(bus[n])
  BY DEF Handling, Handles, gridVars
<1>4. SameView(n, p, c) /\ NoNewOffer(n, p, c)
  BY <1>2, <1>3, SameCellState, ViewKept
<1>5. FlightOf(n, h, p, c)
  BY <1>1, <1>3, MacFlight
<1> QED BY <1>1, <1>4, <1>5

LEMMA MacRelays ==
  ASSUME NEW n \in Node, NEW h, NEW m, NEW ms, Handling(n, h, m, ms), h \in Derived,
         MacHandles(n), UNCHANGED gridVars, NEW p \in Node \ {n}, NEW c \in Cell,
         Relays(n, h, m, ms, p, c), \A k \in Unicast : ~PostsTo(h, procedures[n], k, p, c),
         Pair(n, p, c)
  PROVE  Pair(n, p, c)'
<1>1. SameView(n, p, c) /\ NoNewOffer(n, p, c) /\ FlightOf(n, h, p, c)
  BY MacDerived
<1>2. FlightKeeps(n, p, c)
  BY <1>1 DEF FlightOf
<1> QED BY <1>1, <1>2, RelayPairs

(* A packet is received. *)
LEMMA ReceivedRelays ==
  ASSUME NEW n \in Node, NEW h, NEW m, NEW ms, Handling(n, h, m, ms), h \in Derived,
         \/ ReceiveAddSlot(n) \/ ReceiveResult(n) \/ ReceiveDelete(n)
         \/ ReceiveAdvertisement(n) \/ ReceiveAckDelete(n),
         NEW p \in Node \ {n}, NEW c \in Cell
  PROVE  h.type = "RECEIVE" /\ Relays(n, h, m, ms, p, c)
<1>1. /\ h = Head(bus[n]) /\ h \in Range(bus[n]) /\ DrainFrom(n, h, m, ms) /\ PeersAt(n)
      /\ ms \in {<<>>, <<m>>} /\ (ms = <<m>> => Causes(h, m))
  BY DerivedUnmarked DEF Handling, Handles, SceneOf, PeersInv
<1>2. h.to = "MAC" /\ h.type = "RECEIVE"
  BY <1>1 DEF ReceiveAddSlot, ReceiveResult, ReceiveDelete, ReceiveAdvertisement,
              ReceiveAckDelete, Received, Addressed
<1>3. Pinned(h.packet)
  BY <1>1, <1>2 DEF PeersAt, Foreign
<1>4. \A P, k : Signals(h, P, p, k, c)
        <=> /\ k \in Unicast /\ h.src = p /\ h.packet.type = k
            /\ k = "ADD_SLOT" \/ h.packet.slots = {c}
  BY <1>2 DEF Signals, Brought
<1>5. CASE ReceiveAddSlot(n)
  <2>1. PICK o : o = [to |-> "AI", type |-> "GET_SELECTED", id |-> 0,
                      mac |-> h.src, slots |-> h.packet.slots]
    OBVIOUS
  <2>2. h.packet.type = "ADD_SLOT" /\ Answers(n, <<o>>)
    BY <1>1, <1>5, <2>1 DEF ReceiveAddSlot, Received
  <2>3. ms = <<m>> /\ m = o
    BY <1>1, <2>2, DrainSends
  <2>4. \A P, k : Signals(m, P, p, k, c) <=> k = "ADD_SLOT" /\ h.src = p
    BY <2>1, <2>3 DEF Signals
  <2> QED BY <1>2, <1>4, <2>2, <2>4 DEF Relays, Unicast
<1>6. CASE ReceiveResult(n)
  <2>1. PICK d \in h.packet.slots : SetSlotAllocation(n, h.src, "TX", d)
    BY <1>1, <1>6 DEF ReceiveResult
  <2>2. h.packet.type = "RESULT"
    BY <1>1, <1>6 DEF ReceiveResult, Received
  <2>3. h.packet.slots = {d}
    BY <1>3, <2>1, <2>2 DEF Pinned
  <2>4. PICK o : o = [to |-> "AI", type |-> "SET_ALLOCATION", id |-> nextId[n],
                      mac |-> h.src, mode |-> "TX", slot |-> d]
    OBVIOUS
  <2>5. ms = <<m>> /\ m = o
    BY <1>1, <2>1, <2>4, DrainSends DEF SetSlotAllocation
  <2>6. \A P, k : Signals(m, P, p, k, c) <=> k = "RESULT" /\ h.src = p /\ d = c
    BY <2>4, <2>5 DEF Signals
  <2>7. h.packet.slots = {c} <=> d = c
    BY <2>3
  <2> QED BY <1>2, <1>4, <2>2, <2>5, <2>6, <2>7 DEF Relays, Unicast
<1>7. CASE ReceiveDelete(n)
  <2>1. PICK d \in h.packet.slots : SetSlotRemoval(n, h.src, d)
    BY <1>1, <1>7 DEF ReceiveDelete
  <2>2. h.packet.type = "DELETE"
    BY <1>1, <1>7 DEF ReceiveDelete, Received
  <2>3. h.packet.slots = {d}
    BY <1>3, <2>1, <2>2 DEF Pinned
  <2>4. PICK o : o = [to |-> "AI", type |-> "SET_REMOVAL", id |-> nextId[n],
                      mac |-> h.src, slot |-> d]
    OBVIOUS
  <2>5. ms = <<m>> /\ m = o
    BY <1>1, <2>1, <2>4, DrainSends DEF SetSlotRemoval
  <2>6. \A P, k : Signals(m, P, p, k, c) <=> k = "DELETE" /\ h.src = p /\ d = c
    BY <2>4, <2>5 DEF Signals
  <2>7. h.packet.slots = {c} <=> d = c
    BY <2>3
  <2> QED BY <1>2, <1>4, <2>2, <2>5, <2>6, <2>7 DEF Relays, Unicast
<1>8. CASE ReceiveAdvertisement(n) \/ ReceiveAckDelete(n)
  <2>1. h.packet.type \in {"ADVERTISE", "ACK_ADD", "ACK_DELETE"}
    BY <1>1, <1>8 DEF ReceiveAdvertisement, ReceiveAckDelete, Received
  <2>2. ms = <<m>> => m.to = "AI" /\ m.type \in {"SET_EXTERNAL_USED", "SET_EXTERNAL_FREE"}
    BY <1>1, <1>2, <2>1 DEF Causes, RemovalAsked
  <2>3. \A P, k : ms = <<m>> => ~Signals(m, P, p, k, c)
    BY <2>2 DEF Signals
  <2>4. \A P, k : ~Signals(h, P, p, k, c)
    BY <1>4, <2>1 DEF Unicast
  <2> QED BY <1>2, <2>3, <2>4 DEF Relays
<1> QED BY <1>5, <1>6, <1>7, <1>8

LEMMA ReceivedPairs ==
  ASSUME NEW n \in Node, NEW h, NEW m, NEW ms, Handling(n, h, m, ms), h \in Derived,
         \/ ReceiveAddSlot(n) \/ ReceiveResult(n) \/ ReceiveDelete(n)
         \/ ReceiveAdvertisement(n) \/ ReceiveAckDelete(n), UNCHANGED gridVars,
         NEW p \in Node \ {n}, NEW c \in Cell, Pair(n, p, c)
  PROVE  Pair(n, p, c)'
<1>1. h.type = "RECEIVE" /\ Relays(n, h, m, ms, p, c)
  BY ReceivedRelays
<1>2. MacHandles(n)
  BY DEF MacHandles
<1>3. \A k \in Unicast : ~PostsTo(h, procedures[n], k, p, c)
  BY <1>1 DEF PostsTo, Signals, Unicast, RemovalAsked
<1> QED BY <1>1, <1>2, <1>3, MacRelays

-----------------------------------------------------------------------------
(* The result of a selection is sent *)

(* A cell with no removal is not closing. *)
LEMMA UnmarkedOpen ==
  ASSUME NEW n \in Node, NEW h, NEW m, NEW ms, SceneOf(n, h, m, ms), NEW p, NEW c,
         grid[n][c].removal = 0
  PROVE  ~Closing(n, p, c)
<1>1. /\ Range(bus[n]) = Rest(bus[n]) \cup {h}
      /\ \A x \in Rest(bus[n]) \cup {h} : OldId(x, nextId[n])
  BY DEF SceneOf, Scene
<1>2. \A x \in Range(bus[n]) : RemovalReported(x) => x.id # 0
  BY <1>1 DEF OldId
<1> QED BY <1>2 DEF Closing, Ending

LEMMA SelectionShape ==
  ASSUME NEW n \in Node, NEW h, NEW m, NEW ms, Handling(n, h, m, ms), SendSelection(n)
  PROVE  /\ h \in Derived /\ h.to = "MAC" /\ h.type = "GETR_SELECTED"
         /\ \A P, p, k, c : ms = <<m>> => ~Signals(m, P, p, k, c)
         /\ h.slot # NoSlot => /\ h.slot \in Cell /\ grid[n][h.slot].state = "PROPOSED_RX"
                               /\ grid[n][h.slot].mac = h.mac
<1>1. /\ h = Head(bus[n]) /\ h \in Message /\ bus[n] # <<>> /\ ConfirmedInv /\ IsSeq(bus[n])
      /\ (ms = <<m>> => Causes(h, m))
  BY ProtocolStation DEF Handling, Handles, SceneOf, Scene
<1>2. h.to = "MAC" /\ h.type = "GETR_SELECTED" /\ h \in Derived
  BY <1>1 DEF SendSelection, Addressed, Derived
<1>3. ms = <<m>> => m.to = "AI" /\ m.type = "SET_ALLOCATION" /\ m.mode = "RX"
  BY <1>1, <1>2 DEF Causes, RemovalAsked
<1>4. ASSUME h.slot # NoSlot
      PROVE  /\ h.slot \in Cell /\ grid[n][h.slot].state = "PROPOSED_RX"
             /\ grid[n][h.slot].mac = h.mac
  <2>1. Confirms(h) /\ 1 \in DOMAIN bus[n] /\ bus[n][1] = h
    BY <1>1, <1>2, <1>4 DEF Confirms, IsSeq
  <2>2. <<h.mac, h.slot>> \in Selections(bus[n])
    BY <2>1 DEF Selections
  <2>3. <<h.mac, h.slot>> \in SelectedCells(grid[n])
    BY <1>1, <2>2 DEF ConfirmedInv, Confirmed
  <2> QED BY <2>3 DEF SelectedCells
<1> QED BY <1>2, <1>3, <1>4 DEF Signals

LEMMA SelectionPairs ==
  ASSUME NEW n \in Node, NEW h, NEW m, NEW ms, Handling(n, h, m, ms),
         SendSelection(n), UNCHANGED gridVars,
         NEW p \in Node \ {n}, NEW c \in Cell, Pair(n, p, c)
  PROVE  Pair(n, p, c)'
<1>1. /\ h \in Derived /\ h.to = "MAC" /\ h.type = "GETR_SELECTED" /\ MacHandles(n)
      /\ \A P, q, k, d : ms = <<m>> => ~Signals(m, P, q, k, d)
      /\ h.slot # NoSlot => /\ h.slot \in Cell /\ grid[n][h.slot].state = "PROPOSED_RX"
                            /\ grid[n][h.slot].mac = h.mac
  BY SelectionShape DEF MacHandles
<1>2. \A P, k : Signals(h, P, p, k, c) <=> k = "SELECTED" /\ h.mac = p /\ h.slot = c
  BY <1>1 DEF Signals, Brought
<1>3. CASE h.mac = p /\ h.slot = c
  <2>1. SceneOf(n, h, m, ms) /\ ProtocolInv /\ ExchangeInv /\ grid'[n] = grid[n]
    BY DEF Handling, gridVars
  <2>2. /\ SameView(n, p, c) /\ NoNewOffer(n, p, c) /\ FlightOf(n, h, p, c)
        /\ PeerKeeps(p, n, c) /\ queue'[p] = queue[p] /\ Moves(n, h, m, ms, p, c)
    BY <1>1, MacDerived
  <2>3. grid[n][c].state = "PROPOSED_RX" /\ grid[n][c].mac = p
    BY <1>1, <1>3, NoSlotCell
  <2>4. /\ Listening(n, p, c) /\ ~Sending(n, p, c) /\ ~Offering(n, p, c)'
    BY <2>1, <2>3 DEF Listening, Sending, Offering, RxUse
  <2>5. ~Closing(n, p, c)
    <3>1. grid[n][c].removal = 0
      BY <2>1, <2>3, UnusedUnmarked DEF Busy
    <3> QED BY <2>1, <3>1, UnmarkedOpen
  <2>6. \A k : (Hears(n, p, k, c) <=> k = "SELECTED") /\ ~Hears(n, p, k, c)'
    BY <1>1, <1>2, <1>3, <2>2 DEF Moves
  <2>7. FlightGets(n, p, "RESULT", c)
    BY <1>2, <1>3, <2>2 DEF FlightOf, PostsTo, Unicast
  <2>8. Underway(5, p, n) = {} /\ Underway(6, p, n) = {}
    <3>1. Underway(4, p, n) # {}
      BY <2>6, StageOf
    <3> QED BY <2>1, <3>1, OneStage DEF Stage
  <2>9. ~OnWay(n, p, "RESULT", c)
    BY <2>8, StageOf DEF OnWay
  <2>10. ~Later(n, p, "RESULT", "DELETE", c) /\ ~Later(n, p, "RESULT", "ADD_SLOT", c)
    BY <2>9, LaterOnWay
  <2>11. FlightKeeps(p, n, c)
    BY <2>2, <2>6, HeardKeeps
  <2>12. ResultSent(n, p, c)
    BY <2>2, <2>4, <2>5, <2>6, <2>7, <2>9, <2>10, <2>11 DEF ResultSent
  <2> QED BY <2>12, ResultSentEnds
<1>4. CASE ~(h.mac = p /\ h.slot = c)
  <2>1. \A P, k : ~Signals(h, P, p, k, c)
    BY <1>2, <1>4
  <2>2. Relays(n, h, m, ms, p, c)
    BY <1>1, <2>1 DEF Relays
  <2>3. \A k \in Unicast : ~PostsTo(h, procedures[n], k, p, c)
    BY <1>1, <2>1 DEF PostsTo, RemovalAsked
  <2> QED BY <1>1, <2>2, <2>3, MacRelays
<1> QED BY <1>3, <1>4

-----------------------------------------------------------------------------
(* The MAC has the answer of its slot selection *)

LEMMA FinishPairs ==
  ASSUME NEW n \in Node, NEW h, NEW m, NEW ms, Handling(n, h, m, ms), h \in Derived,
         FinishAllocation(n) \/ FinishRemoval(n) \/ FinishOther(n), UNCHANGED gridVars,
         NEW p \in Node \ {n}, NEW c \in Cell, Pair(n, p, c)
  PROVE  Pair(n, p, c)'
<1>1. h = Head(bus[n]) /\ DrainFrom(n, h, m, ms) /\ MacHandles(n)
  BY DerivedUnmarked, SMTT(30) DEF Handling, Handles, MacHandles
<1>2. h.to = "MAC" /\ h.type = "SETR" /\ Answers(n, <<>>)
  BY <1>1 DEF FinishAllocation, FinishRemoval, FinishOther, Addressed
<1>3. ms # <<m>>
  <2>1. ms = <<>>
    BY <1>1, <1>2, DrainSilent
  <2>2. <<>> # <<m>>
    OBVIOUS
  <2> QED BY <2>1, <2>2
<1>4. \A P, k : Signals(h, P, p, k, c) => k = "REFUSED"
  BY <1>2 DEF Signals, Brought
<1>5. CASE Signals(h, procedures[n], p, "REFUSED", c)
  <2>1. /\ SameView(n, p, c) /\ NoNewOffer(n, p, c) /\ FlightOf(n, h, p, c)
        /\ PeerKeeps(p, n, c) /\ queue'[p] = queue[p] /\ Moves(n, h, m, ms, p, c)
    BY <1>1, MacDerived
  <2>2. \A k : (Hears(n, p, k, c) <=> k = "REFUSED") /\ ~Hears(n, p, k, c)'
    BY <1>3, <1>4, <1>5, <2>1 DEF Moves
  <2>3. FlightGets(n, p, "DELETE", c)
    BY <1>5, <2>1 DEF FlightOf, PostsTo, Unicast
  <2>4. FlightKeeps(p, n, c)
    BY <2>1, <2>2, HeardKeeps
  <2>5. RefusalSent(n, p, c)
    BY <2>1, <2>2, <2>3, <2>4 DEF RefusalSent
  <2> QED BY <2>5, RefusalSentEnds
<1>6. CASE ~Signals(h, procedures[n], p, "REFUSED", c)
  <2>1. \A k : ~Signals(h, procedures[n], p, k, c)
    BY <1>4, <1>6
  <2>2. Relays(n, h, m, ms, p, c)
    BY <1>3, <2>1 DEF Relays
  <2>3. \A k \in Unicast : ~PostsTo(h, procedures[n], k, p, c)
    BY <1>2, <2>1 DEF PostsTo, RemovalAsked
  <2> QED BY <1>1, <2>2, <2>3, MacRelays
<1> QED BY <1>5, <1>6

LEMMA MacDerivedPairs ==
  ASSUME NEW n \in Node, NEW h, NEW m, NEW ms, Handling(n, h, m, ms), h \in Derived,
         MacHandles(n), UNCHANGED gridVars,
         NEW p \in Node \ {n}, NEW c \in Cell, Pair(n, p, c)
  PROVE  Pair(n, p, c)'
<1>1. h = Head(bus[n])
  BY DEF Handling, Handles
<1>2. ~SendProposal(n) /\ ~RemoveForSelection(n)
  BY <1>1 DEF Derived, SendProposal, RemoveForSelection, Addressed
<1> QED BY <1>2, ReceivedPairs, SelectionPairs, FinishPairs DEF MacHandles

-----------------------------------------------------------------------------
(* The slot selection handles a message that came of a packet *)

LEMMA SelectionContext ==
  ASSUME NEW n \in Node, NEW h, NEW m, NEW ms, Handling(n, h, m, ms), h \in Derived,
         UNCHANGED <<macVars, radioVars>>, NEW p \in Node \ {n}, NEW c \in Cell
  PROVE  /\ PeerKeeps(p, n, c) /\ FlightKeeps(n, p, c) /\ queue'[p] = queue[p]
         /\ Moves(n, h, m, ms, p, c) /\ procedures'[n] = procedures[n]
<1>1. /\ PeerKeeps(p, n, c) /\ queue'[p] = queue[p] /\ Moves(n, h, m, ms, p, c)
      /\ \A k : Hears(p, n, k, c)' <=> Hears(p, n, k, c)
  BY DerivedContext
<1>2. queue'[n] = queue[n] /\ procedures'[n] = procedures[n]
  BY DEF macVars, radioVars
<1>3. FlightKeeps(n, p, c)
  BY <1>1, <1>2, SilentFlight
<1> QED BY <1>1, <1>2, <1>3

(* Nothing changes between n and p. *)
LEMMA RelayedCell ==
  ASSUME NEW n \in Node, NEW h, NEW m, NEW ms, Handling(n, h, m, ms), h \in Derived,
         UNCHANGED <<macVars, radioVars>>, NEW p \in Node \ {n}, NEW c \in Cell,
         Relays(n, h, m, ms, p, c), SameState(n, p, c),
         \/ grid'[n][c] = grid[n][c]
         \/ grid[n][c].removal = 0 /\ grid'[n][c].removal = 0
         \/ grid[n][c].mac # p /\ grid'[n][c].mac # p,
         Pair(n, p, c)
  PROVE  Pair(n, p, c)'
<1>1. SceneOf(n, h, m, ms) /\ ~Marks(h) /\ (ms = <<m>> => ~Marks(m))
  BY DerivedUnmarked
<1>2. SameView(n, p, c) /\ NoNewOffer(n, p, c)
  BY <1>1, ViewKept
<1>3. FlightKeeps(n, p, c)
  BY SelectionContext
<1> QED BY <1>2, <1>3, RelayPairs

-----------------------------------------------------------------------------
(* A slot is selected *)

LEMMA ChoiceShape ==
  ASSUME NEW n \in Node, NEW h, NEW m, NEW ms, Handling(n, h, m, ms), SelectSlot(n)
  PROVE  /\ h \in Derived /\ h.to = "AI" /\ h.type = "GET_SELECTED" /\ h \in Range(bus[n])
         /\ ms = <<m>> /\ m.to = "MAC" /\ m.type = "GETR_SELECTED" /\ m.mac = h.mac
         /\ \A c \in Cell :
              \/ grid'[n][c] = grid[n][c] /\ m.slot # c
              \/ /\ m.slot = c /\ c \in h.slots /\ grid[n][c].state = "FREE"
                 /\ grid'[n][c] = [state |-> "PROPOSED_RX", mac |-> h.mac, removal |-> 0]
<1>1. /\ h = Head(bus[n]) /\ h \in Message /\ bus[n] # <<>> /\ ProtocolInv
      /\ DOMAIN grid = Node /\ grid[n] \in Grid /\ h \in Range(bus[n])
  BY ProtocolGrid DEF Handling, Handles, SceneOf, Scene
<1>2. h.to = "AI" /\ h.type = "GET_SELECTED" /\ h \in Derived
  BY <1>1 DEF SelectSlot, Addressed, Derived
<1>3. DrainFrom(n, h, m, ms)
  BY <1>2, DerivedUnmarked
<1>4. PICK candidates : candidates = RxCandidates(n, h.slots)
  OBVIOUS
<1>5. PICK z \in IF candidates = {} THEN {NoSlot} ELSE candidates :
        /\ grid' = [grid EXCEPT ![n] =
                      IF z # NoSlot /\ IsSetPendingAllowed(grid[n], z, "PROPOSED_RX", h.mac)
                      THEN SetSlotPending(@, z, "PROPOSED_RX", h.mac) ELSE @]
        /\ Answers(n, <<[to |-> "MAC", type |-> "GETR_SELECTED", id |-> h.id, mac |-> h.mac,
                         slot |-> IF /\ z # NoSlot
                                     /\ IsSetPendingAllowed(grid[n], z, "PROPOSED_RX", h.mac)
                                  THEN z ELSE NoSlot]>>)
  BY <1>1, <1>4 DEF SelectSlot
<1>6. PICK o : o = [to |-> "MAC", type |-> "GETR_SELECTED", id |-> h.id, mac |-> h.mac,
                    slot |-> IF /\ z # NoSlot
                                /\ IsSetPendingAllowed(grid[n], z, "PROPOSED_RX", h.mac)
                             THEN z ELSE NoSlot]
  OBVIOUS
<1>7. ms = <<m>> /\ m = o
  BY <1>3, <1>5, <1>6, DrainSends
<1>8. z # NoSlot => z \in h.slots
  BY <1>4, <1>5 DEF RxCandidates
<1>9. CASE z # NoSlot /\ IsSetPendingAllowed(grid[n], z, "PROPOSED_RX", h.mac)
  <2>1. m.slot = z
    BY <1>6, <1>7, <1>9
  <2>2. grid[n][z].state = "FREE"
    BY <1>9 DEF IsSetPendingAllowed, IsSlotAvailableRX, IsSlotFree
  <2>3. grid'[n] = [grid[n] EXCEPT ![z] =
                      [state |-> "PROPOSED_RX", mac |-> h.mac, removal |-> 0]]
    BY <1>1, <1>5, <1>9 DEF SetSlotPending
  <2>4. \A c \in Cell : /\ c = z => grid'[n][c] =
                                      [state |-> "PROPOSED_RX", mac |-> h.mac, removal |-> 0]
                        /\ c # z => grid'[n][c] = grid[n][c]
    BY <1>1, <2>3 DEF Grid
  <2> QED BY <1>1, <1>2, <1>6, <1>7, <1>8, <1>9, <2>1, <2>2, <2>4
<1>10. CASE ~(z # NoSlot /\ IsSetPendingAllowed(grid[n], z, "PROPOSED_RX", h.mac))
  <2>1. m.slot = NoSlot
    BY <1>6, <1>7, <1>10
  <2>2. grid'[n] = grid[n]
    BY <1>1, <1>5, <1>10
  <2> QED BY <1>1, <1>2, <1>6, <1>7, <2>1, <2>2, NoSlotCell
<1> QED BY <1>9, <1>10

LEMMA ChoicePairs ==
  ASSUME NEW n \in Node, NEW h, NEW m, NEW ms, Handling(n, h, m, ms),
         SelectSlot(n), UNCHANGED <<macVars, radioVars>>,
         NEW p \in Node \ {n}, NEW c \in Cell, Pair(n, p, c)
  PROVE  Pair(n, p, c)'
<1>1. /\ h \in Derived /\ h.to = "AI" /\ h.type = "GET_SELECTED" /\ h \in Range(bus[n])
      /\ ms = <<m>> /\ m.to = "MAC" /\ m.type = "GETR_SELECTED" /\ m.mac = h.mac
      /\ \/ grid'[n][c] = grid[n][c] /\ m.slot # c
         \/ /\ m.slot = c /\ c \in h.slots /\ grid[n][c].state = "FREE"
            /\ grid'[n][c] = [state |-> "PROPOSED_RX", mac |-> h.mac, removal |-> 0]
  BY ChoiceShape
<1>2. \A P, k : /\ Signals(h, P, p, k, c) <=> k = "ADD_SLOT" /\ h.mac = p
                /\ Signals(m, P, p, k, c) <=> k = "SELECTED" /\ h.mac = p /\ m.slot = c
  BY <1>1 DEF Signals, Brought
<1>3. CASE grid'[n][c] = grid[n][c] /\ m.slot # c
  <2>1. Relays(n, h, m, ms, p, c)
    BY <1>2, <1>3 DEF Relays
  <2> QED BY <1>1, <1>3, <2>1, SameCellState, RelayedCell
<1>4. CASE /\ m.slot = c /\ c \in h.slots /\ grid[n][c].state = "FREE"
           /\ grid'[n][c] = [state |-> "PROPOSED_RX", mac |-> h.mac, removal |-> 0]
  <2>1. /\ SceneOf(n, h, m, ms) /\ ~Marks(h) /\ (ms = <<m>> => ~Marks(m))
        /\ ProtocolInv /\ ExchangeInv
    BY <1>1, DerivedUnmarked DEF Handling
  <2>2. grid[n][c].removal = 0 /\ grid'[n][c].removal = 0
    BY <1>4, <2>1, UnusedUnmarked DEF Busy
  <2>3. CASE h.mac # p
    <3>1. Relays(n, h, m, ms, p, c)
      BY <1>2, <2>3 DEF Relays
    <3>2. SameState(n, p, c)
      BY <1>4, <2>3 DEF SameState, Sending, Listening, Offering, RxUse
    <3> QED BY <1>1, <2>2, <3>1, <3>2, RelayedCell
  <2>4. CASE h.mac = p
    <3>1. /\ PeerKeeps(p, n, c) /\ FlightKeeps(n, p, c) /\ queue'[p] = queue[p]
          /\ Moves(n, h, m, ms, p, c)
      BY <1>1, SelectionContext
    <3>2. /\ ~Sending(n, p, c) /\ ~Listening(n, p, c) /\ ~Sending(n, p, c)'
          /\ Listening(n, p, c)' /\ ~Offering(n, p, c)'
      BY <1>4, <2>4 DEF Sending, Listening, Offering, RxUse
    <3>3. ~Closing(n, p, c) /\ ~Closing(n, p, c)'
      BY <2>1, <2>2, UnmarkedOpen, ClosingKept
    <3>4. \A k : /\ Hears(n, p, k, c) <=> k = "ADD_SLOT"
                 /\ Hears(n, p, k, c)' <=> k = "SELECTED"
      BY <1>1, <1>2, <1>4, <2>4, <3>1 DEF Moves
    <3>5. FlightEnds(p, n, "ADD_SLOT", c)
      BY <3>1, <3>4, HeardEnds DEF Unicast
    <3>6. h.slots \in Underway(3, p, n)
      <4>1. Bears(h, 3, p) /\ Told(h) = h.slots
        BY <1>1, <2>4 DEF Bears, Told
      <4> QED BY <1>1, <4>1 DEF Underway, Asking, Has, BusHas
    <3>7. ~Sending(p, n, c)
      <4>1. Untold(p, n)
        BY <2>1 DEF ExchangeInv
      <4>2. ~TxCell(grid[p], c, n)
        BY <1>4, <3>6, <4>1 DEF Untold, Stage
      <4> QED BY <4>2 DEF TxCell, Sending
    <3>8. /\ Underway(2, p, n) = {} /\ Underway(5, p, n) = {} /\ Underway(6, p, n) = {}
      BY <2>1, <3>6, OneStage DEF Stage
    <3>9. ~OnWay(n, p, "RESULT", c)
      BY <3>8, StageOf DEF OnWay
    <3>10. ~Later(p, n, "RESULT", "ADD_SLOT", c)
      <4>1. ~Waits(queue[p], n, "ADD_SLOT", c)
        BY <3>8, StageOf
      <4>2. ~Behind(queue[p], n, "RESULT", "ADD_SLOT", c)
        BY <4>1, BehindWaits
      <4> QED BY <3>4, <4>2 DEF Later
    <3>11. Chosen(n, p, c)
      BY <3>1, <3>2, <3>3, <3>4, <3>5, <3>7, <3>9, <3>10 DEF Chosen
    <3> QED BY <3>11, ChosenEnds
  <2> QED BY <2>3, <2>4
<1> QED BY <1>1, <1>3, <1>4

-----------------------------------------------------------------------------
(* A slot is allocated *)

LEMMA GrantShape ==
  ASSUME NEW n \in Node, NEW h, NEW m, NEW ms, Handling(n, h, m, ms), AllocateSlot(n)
  PROVE  /\ h \in Derived /\ h.to = "AI" /\ h.type = "SET_ALLOCATION" /\ h \in Range(bus[n])
         /\ h.mode \in Mode /\ h.slot \in Cell /\ h.mac \in Node
         /\ m.to = "MAC" /\ m.type = "SETR" /\ m.result = "OK"
         /\ grid[n][h.slot].mac = h.mac
         /\ \/ h.mode = "TX" /\ grid[n][h.slot].state = "PROPOSED_TX"
            \/ h.mode = "RX" /\ grid[n][h.slot].state = "PROPOSED_RX"
         /\ grid'[n][h.slot] = [state |-> h.mode, mac |-> h.mac, removal |-> 0]
         /\ \A c \in Cell \ {h.slot} :
              \/ grid'[n][c] = grid[n][c]
              \/ grid[n][c].state = "PROPOSED_TX" /\ grid'[n][c] = FreeInfo
<1>1. /\ h = Head(bus[n]) /\ h \in Message /\ bus[n] # <<>> /\ ProtocolInv
      /\ DOMAIN grid = Node /\ grid[n] \in Grid /\ h \in Range(bus[n])
      /\ InstantInv /\ ConfirmedInv /\ ExchangeInv
  BY ProtocolGrid DEF Handling, Handles, SceneOf, Scene
<1>2. /\ h.to = "AI" /\ h.type = "SET_ALLOCATION" /\ h \in Derived
      /\ h.mac \in Node /\ h.mode \in Mode /\ h.slot \in Cell
  BY <1>1, AllocationFinds DEF AllocateSlot, Addressed, Derived
<1>3. DrainFrom(n, h, m, ms)
  BY <1>2, DerivedUnmarked
<1>4. m.to = "MAC" /\ m.type = "SETR" /\ m.result = "OK"
  <2>1. PICK o : o = SetR(h.id, TRUE)
    OBVIOUS
  <2>2. Answers(n, <<o>>)
    BY <1>1, <2>1 DEF AllocateSlot
  <2>3. m = o
    BY <1>3, <2>2, DrainSends
  <2> QED BY <2>1, <2>3 DEF SetR
<1>5. Taken(n, h, grid[n], grid'[n])
  BY <1>1, AllocationTakes
<1>6. ~Busy(grid[n], h.slot) /\
      grid'[n][h.slot] = [state |-> h.mode, mac |-> h.mac, removal |-> 0]
  BY <1>5 DEF Taken
<1>7. PICK g : g = IF AlreadyAllocated(n, h) THEN grid[n]
                   ELSE SetSlotAllocated(grid[n], h.slot, h.mode, h.mac)
  OBVIOUS
<1>8. /\ \/ h.mode = "TX" /\ grid'[n] = AbortTXProposals(g, {h.mac})
         \/ h.mode = "RX" /\ grid'[n] = g
      /\ AlreadyAllocated(n, h) \/ NewlyAllocated(n, h)
  BY <1>1, <1>7 DEF AllocateSlot
<1>9. ~AlreadyAllocated(n, h)
  BY <1>6 DEF AlreadyAllocated, IsSlotAllocatedFor, IsSlotAllocated, Busy
<1>10. IsSetAllocatedAllowed(grid[n], h.slot, h.mode, h.mac)
  BY <1>8, <1>9 DEF NewlyAllocated
<1>11. /\ g \in Grid /\ \A c \in Cell : c # h.slot => g[c] = grid[n][c]
       /\ g[h.slot] = [state |-> h.mode, mac |-> h.mac, removal |-> 0]
  <2>1. g = SetSlotAllocated(grid[n], h.slot, h.mode, h.mac)
    BY <1>7, <1>9
  <2>2. grid[n] \in Grid /\ h.slot \in Cell /\ h.mode \in Mode /\ h.mac \in Node
    BY <1>1, <1>2
  <2> QED BY <1>10, <2>1, <2>2, AllocatedShape
<1>12. \A c \in Cell : \/ grid'[n][c] = g[c]
                       \/ g[c].state = "PROPOSED_TX" /\ grid'[n][c] = FreeInfo
  <2>1. CASE h.mode = "RX"
    BY <1>8, <2>1
  <2>2. CASE h.mode = "TX"
    <3>1. {h.mac} \in SUBSET Node /\ grid'[n] = AbortTXProposals(g, {h.mac})
      BY <1>2, <1>8, <2>2
    <3> QED
      BY <1>11, <3>1, AbortTXShape
  <2> QED
    BY <1>2, <2>1, <2>2 DEF Mode
<1>13. \A c \in Cell \ {h.slot} :
         \/ grid'[n][c] = grid[n][c]
         \/ grid[n][c].state = "PROPOSED_TX" /\ grid'[n][c] = FreeInfo
  BY <1>11, <1>12
<1> QED BY <1>1, <1>2, <1>4, <1>6, <1>10, <1>13 DEF IsSetAllocatedAllowed

(* The result that a station acts on was the only one on its way. *)
LEMMA LastResult ==
  ASSUME ExchangeInv, NEW n \in Node, NEW p \in Node, NEW c \in Cell,
         queue'[p] = queue[p], Hears(n, p, "RESULT", c), ~Hears(n, p, "RESULT", c)'
  PROVE  ~OnWay(p, n, "RESULT", c)'
<1>1. Underway(6, n, p) # {}
  BY StageOf
<1>2. Underway(5, n, p) = {}
  BY <1>1, OneStage DEF Stage
<1>3. ~Waits(queue[p], n, "RESULT", c)
  BY <1>2, StageOf
<1> QED BY <1>3 DEF OnWay

LEMMA GrantPairs ==
  ASSUME NEW n \in Node, NEW h, NEW m, NEW ms, Handling(n, h, m, ms),
         AllocateSlot(n), UNCHANGED <<macVars, radioVars>>,
         NEW p \in Node \ {n}, NEW c \in Cell, Pair(n, p, c)
  PROVE  Pair(n, p, c)'
<1>1. /\ h \in Derived /\ h.to = "AI" /\ h.type = "SET_ALLOCATION"
      /\ h.mode \in Mode /\ h.slot \in Cell
      /\ m.to = "MAC" /\ m.type = "SETR" /\ m.result = "OK"
      /\ grid[n][h.slot].mac = h.mac
      /\ \/ h.mode = "TX" /\ grid[n][h.slot].state = "PROPOSED_TX"
         \/ h.mode = "RX" /\ grid[n][h.slot].state = "PROPOSED_RX"
      /\ grid'[n][h.slot] = [state |-> h.mode, mac |-> h.mac, removal |-> 0]
      /\ \A d \in Cell \ {h.slot} :
           \/ grid'[n][d] = grid[n][d]
           \/ grid[n][d].state = "PROPOSED_TX" /\ grid'[n][d] = FreeInfo
  BY GrantShape
<1>2. \A P, k : /\ Signals(h, P, p, k, c)
                     <=> k = "RESULT" /\ h.mode = "TX" /\ h.mac = p /\ h.slot = c
                /\ ~Signals(m, P, p, k, c)
  BY <1>1 DEF Signals, Brought
<1>3. SceneOf(n, h, m, ms) /\ ~Marks(h) /\ (ms = <<m>> => ~Marks(m)) /\ ProtocolInv /\ ExchangeInv
  BY <1>1, DerivedUnmarked DEF Handling
<1>4. CASE h.slot # c
  <2>1. Relays(n, h, m, ms, p, c)
    BY <1>2, <1>4 DEF Relays
  <2>2. CASE grid'[n][c] = grid[n][c]
    BY <1>1, <2>1, <2>2, SameCellState, RelayedCell
  <2>3. CASE grid[n][c].state = "PROPOSED_TX" /\ grid'[n][c] = FreeInfo
    <3>1. grid[n][c].removal = 0 /\ grid'[n][c].removal = 0
      BY <1>3, <2>3, UnusedUnmarked DEF Busy, FreeInfo
    <3>2. SameState(n, p, c)
      BY <2>3 DEF SameState, Sending, Listening, Offering, RxUse, FreeInfo
    <3> QED BY <1>1, <2>1, <3>1, <3>2, RelayedCell
  <2> QED BY <1>1, <1>4, <2>2, <2>3
<1>5. CASE h.slot = c
  <2>1. grid[n][c].removal = 0 /\ grid'[n][c].removal = 0
    BY <1>1, <1>3, <1>5, UnusedUnmarked DEF Busy
  <2>2. CASE h.mac # p \/ h.mode = "RX"
    <3>1. Relays(n, h, m, ms, p, c)
      BY <1>2, <2>2 DEF Relays
    <3>2. SameState(n, p, c)
      BY <1>1, <1>5, <2>2 DEF SameState, Sending, Listening, Offering, RxUse
    <3> QED BY <1>1, <2>1, <3>1, <3>2, RelayedCell
  <2>3. CASE h.mac = p /\ h.mode = "TX"
    <3>1. /\ PeerKeeps(p, n, c) /\ FlightKeeps(n, p, c) /\ queue'[p] = queue[p]
          /\ Moves(n, h, m, ms, p, c)
      BY <1>1, SelectionContext
    <3>2. /\ Offering(n, p, c) /\ ~Offering(n, p, c)' /\ Sending(n, p, c)' /\ ~Listening(n, p, c)'
      BY <1>1, <1>5, <2>3 DEF Sending, Listening, Offering, RxUse
    <3>3. ~Closing(n, p, c)'
      BY <1>3, <2>1, UnmarkedOpen, ClosingKept
    <3>4. \A k : (Hears(n, p, k, c) <=> k = "RESULT") /\ ~Hears(n, p, k, c)'
      BY <1>2, <1>5, <2>3, <3>1 DEF Moves
    <3>5. FlightEnds(p, n, "RESULT", c)
      BY <3>1, <3>4, HeardEnds DEF Unicast
    <3>6. ~OnWay(p, n, "RESULT", c)'
      BY <1>3, <3>1, <3>4, LastResult
    <3>7. Granted(n, p, c)
      BY <3>1, <3>2, <3>3, <3>4, <3>5, <3>6 DEF Granted
    <3> QED BY <3>7, GrantedEnds
  <2> QED BY <1>1, <2>2, <2>3 DEF Mode
<1> QED BY <1>4, <1>5

-----------------------------------------------------------------------------
(* An allocation is refused *)

LEMMA RefusalShape ==
  ASSUME NEW n \in Node, NEW h, NEW m, NEW ms, Handling(n, h, m, ms), RefuseAllocation(n),
         UNCHANGED <<macVars, radioVars>>
  PROVE  /\ h \in Derived /\ h.to = "AI" /\ h.type = "SET_ALLOCATION" /\ h.mode = "TX"
         /\ h.slot \in Cell /\ h.mac \in Node /\ grid'[n] = grid[n]
         /\ ms = <<m>> /\ m.to = "MAC" /\ m.type = "SETR" /\ m.result = "NOK"
         /\ m.id # 0 /\ m.id \in DOMAIN procedures[n] /\ procedures'[n] = procedures[n]
         /\ procedures[n][m.id] =
              [set |-> "ALLOCATION", mode |-> "TX", mac |-> h.mac, slot |-> h.slot]
         /\ ~TxCell(grid[n], h.slot, h.mac)
         /\ ~(grid[n][h.slot].state = "PROPOSED_TX" /\ grid[n][h.slot].mac = h.mac)
<1>1. /\ h = Head(bus[n]) /\ bus[n] # <<>> /\ ProtocolInv
      /\ InstantInv /\ ConfirmedInv /\ ConfirmedInv' /\ ExchangeInv
  BY DEF Handling, Handles
<1>2. /\ h \in Message /\ h \in Range(bus[n]) /\ Vowed(procedures[n], h)
      /\ Awaited(h) => h.id \in DOMAIN procedures[n]
  BY <1>1, HeadVowed
<1>3. /\ h.to = "AI" /\ h.type = "SET_ALLOCATION" /\ h \in Derived
      /\ h.mac \in Node /\ h.mode \in Mode /\ h.slot \in Cell
  BY <1>1, <1>2, AllocationFinds DEF RefuseAllocation, Addressed, Derived
<1>4. DrainFrom(n, h, m, ms)
  BY <1>3, DerivedUnmarked
<1>5. ms = <<m>> /\ m.to = "MAC" /\ m.type = "SETR" /\ m.result = "NOK" /\ m.id = h.id
  <2>1. PICK o : o = SetR(h.id, FALSE)
    OBVIOUS
  <2>2. Answers(n, <<o>>)
    BY <1>1, <2>1 DEF RefuseAllocation
  <2>3. ms = <<m>> /\ m = o
    BY <1>4, <2>2, DrainSends
  <2> QED BY <2>1, <2>3 DEF SetR
<1>6. procedures'[n] = procedures[n] /\ grid'[n] = grid[n]
  BY DEF macVars, RefuseAllocation, gridVars
<1>7. procedures[n][h.id] =
        [set |-> "ALLOCATION", mode |-> h.mode, mac |-> h.mac, slot |-> h.slot]
  BY <1>2, <1>3 DEF Vowed
<1>8. h.id # 0 /\ h.id \in DOMAIN procedures[n]
  <2>1. h.id \in DOMAIN procedures[n]
    BY <1>2, <1>3 DEF Awaited
  <2>2. ZeroKept(procedures[n])
    BY <1>1 DEF InstantInv, Accounted
  <2> QED BY <1>7, <2>1, <2>2 DEF ZeroKept
<1>9. h.mode = "TX"
  <2>1. m \in Range(bus'[n])
    BY <1>4, <1>5 DEF DrainFrom, SceneOf, Onward, Sent
  <2>2. Promised(procedures'[n], m)
    BY <1>1, <2>1 DEF ConfirmedInv, Confirmed, Range
  <2> QED BY <1>5, <1>6, <1>7, <2>2 DEF Promised
<1>10. ~TxCell(grid[n], h.slot, h.mac)
  <2>1. Bears(h, 6, h.mac) /\ Told(h) = {h.slot}
    BY <1>3, <1>9 DEF Bears, Told
  <2>2. Told(h) \in Underway(6, n, h.mac)
    BY <1>2, <2>1 DEF Underway, Asking, Has, BusHas
  <2>3. 6 \in Stage /\ Untold(n, h.mac)
    BY <1>1, <1>3 DEF ExchangeInv, Stage
  <2> QED BY <1>3, <2>1, <2>2, <2>3 DEF Untold
<1>11. ~(grid[n][h.slot].state = "PROPOSED_TX" /\ grid[n][h.slot].mac = h.mac)
  <2>1. ~NewlyAllocated(n, h)
    BY <1>1 DEF RefuseAllocation
  <2>2. Offered(grid[n], pendingTx[n])
    BY <1>1, StationAssumption DEF ProtocolInv, IInv, Books
  <2> QED BY <1>3, <1>9, <2>1, <2>2 DEF NewlyAllocated, IsSetAllocatedAllowed, Offered
<1> QED BY <1>3, <1>5, <1>6, <1>7, <1>8, <1>9, <1>10, <1>11

LEMMA RefusalPairs ==
  ASSUME NEW n \in Node, NEW h, NEW m, NEW ms, Handling(n, h, m, ms),
         RefuseAllocation(n), UNCHANGED <<macVars, radioVars>>,
         NEW p \in Node \ {n}, NEW c \in Cell, Pair(n, p, c)
  PROVE  Pair(n, p, c)'
<1>1. /\ h \in Derived /\ h.to = "AI" /\ h.type = "SET_ALLOCATION" /\ h.mode = "TX"
      /\ grid'[n] = grid[n]
      /\ ms = <<m>> /\ m.to = "MAC" /\ m.type = "SETR" /\ m.result = "NOK"
      /\ m.id # 0 /\ m.id \in DOMAIN procedures[n] /\ procedures'[n] = procedures[n]
      /\ procedures[n][m.id] =
           [set |-> "ALLOCATION", mode |-> "TX", mac |-> h.mac, slot |-> h.slot]
      /\ ~TxCell(grid[n], h.slot, h.mac)
      /\ ~(grid[n][h.slot].state = "PROPOSED_TX" /\ grid[n][h.slot].mac = h.mac)
  BY RefusalShape
<1>2. \A k : /\ Signals(h, procedures[n], p, k, c) <=> k = "RESULT" /\ h.mac = p /\ h.slot = c
             /\ Signals(m, procedures'[n], p, k, c)
                  <=> k = "REFUSED" /\ h.mac = p /\ h.slot = c
  BY <1>1 DEF Signals, Brought
<1>3. CASE ~(h.mac = p /\ h.slot = c)
  <2>1. Relays(n, h, m, ms, p, c)
    BY <1>2, <1>3 DEF Relays
  <2> QED BY <1>1, <2>1, SameCellState, RelayedCell
<1>4. CASE h.mac = p /\ h.slot = c
  <2>1. /\ PeerKeeps(p, n, c) /\ FlightKeeps(n, p, c) /\ queue'[p] = queue[p]
        /\ Moves(n, h, m, ms, p, c)
    BY <1>1, SelectionContext
  <2>2. SceneOf(n, h, m, ms) /\ ~Marks(h) /\ (ms = <<m>> => ~Marks(m)) /\ ExchangeInv
    BY <1>1, DerivedUnmarked DEF Handling
  <2>3. SameView(n, p, c)
    BY <1>1, <2>2, SameCellState, ViewKept
  <2>4. ~Sending(n, p, c) /\ ~Offering(n, p, c)'
    BY <1>1, <1>4 DEF TxCell, Sending, Offering
  <2>5. \A k : /\ Hears(n, p, k, c) <=> k = "RESULT"
               /\ Hears(n, p, k, c)' <=> k = "REFUSED"
    BY <1>1, <1>2, <1>4, <2>1 DEF Moves
  <2>6. FlightEnds(p, n, "RESULT", c)
    BY <2>1, <2>5, HeardEnds DEF Unicast
  <2>7. ~OnWay(p, n, "RESULT", c)'
    BY <2>1, <2>2, <2>5, LastResult
  <2>8. Refused(n, p, c)
    BY <2>1, <2>3, <2>4, <2>5, <2>6, <2>7 DEF Refused
  <2> QED BY <2>8, RefusedEnds
<1> QED BY <1>3, <1>4

-----------------------------------------------------------------------------
(* A slot is removed for the peer *)

LEMMA DropShape ==
  ASSUME NEW n \in Node, NEW h, NEW m, NEW ms, Handling(n, h, m, ms), RemoveSlot(n),
         UNCHANGED <<macVars, radioVars>>
  PROVE  /\ h \in Derived /\ h.to = "AI" /\ h.type = "SET_REMOVAL" /\ h.slot \in Cell
         /\ \A p, k, c : ms = <<m>> => ~Signals(m, procedures'[n], p, k, c)
         /\ \A c \in Cell : grid[n][c].state # "PROPOSED_RX"
         /\ \A c \in Cell \ {h.slot} : grid'[n][c] = grid[n][c]
         /\ \/ /\ grid'[n][h.slot] = grid[n][h.slot]
               /\ ~(Busy(grid[n], h.slot) /\ grid[n][h.slot].mac = h.mac)
            \/ /\ grid'[n][h.slot] = FreeInfo
               /\ Busy(grid[n], h.slot) /\ grid[n][h.slot].mac = h.mac
<1>1. /\ h = Head(bus[n]) /\ bus[n] # <<>> /\ ProtocolInv /\ SceneOf(n, h, m, ms)
      /\ InstantInv /\ ConfirmedInv /\ DOMAIN grid = Node /\ grid[n] \in Grid
      /\ (ms = <<m>> => Causes(h, m))
  BY ProtocolGrid DEF Handling, Handles
<1>2. h \in Message /\ Vowed(procedures[n], h)
  BY <1>1, HeadVowed
<1>3. h.to = "AI" /\ h.type = "SET_REMOVAL" /\ h \in Derived
  BY <1>1, <1>2 DEF RemoveSlot, Addressed, Derived
<1>4. h.slot \in Cell
  BY <1>2, <1>3, AIMessage
<1>5. procedures[n][h.id] = [set |-> "REMOVAL", mac |-> h.mac, slot |-> h.slot]
      /\ procedures'[n] = procedures[n]
  BY <1>2, <1>3 DEF Vowed, macVars
<1>6. ms = <<m>> => m.to = "MAC" /\ m.type = "SETR" /\ m.id = h.id
  BY <1>1, <1>3 DEF Causes, RemovalAsked
<1>7. ASSUME NEW p, NEW k, NEW c, ms = <<m>> PROVE ~Signals(m, procedures'[n], p, k, c)
  <2>1. procedures'[n][m.id].set = "REMOVAL"
    BY <1>5, <1>6, <1>7
  <2>2. procedures'[n][m.id] # [set |-> "ALLOCATION", mode |-> "TX", mac |-> p, slot |-> c]
    BY <2>1
  <2> QED BY <1>6, <1>7, <2>2 DEF Signals, Brought
<1>8. ASSUME NEW c \in Cell, grid[n][c].state = "PROPOSED_RX" PROVE FALSE
  <2>1. <<grid[n][c].mac, c>> \in Selections(bus[n])
    BY <1>1, <1>8 DEF ConfirmedInv, Confirmed, SelectedCells
  <2>2. PICK i \in DOMAIN bus[n] : Confirms(bus[n][i])
    BY <2>1 DEF Selections
  <2>3. bus[n][i] \in Rest(bus[n]) \cup {h} /\ bus[n][i] \in Message
    BY <1>1, <2>2 DEF SceneOf, Scene, Range
  <2>4. bus[n][i] \in Derived
    BY <2>2, <2>3 DEF Confirms, Derived
  <2>5. bus[n][i] = h
    BY <1>1, <1>3, <2>3, <2>4 DEF SceneOf, Scene
  <2> QED BY <1>3, <2>2, <2>5 DEF Confirms
<1>9. PICK ok : ok = IsSlotAllocatedFor(grid[n], h.slot, h.mac)
  OBVIOUS
<1>10. ok <=> Busy(grid[n], h.slot) /\ grid[n][h.slot].mac = h.mac
  BY <1>9 DEF IsSlotAllocatedFor, IsSlotAllocated, Busy
<1>11. grid'[n] = IF ok THEN FreeSlots(grid[n], {h.slot}) ELSE grid[n]
  BY <1>1, <1>9 DEF RemoveSlot
<1>12. CASE ok
  <2>1. \A c \in Cell : grid'[n][c] = IF c = h.slot THEN FreeInfo ELSE grid[n][c]
    BY <1>11, <1>12 DEF FreeSlots
  <2> QED BY <1>3, <1>4, <1>7, <1>8, <1>10, <1>12, <2>1
<1>13. CASE ~ok
  <2>1. grid'[n] = grid[n]
    BY <1>11, <1>13
  <2> QED BY <1>3, <1>4, <1>7, <1>8, <1>10, <1>13, <2>1
<1> QED BY <1>12, <1>13

LEMMA DropPairs ==
  ASSUME NEW n \in Node, NEW h, NEW m, NEW ms, Handling(n, h, m, ms),
         RemoveSlot(n), UNCHANGED <<macVars, radioVars>>,
         NEW p \in Node \ {n}, NEW c \in Cell, Pair(n, p, c)
  PROVE  Pair(n, p, c)'
<1>1. /\ h \in Derived /\ h.to = "AI" /\ h.type = "SET_REMOVAL" /\ h.slot \in Cell
      /\ \A q, k, d : ms = <<m>> => ~Signals(m, procedures'[n], q, k, d)
      /\ \A d \in Cell : grid[n][d].state # "PROPOSED_RX"
      /\ \A d \in Cell \ {h.slot} : grid'[n][d] = grid[n][d]
      /\ \/ /\ grid'[n][h.slot] = grid[n][h.slot]
            /\ ~(Busy(grid[n], h.slot) /\ grid[n][h.slot].mac = h.mac)
         \/ /\ grid'[n][h.slot] = FreeInfo
            /\ Busy(grid[n], h.slot) /\ grid[n][h.slot].mac = h.mac
  BY DropShape
<1>2. \A k : Signals(h, procedures[n], p, k, c) <=> k = "DELETE" /\ h.mac = p /\ h.slot = c
  BY <1>1 DEF Signals, Brought
<1>3. p # NoMac
  BY NoMacAssumption
<1>4. CASE ~(h.mac = p /\ h.slot = c)
  <2>1. Relays(n, h, m, ms, p, c)
    BY <1>1, <1>2, <1>4 DEF Relays
  <2>2. CASE grid'[n][c] = grid[n][c]
    BY <1>1, <2>1, <2>2, SameCellState, RelayedCell
  <2>3. CASE grid'[n][c] # grid[n][c]
    <3>1. h.slot = c /\ h.mac # p /\ grid'[n][c] = FreeInfo /\ grid[n][c].mac = h.mac
      BY <1>1, <1>4, <2>3
    <3>2. grid[n][c].mac # p /\ grid'[n][c].mac # p
      BY <1>3, <3>1 DEF FreeInfo
    <3>3. SameState(n, p, c)
      BY <3>2 DEF SameState, Sending, Listening, Offering
    <3> QED BY <1>1, <2>1, <3>2, <3>3, RelayedCell
  <2> QED BY <2>2, <2>3
<1>5. CASE h.mac = p /\ h.slot = c
  <2>1. /\ PeerKeeps(p, n, c) /\ FlightKeeps(n, p, c) /\ queue'[p] = queue[p]
        /\ Moves(n, h, m, ms, p, c)
    BY <1>1, SelectionContext
  <2>2. SceneOf(n, h, m, ms) /\ ~Marks(h) /\ (ms = <<m>> => ~Marks(m))
    BY <1>1, DerivedUnmarked
  <2>3. \A k : (Hears(n, p, k, c) <=> k = "DELETE") /\ ~Hears(n, p, k, c)'
    BY <1>1, <1>2, <1>5, <2>1 DEF Moves
  <2>4. FlightEnds(p, n, "DELETE", c)
    BY <2>1, <2>3, HeardEnds DEF Unicast
  <2>5. SameAnswers(n, p, c)
    BY <2>3 DEF SameAnswers
  <2>6. /\ ~Sending(n, p, c)' /\ ~Listening(n, p, c)' /\ NoNewOffer(n, p, c)
        /\ Closing(n, p, c)' => Closing(n, p, c)
    <3>1. CASE grid'[n][c] = grid[n][c]
      <4>1. SameView(n, p, c) /\ NoNewOffer(n, p, c)
        BY <2>2, <3>1, SameCellState, ViewKept
      <4>2. ~(Busy(grid[n], c) /\ grid[n][c].mac = p)
        BY <1>1, <1>5, <3>1 DEF Busy, FreeInfo
      <4>3. ~Sending(n, p, c)' /\ ~Listening(n, p, c)'
        BY <1>1, <3>1, <4>2 DEF Sending, Listening, RxUse, Busy
      <4> QED BY <4>1, <4>3 DEF SameView
    <3>2. CASE grid'[n][c] = FreeInfo
      <4>1. grid'[n][c].state = "FREE" /\ grid'[n][c].mac # p
        BY <1>3, <3>2 DEF FreeInfo
      <4> QED BY <4>1 DEF Sending, Listening, RxUse, NoNewOffer, Offering, Closing
    <3> QED BY <1>1, <1>5, <3>1, <3>2
  <2>7. Freed(n, p, c)
    BY <2>1, <2>4, <2>5, <2>6 DEF Freed
  <2> QED BY <2>7, FreedEnds
<1> QED BY <1>4, <1>5

-----------------------------------------------------------------------------
(* A station's handler keeps both ends of its slots sound *)

LEMMA DerivedPairs ==
  ASSUME NEW n \in Node, NEW h, NEW m, NEW ms, Handling(n, h, m, ms), h \in Derived,
         \/ MacHandles(n) /\ UNCHANGED gridVars
         \/ SelectionHandles(n) /\ UNCHANGED <<macVars, radioVars>>,
         NEW p \in Node \ {n}, NEW c \in Cell, Pair(n, p, c)
  PROVE  Pair(n, p, c)'
<1>1. h = Head(bus[n])
  BY DEF Handling, Handles
<1>2. CASE MacHandles(n) /\ UNCHANGED gridVars
  BY <1>2, MacDerivedPairs
<1>3. CASE SelectionHandles(n) /\ UNCHANGED <<macVars, radioVars>>
  <2>1. ~(\/ AllocateReservedSlots(n) \/ IgnoreRequest(n) \/ ProposeSlots(n)
          \/ ProcessSetResponse(n) \/ ProcessStats(n)
          \/ ExternalSlotsAllocated(n) \/ ExternalSlotRemoved(n))
    BY <1>1 DEF Derived, AllocateReservedSlots, IgnoreRequest, ProposeSlots, ProcessSetResponse,
                ProcessStats, ExternalSlotsAllocated, ExternalSlotRemoved, Addressed
  <2> QED BY <1>3, <2>1, ChoicePairs, GrantPairs, RefusalPairs, DropPairs DEF SelectionHandles
<1> QED BY <1>2, <1>3

(* Two stations of which neither handles a message. *)
LEMMA OtherPairs ==
  ASSUME NEW n \in Node, OthersKeep(n), NEW x \in Node \ {n}, NEW y \in Node \ {n}, NEW c,
         Ends(x, y, c)
  PROVE  Ends(x, y, c)'
<1>1. ASSUME NEW a \in Node \ {n}, NEW b \in Node \ {n} PROVE Alike(a, b, c)
  <2>1. /\ bus'[a] = bus[a] /\ procedures'[a] = procedures[a] /\ queue'[a] = queue[a]
        /\ grid'[a] = grid[a] /\ bus'[b] = bus[b] /\ procedures'[b] = procedures[b]
    BY DEF OthersKeep
  <2>2. \A k : /\ Hears(a, b, k, c)' <=> Hears(a, b, k, c)
               /\ Hears(b, a, k, c)' <=> Hears(b, a, k, c)
    BY <2>1 DEF Hears
  <2>3. SameView(a, b, c) /\ NoNewOffer(a, b, c)
    BY <2>1 DEF SameView, NoNewOffer, Sending, Listening, Offering, Closing, DueAt
  <2>4. FlightKeeps(a, b, c)
    BY <2>1, <2>2, SilentFlight
  <2> QED BY <2>2, <2>3, <2>4 DEF Alike, SameAnswers
<1> QED BY <1>1, AlikeEnds

LEMMA DrainEnds ==
  ASSUME ProtocolInv, ProtocolInv', InstantInv, ConfirmedInv, ConfirmedInv', ExchangeInv,
         TablesInv, PeersInv, EndsInv, NEW n \in Node, Drain(n)
  PROVE  EndsInv'
<1>1. OthersKeep(n) /\ \E h, m, ms : Handles(n, h, m, ms)
  BY DrainHandles
<1>2. PICK h, m, ms : Handles(n, h, m, ms)
  BY <1>1
<1>3. SceneOf(n, h, m, ms)
  <2>1. Drained(n)
    BY DEF Drain, Drained
  <2> QED BY <1>2, <2>1, HandledScene
<1>4. \A p \in Node \ {n} : Rests(bus[p])
  <2>1. SUFFICES ASSUME NEW p \in Node \ {n} PROVE Rests(bus[p])
    OBVIOUS
  <2>2. draining[p] = FALSE
    BY DEF Drain, ProtocolInv, ProcedureInv
  <2> QED BY <2>2 DEF InstantInv
<1>5. Handling(n, h, m, ms)
  BY <1>1, <1>2, <1>3, <1>4 DEF Handling
<1>6. ASSUME NEW p \in Node \ {n}, NEW c \in Cell PROVE Pair(n, p, c)'
  <2>1. Pair(n, p, c)
    BY DEF EndsInv, Pair
  <2>2. \/ MacHandles(n) /\ UNCHANGED gridVars
        \/ SelectionHandles(n) /\ UNCHANGED <<macVars, radioVars>>
    BY DEF Drain
  <2>3. CASE h \in Derived
    BY <1>5, <2>1, <2>2, <2>3, DerivedPairs
  <2>4. CASE h \notin Derived
    BY <1>5, <2>1, <2>2, <2>4, PlainPairs
  <2> QED BY <2>3, <2>4
<1>7. ASSUME NEW x \in Node, NEW y \in Node \ {x}, NEW c \in Cell PROVE Ends(x, y, c)'
  <2>1. CASE x = n
    BY <1>6, <2>1 DEF Pair
  <2>2. CASE y = n
    BY <1>6, <1>7, <2>2 DEF Pair
  <2>3. CASE x # n /\ y # n
    <3>1. Ends(x, y, c)
      BY DEF EndsInv
    <3> QED BY <1>1, <2>3, <3>1, OtherPairs
  <2> QED BY <2>1, <2>2, <2>3
<1> QED BY <1>7 DEF EndsInv

-----------------------------------------------------------------------------
(* A tick.  Between the instants a station hears but packets. *)

LEMMA RestSilent ==
  ASSUME NEW x, Arrives(x) \/ x.type = "SET_BC_SLOTS"
  PROVE  /\ ~RemovalReported(x)
         /\ \A P, p, k, c : Signals(x, P, p, k, c) => k \in Unicast /\ x.type = "RECEIVE"
<1>1. x.type \in {"GET_PROPOSED", "STATS", "SET_REMOVAL", "RECEIVE", "SET_BC_SLOTS"}
  BY DEF Arrives, RemovalAsked
<1>2. x.type = "SET_REMOVAL" => x.to = "MAC"
  BY DEF Arrives, RemovalAsked
<1> QED BY <1>1, <1>2 DEF RemovalReported, Signals, Brought

LEMMA RestAnswers ==
  ASSUME NEW x, Rests(bus[x]), Rests(bus'[x]), NEW y, NEW c
  PROVE  SameAnswers(x, y, c) /\ ~Closing(x, y, c) /\ ~Closing(x, y, c)'
<1>1. /\ \A z \in Range(bus[x]) : Arrives(z) \/ z.type = "SET_BC_SLOTS"
      /\ \A z \in Range(bus'[x]) : Arrives(z) \/ z.type = "SET_BC_SLOTS"
  BY DEF Rests
<1>2. \A z \in Range(bus[x]) \cup Range(bus'[x]) :
        /\ ~RemovalReported(z)
        /\ \A P, p, k, d : Signals(z, P, p, k, d) => k \in Unicast /\ z.type = "RECEIVE"
  BY <1>1, RestSilent
<1>3. "SELECTED" \notin Unicast /\ "REFUSED" \notin Unicast
  BY DEF Unicast
<1> QED BY <1>2, <1>3 DEF SameAnswers, Hears, Closing, Ending

(* A tick ends offers, and nothing else of a grid's use changes. *)
UseStays(g, h) ==
  \A c \in Cell :
    /\ Busy(h, c) <=> Busy(g, c)
    /\ Busy(g, c) => h[c].state = g[c].state /\ h[c].mac = g[c].mac
    /\ h[c].state = "PROPOSED_TX" => g[c].state = "PROPOSED_TX" /\ h[c].mac = g[c].mac
    /\ h[c].state = "PROPOSED_RX" => g[c].state = "PROPOSED_RX"

LEMMA TimedUse ==
  ASSUME NEW g \in Grid, NEW e, NEW f, NEW R,
         NEW h, h = AbortPendingRemovals(AbortRXProposals(AbortTXProposals(g, e), f), R)
  PROVE  UseStays(g, h)
<1>1. PICK g1 : g1 = AbortTXProposals(g, e)
  OBVIOUS
<1>2. g1 \in Grid /\ \A c \in Cell : g1[c] = g[c] \/ (~Busy(g, c) /\ g1[c] = FreeInfo)
  BY <1>1 DEF AbortTXProposals, TxProposals, FreeSlots, FreeInfo, Grid, SlotInfo, SlotState, Busy
<1>3. PICK g2 : g2 = AbortRXProposals(g1, f)
  OBVIOUS
<1>4. g2 \in Grid /\ \A c \in Cell : g2[c] = g1[c] \/ (~Busy(g1, c) /\ g2[c] = FreeInfo)
  BY <1>2, <1>3
     DEF AbortRXProposals, RxProposals, First, FreeSlots, FreeInfo, Grid, SlotInfo, SlotState, Busy
<1>5. \A c \in Cell : g2[c] = g[c] \/ (~Busy(g, c) /\ g2[c] = FreeInfo)
  BY <1>2, <1>4 DEF Busy
<1>6. h = AbortPendingRemovals(g2, R)
  BY <1>1, <1>3
<1>7. \A c \in Cell : h[c].state = g2[c].state /\ h[c].mac = g2[c].mac
  BY <1>4, <1>6, SMTT(30) DEF AbortPendingRemovals, First, RemovalCells, Grid, SlotInfo
<1> QED BY <1>5, <1>7 DEF UseStays, Busy, FreeInfo

LEMMA SameUse ==
  ASSUME NEW g, NEW h, \A c \in Cell : h[c].state = g[c].state /\ h[c].mac = g[c].mac
  PROVE  UseStays(g, h)
<1> QED BY DEF UseStays, Busy

LEMMA TimersUse ==
  ASSUME ProtocolInv, InstantInv, NEW n \in Node, SelectionTimers(n)
  PROVE  UseStays(grid[n], grid'[n])
<1>1. PICK expiredTx, expiredRx, expiredRemovals, due :
        TimersMark(n, TimedGrid(n, expiredTx, expiredRx, expiredRemovals), due)
  BY TimersAdd
<1>2. PICK g, h, k : /\ g = grid[n] /\ k = nextId[n]
                     /\ h = TimedGrid(n, expiredTx, expiredRx, expiredRemovals)
  OBVIOUS
<1>3. g \in Grid /\ k \in Nat
  BY <1>2, ProtocolGrid, ProtocolStation
<1>4. h \in Grid /\ UseStays(g, h)
  BY <1>2, <1>3, TimedTrims, TimedUse DEF TimedGrid
<1>5. grid'[n] = MarkRemoval(h, due, k) /\ due \in Due(h, n)
  BY <1>1, <1>2 DEF TimersMark
<1>6. \A c \in Cell : grid'[n][c].state = h[c].state /\ grid'[n][c].mac = h[c].mac
  <2>1. CASE due = NoSlot
    BY <1>5, <2>1 DEF MarkRemoval
  <2>2. CASE due # NoSlot
    BY <1>3, <1>4, <1>5, <2>2, DueMarked
  <2> QED BY <2>1, <2>2
<1> QED BY <1>2, <1>4, <1>6 DEF UseStays, Busy

LEMMA TickUse ==
  ASSUME ProtocolInv, InstantInv, NEW n \in Node, Tick(n), NEW x \in Node
  PROVE  UseStays(grid[x], grid'[x])
<1>1. CASE AppSend(n) \/ QueueTimeout(n) \/ SendStatistics(n)
  <2>1. PICK m : Request(n, m) /\ m.to = "AI" /\ m.type \in {"GET_PROPOSED", "STATS"}
    BY <1>1, TickRequests
  <2>2. grid' = grid
    BY <2>1, RequestAdds
  <2> QED BY <2>2, SameUse
<1>2. CASE SelectionTimers(n)
  <2>1. CASE x = n
    BY <1>2, <2>1, TimersUse
  <2>2. CASE x # n
    <3>1. grid'[x] = grid[x]
      BY <1>2, <2>2, TimersAdd
    <3> QED BY <3>1, SameUse
  <2> QED BY <2>1, <2>2
<1>3. CASE Transmit(n) \/ Advertise(n) \/ Retransmit(n)
  <2>1. grid' = grid
    BY <1>3 DEF Transmit, Advertise, Retransmit, selVars, gridVars
  <2> QED BY <2>1, SameUse
<1> QED BY <1>1, <1>2, <1>3 DEF Tick

LEMMA TickRestingAt ==
  ASSUME ProtocolInv, InstantInv, InstantInv', TablesInv, NEW n \in Node, Tick(n),
         NEW x \in Node
  PROVE  Rests(bus[x]) /\ Rests(bus'[x]) /\ RestingAt(x)'
<1>1. draining[x] = FALSE /\ draining'[x] = draining[x]
  BY TickAdds
<1>2. Rests(bus[x]) /\ Rests(bus'[x])
  BY <1>1 DEF InstantInv
<1>3. RestingAt(x)
  BY <1>1, <1>2, RestingTables DEF TablesInv, RightAt, RestingAt, Rests
<1> QED BY <1>2, <1>3, TickRestsOn

LEMMA TickViews ==
  ASSUME ProtocolInv, InstantInv, InstantInv', ConfirmedInv, TablesInv, NEW n \in Node, Tick(n),
         NEW x \in Node, NEW y, NEW c \in Cell
  PROVE  SameView(x, y, c) /\ SameAnswers(x, y, c) /\ NoNewOffer(x, y, c)
<1>1. Rests(bus[x]) /\ Rests(bus'[x]) /\ RestingAt(x)'
  BY TickRestingAt
<1>2. SameAnswers(x, y, c) /\ ~Closing(x, y, c) /\ ~Closing(x, y, c)'
  BY <1>1, RestAnswers
<1>3. UseStays(grid[x], grid'[x])
  BY TickUse
<1>4. grid[x][c].state # "PROPOSED_RX"
  <2>1. draining[x] = FALSE /\ ProcedureInv
    BY TickAdds DEF ProtocolInv
  <2>2. SelectedCells(grid[x]) = {}
    BY <2>1, TickFinds
  <2> QED BY <2>2, NoneSelected
<1>5. SameView(x, y, c)
  BY <1>2, <1>3, <1>4 DEF SameView, Sending, Listening, UseStays, Busy, RxUse
<1>6. NoNewOffer(x, y, c)
  <2>1. Offering(x, y, c)' => Offering(x, y, c)
    BY <1>3 DEF Offering, UseStays
  <2>2. ASSUME DueAt(x, y, c)' PROVE Busy(grid'[x], c)
    <3>1. PICK z \in Range(bus'[x]) : RemovalAsked(z) /\ z.slot = c
      BY <2>2 DEF DueAt
    <3> QED BY <1>1, <3>1 DEF RestingAt, Resting, AskedFor
  <2>3. ~(Offering(x, y, c)' /\ DueAt(x, y, c)')
    BY <2>2 DEF Offering, Busy
  <2> QED BY <2>1, <2>3 DEF NoNewOffer
<1> QED BY <1>2, <1>5, <1>6

-----------------------------------------------------------------------------
(* What is on its way while the clock moves *)

(* What a message adds to what is heard. *)
LEMMA HearsAdded ==
  ASSUME NEW y, IsSeq(bus[y]), NEW m, NEW ms \in {<<>>, <<m>>}, bus'[y] = bus[y] \o ms,
         procedures'[y] = procedures[y], NEW p, NEW k, NEW c
  PROVE  Hears(y, p, k, c)'
           <=> Hears(y, p, k, c) \/ (ms = <<m>> /\ Signals(m, procedures[y], p, k, c))
<1>1. PICK b, d : b = bus[y] /\ d = b \o ms
  OBVIOUS
<1>2. OneAdded(b, m, ms, d)
  BY <1>1, AddedRange
<1> QED BY <1>1, <1>2 DEF OneAdded, Sent, Hears

(* The first packet of a queue. *)
WithoutHead(q, t, m, c) ==
  \A k \in Unicast :
    /\ Waits(q, m, k, c) <=> Tells(Head(q).packet, k, m, c) \/ Waits(t, m, k, c)
    /\ \A j \in Unicast :
         Behind(q, m, j, k, c)
           <=> Behind(t, m, j, k, c) \/ (Tells(Head(q).packet, j, m, c) /\ Waits(t, m, k, c))

LEMMA HeadLeaves ==
  ASSUME NEW q \in Seq(Entry), q # <<>>, NEW t, t = Tail(q), NEW m, NEW c
  PROVE  WithoutHead(q, t, m, c)
<1>1. /\ Len(q) \in Nat \ {0} /\ DOMAIN q = 1 .. Len(q) /\ DOMAIN t = 1 .. (Len(q) - 1)
      /\ Head(q) = q[1] /\ \A i \in DOMAIN t : t[i] = q[i + 1]
  OBVIOUS
<1>2. /\ 1 \in DOMAIN q /\ \A i \in DOMAIN t : i + 1 \in DOMAIN q
      /\ \A i \in DOMAIN q : i # 1 => i - 1 \in DOMAIN t /\ t[i - 1] = q[i]
      /\ DOMAIN q \subseteq Nat \ {0}
  BY <1>1
<1>3. ASSUME NEW k \in Unicast
      PROVE  Waits(q, m, k, c) <=> Tells(Head(q).packet, k, m, c) \/ Waits(t, m, k, c)
  BY <1>1, <1>2 DEF Waits
<1>4. ASSUME NEW k \in Unicast, NEW j \in Unicast, Behind(q, m, j, k, c)
      PROVE  Behind(t, m, j, k, c) \/ (Tells(Head(q).packet, j, m, c) /\ Waits(t, m, k, c))
  <2>1. PICK i \in DOMAIN q, l \in DOMAIN q : /\ i < l /\ Tells(q[i].packet, j, m, c)
                                              /\ Tells(q[l].packet, k, m, c)
    BY <1>4 DEF Behind
  <2>2. l - 1 \in DOMAIN t /\ t[l - 1] = q[l]
    BY <1>2, <2>1
  <2>3. CASE i = 1
    BY <1>1, <2>1, <2>2, <2>3 DEF Waits
  <2>4. CASE i # 1
    <3>1. i - 1 \in DOMAIN t /\ t[i - 1] = q[i] /\ i - 1 < l - 1
      BY <1>2, <2>1, <2>4
    <3> QED BY <2>1, <2>2, <3>1 DEF Behind
  <2> QED BY <2>3, <2>4
<1>5. ASSUME NEW k \in Unicast, NEW j \in Unicast, Behind(t, m, j, k, c)
      PROVE  Behind(q, m, j, k, c)
  <2>1. PICK i \in DOMAIN t, l \in DOMAIN t : /\ i < l /\ Tells(t[i].packet, j, m, c)
                                              /\ Tells(t[l].packet, k, m, c)
    BY <1>5 DEF Behind
  <2>2. i + 1 \in DOMAIN q /\ l + 1 \in DOMAIN q /\ i + 1 < l + 1
    BY <1>1, <1>2, <2>1
  <2> QED BY <1>1, <2>1, <2>2 DEF Behind
<1>6. ASSUME NEW k \in Unicast, NEW j \in Unicast,
             Tells(Head(q).packet, j, m, c), Waits(t, m, k, c)
      PROVE  Behind(q, m, j, k, c)
  <2>1. PICK l \in DOMAIN t : Tells(t[l].packet, k, m, c)
    BY <1>6 DEF Waits
  <2>2. l + 1 \in DOMAIN q /\ 1 < l + 1 /\ 1 \in DOMAIN q
    BY <1>1, <1>2, <2>1
  <2> QED BY <1>1, <1>6, <2>1, <2>2 DEF Behind
<1> QED BY <1>3, <1>4, <1>5, <1>6 DEF WithoutHead

(* A packet of n has come to its peer p, that had heard nothing else of n. *)
LEMMA ArrivedFlight ==
  ASSUME NEW n, NEW p, NEW c, NEW packet, NEW q, q = queue[n], NEW t, t = queue'[n],
         Head(q).packet = packet, WithoutHead(q, t, p, c),
         \A k \in Unicast : Hears(p, n, k, c)' <=> Hears(p, n, k, c) \/ Tells(packet, k, p, c),
         \A j, k \in Unicast : Tells(packet, k, p, c) => ~Hears(p, n, j, c)
  PROVE  FlightKeeps(n, p, c)
<1>1. \A k \in Unicast : OnWay(n, p, k, c)' <=> OnWay(n, p, k, c)
  BY DEF WithoutHead, OnWay
<1>2. \A j, k \in Unicast : Later(n, p, j, k, c)' <=> Later(n, p, j, k, c)
  BY DEF WithoutHead, Later
<1> QED BY <1>1, <1>2 DEF FlightKeeps, Unicast

LEMMA StillFlight ==
  ASSUME NEW x, NEW y, NEW c, queue'[x] = queue[x], bus'[y] = bus[y],
         procedures'[y] = procedures[y]
  PROVE  FlightKeeps(x, y, c)
<1>1. \A k : Hears(y, x, k, c)' <=> Hears(y, x, k, c)
  BY DEF Hears
<1> QED BY <1>1, SilentFlight

(* A message that tells y nothing of x comes to it. *)
LEMMA DeafFlight ==
  ASSUME ProtocolInv, NEW x, NEW y \in Node, NEW c, queue'[x] = queue[x],
         procedures'[y] = procedures[y], NEW m, NEW ms \in {<<>>, <<m>>},
         bus'[y] = bus[y] \o ms,
         ms = <<m>> => \A k : ~Signals(m, procedures[y], x, k, c)
  PROVE  FlightKeeps(x, y, c)
<1>1. IsSeq(bus[y])
  BY ProtocolStation
<1>2. \A k : Hears(y, x, k, c)' <=> Hears(y, x, k, c)
  BY <1>1, HearsAdded
<1> QED BY <1>2, SilentFlight

LEMMA RequestFlight ==
  ASSUME ProtocolInv, NEW n \in Node, NEW m, Request(n, m), m.to = "AI",
         m.type \in {"GET_PROPOSED", "STATS"}, NEW x \in Node, NEW y \in Node, NEW c
  PROVE  FlightKeeps(x, y, c)
<1>1. /\ Adds(n, m, <<m>>) /\ \A z \in Node \ {n} : bus'[z] = bus[z]
      /\ queue' = queue /\ procedures' = procedures
  BY RequestAdds
<1>2. CASE y = n
  <2>1. PICK ms : ms = <<m>>
    OBVIOUS
  <2>2. \A k : ~Signals(m, procedures[y], x, k, c)
    BY DEF Signals
  <2>3. bus'[y] = bus[y] \o ms /\ ms \in {<<>>, <<m>>}
    BY <1>1, <1>2, <2>1 DEF Adds
  <2> QED BY <1>1, <2>2, <2>3, DeafFlight
<1>3. CASE y # n
  BY <1>1, <1>3, StillFlight
<1> QED BY <1>2, <1>3

LEMMA TimersFlight ==
  ASSUME ProtocolInv, NEW n \in Node, SelectionTimers(n), NEW x \in Node, NEW y \in Node, NEW c
  PROVE  FlightKeeps(x, y, c)
<1>1. /\ queue' = queue /\ procedures' = procedures
      /\ \A z \in Node \ {n} : bus'[z] = bus[z]
  BY TimersAdd
<1>2. CASE y = n
  <2>1. PICK expiredTx, expiredRx, expiredRemovals, due :
          TimersMark(n, TimedGrid(n, expiredTx, expiredRx, expiredRemovals), due)
    BY TimersAdd
  <2>2. PICK g, m, ms :
          /\ g = TimedGrid(n, expiredTx, expiredRx, expiredRemovals)
          /\ m = [to |-> "MAC", type |-> "SET_REMOVAL", id |-> nextId[n],
                  mac |-> g[due].mac, slot |-> due]
          /\ ms = RemovalRequest(g, due, nextId[n])
    OBVIOUS
  <2>3. bus'[y] = bus[y] \o ms
    BY <1>2, <2>1, <2>2 DEF TimersMark
  <2>4. ms \in {<<>>, <<m>>}
    BY <2>2 DEF RemovalRequest
  <2>5. \A k : ~Signals(m, procedures[y], x, k, c)
    BY <2>2 DEF Signals, Brought
  <2> QED BY <1>1, <2>3, <2>4, <2>5, DeafFlight
<1>3. CASE y # n
  BY <1>1, <1>3, StillFlight
<1> QED BY <1>2, <1>3

LEMMA AdvertiseFlight ==
  ASSUME ProtocolInv, NEW n \in Node, Advertise(n), NEW x \in Node, NEW y \in Node, NEW c
  PROVE  FlightKeeps(x, y, c)
<1>1. PICK active \in SUBSET Cell : Sends(n, IfHeard(n, AdvertPacket(active)))
  BY DEF Advertise
<1>2. PICK packets : packets = IfHeard(n, AdvertPacket(active))
  OBVIOUS
<1>3. bus' = bus /\ procedures' = procedures
  BY DEF Advertise, selVars, macVars
<1>4. CASE x = n
  <2>1. packets \in Seq(Packet) /\ \A i \in DOMAIN packets : packets[i].type \notin Unicast
    <3>1. PICK v : v = AdvertPacket(active)
      OBVIOUS
    <3>2. v \in Packet /\ v.type \notin Unicast
      BY <3>1 DEF AdvertPacket, Packet, Broadcast, Unicast
    <3>3. packets = <<>> \/ packets = <<v>>
      BY <1>2, <3>1 DEF IfHeard
    <3>4. CASE packets = <<>>
      BY <3>4
    <3>5. CASE packets = <<v>>
      <4>1. packets \in Seq(Packet) /\ DOMAIN packets = {1} /\ packets[1] = v
        BY <3>2, <3>5
      <4> QED BY <3>2, <4>1
    <3> QED BY <3>3, <3>4, <3>5
  <2>2. Headed(packets) /\ \A k \in Unicast : ~FirstTells(packets, k, y, c)
    BY <2>1, NoneTold
  <2>3. \A k : Hears(y, n, k, c)' <=> Hears(y, n, k, c)
    BY <1>3 DEF Hears
  <2>4. Sends(n, packets)
    BY <1>1, <1>2
  <2> QED BY <1>4, <2>2, <2>3, <2>4, SentFlight
<1>5. CASE x # n
  <2>1. queue'[x] = queue[x]
    BY <1>1, <1>5 DEF Sends, ProtocolInv, PacketsTyped
  <2> QED BY <1>3, <2>1, StillFlight
<1> QED BY <1>4, <1>5

LEMMA TransmitFlight ==
  ASSUME ProtocolInv, InstantInv, Reliable, NEW n \in Node, Transmit(n), Tick(n),
         NEW x \in Node, NEW y \in Node \ {x}, NEW c
  PROVE  FlightKeeps(x, y, c)
<1>1. PICK q, t, e, m, packet : /\ q = queue[n] /\ t = queue'[n] /\ e = Head(queue[n])
                                /\ packet = e.packet /\ m = Reception(n, packet)
  OBVIOUS
<1>2. /\ q # <<>> /\ e \in Entry /\ t = Tail(q) /\ \A z \in Node \ {n} : queue'[z] = queue[z]
      /\ procedures' = procedures
      /\ \E heard : Reaches(n, e, m, heard)
  BY <1>1, TransmitAdds
<1>3. PICK heard : Reaches(n, e, m, heard)
  BY <1>2
<1>4. /\ heard = Audience(n, packet) /\ \A z \in heard : Adds(z, m, <<m>>)
      /\ \A z \in Node \ heard : bus'[z] = bus[z]
  BY <1>1, <1>3 DEF Reaches
<1>5. m.to = "MAC" /\ m.type = "RECEIVE" /\ m.src = n /\ m.packet = packet
  BY <1>1 DEF Reception
<1>6. PICK ms : ms = IF y \in heard THEN <<m>> ELSE <<>>
  OBVIOUS
<1>7. ms \in {<<>>, <<m>>} /\ (ms = <<m>> <=> y \in heard) /\ bus'[y] = bus[y] \o ms
  <2>1. IsSeq(bus[y])
    BY ProtocolStation
  <2>2. CASE y \in heard
    BY <1>4, <1>6, <2>2 DEF Adds
  <2>3. CASE y \notin heard
    <3>1. PICK b : b = bus[y] /\ b \in Seq(Message)
      BY ProtocolStation
    <3>2. b \o <<>> = b
      BY <3>1
    <3> QED BY <1>4, <1>6, <2>3, <3>1, <3>2
  <2> QED BY <2>2, <2>3
<1>8. CASE x # n
  <2>1. \A k : ~Signals(m, procedures[y], x, k, c)
    BY <1>5, <1>8 DEF Signals, Brought
  <2> QED BY <1>2, <1>7, <1>8, <2>1, DeafFlight
<1>9. CASE x = n
  <2>1. \A k \in Unicast : Hears(y, n, k, c)'
                             <=> Hears(y, n, k, c) \/ (y \in heard /\ Signals(m, procedures[y], n, k, c))
    <3>1. IsSeq(bus[y])
      BY ProtocolStation
    <3> QED BY <1>2, <1>7, <3>1, HearsAdded
  <2>2. \A k \in Unicast : Signals(m, procedures[y], n, k, c)
                             <=> packet.type = k /\ (k = "ADD_SLOT" \/ packet.slots = {c})
    BY <1>5 DEF Signals, Brought, Unicast
  <2>3. ASSUME packet.type \in Unicast PROVE heard = {packet.dst}
    <3>1. Audience(n, packet) = {packet.dst}
      BY <2>3 DEF Audience, Unicast
    <3> QED BY <1>4, <3>1
  <2>4. \A k \in Unicast : Tells(packet, k, y, c)
                             <=> y \in heard /\ Signals(m, procedures[y], n, k, c)
    BY <2>2, <2>3 DEF Tells, IsPacket
  <2>5. ASSUME y \in heard PROVE \A k \in Unicast : ~Hears(y, n, k, c)
    <3>1. Adds(y, m, <<m>>)
      BY <1>4, <2>5
    <3>2. \A z \in Range(bus[y]) : z.type # "RECEIVE"
      BY <1>5, <3>1 DEF Adds
    <3>3. Rests(bus[y])
      BY TickRests
    <3> QED BY <3>2, <3>3, RestSilent DEF Rests, Hears
  <2>6. WithoutHead(q, t, y, c) /\ Head(q).packet = packet
    <3>1. q \in Seq(Entry)
      BY <1>1 DEF ProtocolInv, PacketsTyped
    <3> QED BY <1>1, <1>2, <3>1, HeadLeaves
  <2>7. /\ \A k \in Unicast : Hears(y, n, k, c)' <=> Hears(y, n, k, c) \/ Tells(packet, k, y, c)
        /\ \A j, k \in Unicast : Tells(packet, k, y, c) => ~Hears(y, n, j, c)
    BY <2>1, <2>4, <2>5
  <2> QED BY <1>1, <1>9, <2>6, <2>7, ArrivedFlight
<1> QED BY <1>8, <1>9

LEMMA TickEnds ==
  ASSUME Reliable, ProtocolInv, InstantInv, InstantInv', ConfirmedInv, ExchangeInv, TablesInv,
         EndsInv, NEW n \in Node, Tick(n)
  PROVE  EndsInv'
<1>1. ASSUME NEW x \in Node, NEW y \in Node \ {x}, NEW c \in Cell PROVE FlightKeeps(x, y, c)
  <2>1. CASE AppSend(n) \/ QueueTimeout(n) \/ SendStatistics(n)
    BY <2>1, TickRequests, RequestFlight
  <2>2. CASE SelectionTimers(n)
    BY <2>2, TimersFlight
  <2>3. CASE Transmit(n)
    BY <2>3, TransmitFlight
  <2>4. CASE Advertise(n)
    BY <2>4, AdvertiseFlight
  <2>5. ~Retransmit(n)
    <3>1. PICK u : u = unacked[n] /\ u = <<>>
      BY DEF ExchangeInv
    <3>2. DOMAIN u = {}
      BY <3>1
    <3> QED BY <3>1, <3>2 DEF Retransmit
  <2> QED BY <2>1, <2>2, <2>3, <2>4, <2>5 DEF Tick
<1>2. ASSUME NEW x \in Node, NEW y \in Node \ {x}, NEW c \in Cell PROVE Alike(x, y, c)
  <2>1. SameView(x, y, c) /\ SameAnswers(x, y, c) /\ NoNewOffer(x, y, c)
    BY TickViews
  <2> QED BY <1>1, <2>1 DEF Alike
<1>3. ASSUME NEW x \in Node, NEW y \in Node \ {x}, NEW c \in Cell PROVE Ends(x, y, c)'
  <2>1. Alike(x, y, c) /\ Alike(y, x, c)
    BY <1>2
  <2>2. Ends(x, y, c)
    BY DEF EndsInv
  <2> QED BY <2>1, <2>2, AlikeEnds
<1> QED BY <1>3 DEF EndsInv

LEMMA InitEnds == ProtocolInit => EndsInv
<1> SUFFICES ASSUME ProtocolInit, NEW n \in Node, NEW m \in Node \ {n}, NEW c \in Cell
             PROVE  Ends(n, m, c)
  BY DEF EndsInv
<1>1. \A x \in Node : /\ bus[x] = <<SetBcSlots>> /\ grid[x] = EmptyGrid /\ queue[x] = <<>>
  BY StationAssumption DEF ProtocolInit, Init
<1>2. \A x \in Node : Range(bus[x]) = {SetBcSlots}
  <2>1. PICK b : b = <<SetBcSlots>>
    OBVIOUS
  <2>2. DOMAIN b = {1} /\ b[1] = SetBcSlots
    BY <2>1
  <2>3. Range(b) = {SetBcSlots}
    BY <2>2 DEF Range
  <2> QED BY <1>1, <2>1, <2>3
<1>3. \A x \in Node, y \in Node, k \in {"RESULT", "REFUSED"} : ~Hears(x, y, k, c)
  BY <1>2 DEF Hears, Signals, Brought, SetBcSlots
<1>4. \A x \in Node : grid[x][c].state = "FREE"
  <2>1. EmptyGrid[c].state = "FREE"
    BY DEF EmptyGrid, FreeInfo
  <2> QED BY <1>1, <2>1
<1>5. \A x \in Node, y \in Node : ~Sending(x, y, c) /\ ~Listening(x, y, c) /\ ~Offering(x, y, c)
  BY <1>4 DEF Sending, Listening, Offering, RxUse
<1>6. \A x \in Node, y \in Node : ~Closing(x, y, c)
  BY <1>2 DEF Closing, Ending, RemovalReported, SetBcSlots
<1>7. \A x \in Node, y \in Node : ~OnWay(x, y, "RESULT", c)
  <2>1. ASSUME NEW x \in Node, NEW y \in Node PROVE ~Waits(queue[x], y, "RESULT", c)
    <3>1. PICK q : q = queue[x] /\ q = <<>>
      BY <1>1
    <3>2. DOMAIN q = {}
      BY <3>1
    <3> QED BY <3>1, <3>2 DEF Waits
  <2> QED BY <1>3, <2>1 DEF OnWay
<1> QED
  BY <1>3, <1>5, <1>6, <1>7
     DEF Ends, OfferFresh, ResultAlone, RefusalAlone, SenderSound, ListenerSound, ClosingTold

LEMMA EndsInvInductive ==
  ASSUME Reliable, ProtocolInv, ProtocolInv', InstantInv, InstantInv', ConfirmedInv,
         ConfirmedInv', ExchangeInv, TablesInv, PeersInv, EndsInv, [ProtocolNext]_vars
  PROVE  EndsInv'
<1>1. CASE UNCHANGED vars
  <2>1. UNCHANGED <<bus, grid, procedures, queue>>
    BY <1>1 DEF vars, selVars, gridVars, macVars, radioVars
  <2>2. ASSUME NEW x \in Node, NEW y \in Node \ {x}, NEW c \in Cell PROVE Alike(x, y, c)
    <3>1. SameView(x, y, c) /\ SameAnswers(x, y, c) /\ NoNewOffer(x, y, c)
      BY <2>1 DEF SameView, SameAnswers, NoNewOffer, Sending, Listening, Offering, Closing, DueAt,
                  Hears
    <3> QED BY <2>1, <3>1, StillFlight DEF Alike
  <2> QED BY <2>2, AlikeEnds DEF EndsInv
<1>2. ASSUME NEW n \in Node, Drain(n) PROVE EndsInv'
  BY <1>2, DrainEnds
<1>3. ASSUME NEW n \in Node, Tick(n) PROVE EndsInv'
  BY <1>3, TickEnds
<1> QED BY <1>1, <1>2, <1>3 DEF ProtocolNext

-----------------------------------------------------------------------------
(* Between the instants *)

(* Two stations with nothing on their buses: what is on its way waits. *)
LEMMA QuietHears ==
  ASSUME NEW x, Quiet(x), NEW y, NEW c
  PROVE  ~Closing(x, y, c) /\ \A k : ~Hears(x, y, k, c)
<1>1. PICK b : b = bus[x] /\ b = <<>>
  BY DEF Quiet
<1>2. DOMAIN b = {}
  BY <1>1
<1>3. Range(bus[x]) = {}
  BY <1>1, <1>2 DEF Range
<1> QED BY <1>3 DEF Hears, Closing, Ending

LEMMA WaitingPacket ==
  ASSUME ProtocolInv, NEW x \in Node, NEW y, NEW c, NEW k \in {"RESULT", "DELETE"},
         Waits(queue[x], y, k, c)
  PROVE  \E i \in DOMAIN queue[x] :
           queue[x][i].packet = [type |-> k, dst |-> y, slots |-> {c}]
<1>1. PICK i \in DOMAIN queue[x] : Tells(queue[x][i].packet, k, y, c)
  BY DEF Waits
<1>2. PICK packet : packet = queue[x][i].packet
  OBVIOUS
<1>3. packet \in Packet
  <2>1. PICK q : q = queue[x] /\ q \in Seq(Entry)
    BY DEF ProtocolInv, PacketsTyped
  <2>2. q[i] \in Entry
    BY <1>1, <2>1
  <2> QED BY <1>2, <2>1, <2>2 DEF Entry
<1>4. packet.type = k /\ packet.dst = y /\ packet.slots = {c}
  BY <1>1, <1>2 DEF Tells, IsPacket
<1>5. packet = [type |-> k, dst |-> y, slots |-> {c}]
  BY <1>3, <1>4 DEF Packet
<1> QED BY <1>1, <1>2, <1>5

LEMMA WaitingTold ==
  ASSUME ProtocolInv, NEW x \in Node, NEW y, NEW c
  PROVE  /\ Waits(queue[x], y, "DELETE", c)
              => \E i \in DOMAIN queue[x] : queue[x][i].packet = DeletePacket(y, c)
         /\ Waits(queue[x], y, "RESULT", c)
              => \E i \in DOMAIN queue[x] : queue[x][i].packet = ResultPacket(y, c)
BY WaitingPacket DEF DeletePacket, ResultPacket

LEMMA QuietCells ==
  ASSUME ProtocolInv, ConfirmedInv, PeersInv, NEW n \in Node, NEW c \in Cell
  PROVE  /\ Quiet(n) => grid[n][c].state # "PROPOSED_RX"
         /\ Busy(grid[n], c) => grid[n][c].mac \in Node \ {n}
<1>1. ASSUME Quiet(n) PROVE grid[n][c].state # "PROPOSED_RX"
  <2>1. PICK b : b = bus[n] /\ b = <<>>
    BY <1>1 DEF Quiet
  <2>2. DOMAIN b = {}
    BY <2>1
  <2>3. Selections(bus[n]) = {}
    BY <2>1, <2>2 DEF Selections
  <2> QED BY <2>3, NoneSelected DEF ConfirmedInv, Confirmed
<1>2. ASSUME Busy(grid[n], c) PROVE grid[n][c].mac \in Node \ {n}
  <2>1. n \in Station /\ IInv
    BY StationAssumption DEF ProtocolInv
  <2>2. Books(grid[n], pendingTx[n], removals[n], nextId[n], bus[n])
    BY <2>1, TypedStation
  <2>3. grid[n][c].mac \in Node
    BY <1>2, <2>2 DEF Books, Sound, SoundPeer, Busy, TxUse, RxUse
  <2>4. grid[n][c].mac # n
    BY DEF PeersInv, PeersAt, ForeignCells
  <2> QED BY <2>3, <2>4
<1> QED BY <1>1, <1>2

LEMMA EndsSender ==
  ASSUME ProtocolInv, ConfirmedInv, PeersInv, EndsInv
  PROVE  SenderHasListener
<1> SUFFICES ASSUME NEW n \in Node, NEW c \in Cell, grid[n][c].state = "TX",
                    NEW m, m = grid[n][c].mac, ~DeleteOnItsWay(m, n, c)
             PROVE  grid[m][c].state = "RX" /\ grid[m][c].mac = n
  BY DEF SenderHasListener
<1>1. m \in Node \ {n} /\ Quiet(n) /\ Quiet(m)
  BY QuietCells DEF Busy, DeleteOnItsWay
<1>2. Sending(n, m, c) /\ SenderSound(n, m, c)
  BY <1>1 DEF Sending, EndsInv, Ends
<1>3. ~OnWay(m, n, "DELETE", c)
  <2>1. ~Waits(queue[m], n, "DELETE", c)
    BY <1>1, WaitingTold DEF DeleteOnItsWay
  <2> QED BY <1>1, <2>1, QuietHears DEF OnWay
<1>4. Listening(m, n, c) /\ grid[m][c].state # "PROPOSED_RX"
  BY <1>1, <1>2, <1>3, QuietCells DEF SenderSound
<1> QED BY <1>4 DEF Listening, RxUse

LEMMA EndsListener ==
  ASSUME ProtocolInv, ConfirmedInv, PeersInv, EndsInv
  PROVE  ListenerHasSender
<1> SUFFICES ASSUME NEW n \in Node, NEW c \in Cell, grid[n][c].state = "RX",
                    NEW m, m = grid[n][c].mac, ~DeleteOnItsWay(m, n, c),
                    \A i \in DOMAIN queue[n] : queue[n][i].packet # ResultPacket(m, c)
             PROVE  grid[m][c].state = "TX" /\ grid[m][c].mac = n
  BY DEF ListenerHasSender
<1>1. m \in Node \ {n} /\ Quiet(n) /\ Quiet(m)
  BY QuietCells DEF Busy, DeleteOnItsWay
<1>2. Listening(n, m, c) /\ ListenerSound(n, m, c)
  BY <1>1 DEF Listening, RxUse, EndsInv, Ends
<1>3. ~OnWay(m, n, "DELETE", c) /\ ~OnWay(n, m, "RESULT", c)
  <2>1. ~Waits(queue[m], n, "DELETE", c)
    BY <1>1, WaitingTold DEF DeleteOnItsWay
  <2>2. ~Waits(queue[n], m, "RESULT", c)
    BY WaitingTold
  <2> QED BY <1>1, <2>1, <2>2, QuietHears DEF OnWay
<1>4. ~Hears(n, m, "SELECTED", c) /\ ~Hears(m, n, "REFUSED", c)
  BY <1>1, QuietHears
<1>5. Sending(m, n, c)
  BY <1>2, <1>3, <1>4 DEF ListenerSound
<1> QED BY <1>5 DEF Sending

-----------------------------------------------------------------------------
(* The theorems *)

(* No station has dealings with itself: its messages, the packets it sends,   *)
(* its procedures and the cells of its grid all name another - on any radio.  *)
THEOREM PeersInvariant == ProtocolSpec => []PeersInv
BY InitPeers, PeersInvInductive, ProtocolInvariant, PTL DEF ProtocolSpec

(* The two ends of a slot: for every two stations and every cell, what both   *)
(* grids say of it and what is on its way between them, in its order, fit     *)
(* together.  A result comes from a listener and meets no second one, a       *)
(* sender has a listener and a listener a sender unless what changes this is  *)
(* on its way, and what is removed has been told after what was granted - on  *)
(* a radio that loses nothing and is in time.                                 *)
THEOREM EndsInvariant ==
  ASSUME Reliable, Prompt PROVE ProtocolSpec => []EndsInv
<1>1. /\ ProtocolInv /\ ProtocolInv' /\ InstantInv /\ InstantInv' /\ ConfirmedInv /\ ConfirmedInv'
      /\ ExchangeInv /\ TablesInv /\ PeersInv /\ EndsInv /\ [ProtocolNext]_vars
      => EndsInv'
  BY EndsInvInductive
<1>2. ProtocolSpec => []ExchangeInv
  BY ExchangeInvariant
<1>3. ProtocolSpec => []TablesInv
  BY TablesInvariant
<1> QED
  BY <1>1, <1>2, <1>3, InitEnds, ProtocolInvariant, InstantInvariant, ConfirmedInvariant,
     PeersInvariant, PTL DEF ProtocolSpec

(* On a radio that loses nothing and is in time, the slot a station sends in  *)
(* is one its peer listens to, or a message that ends it is on its way.       *)
THEOREM SenderHasListenerHolds == ProtocolSpec => []SenderHasListener
<1>1. CASE Reliable /\ Prompt
  <2>1. ProtocolInv /\ ConfirmedInv /\ PeersInv /\ EndsInv => SenderHasListener
    BY EndsSender
  <2>2. ProtocolSpec => []EndsInv
    BY <1>1, EndsInvariant
  <2> QED
    BY <2>1, <2>2, ProtocolInvariant, ConfirmedInvariant, PeersInvariant, PTL
<1>2. CASE ~(Reliable /\ Prompt)
  <2>1. SenderHasListener
    BY <1>2 DEF SenderHasListener
  <2> QED
    BY <2>1, PTL
<1> QED
  BY <1>1, <1>2

(* On such a radio, a slot a station listens to is one its peer sends in, or  *)
(* the result that makes the peer send, or a message that ends it, is on its  *)
(* way: no receiver is left tuned to a slot nobody will ever send in.         *)
THEOREM ListenerHasSenderHolds == ProtocolSpec => []ListenerHasSender
<1>1. CASE Reliable /\ Prompt
  <2>1. ProtocolInv /\ ConfirmedInv /\ PeersInv /\ EndsInv => ListenerHasSender
    BY EndsListener
  <2>2. ProtocolSpec => []EndsInv
    BY <1>1, EndsInvariant
  <2> QED
    BY <2>1, <2>2, ProtocolInvariant, ConfirmedInvariant, PeersInvariant, PTL
<1>2. CASE ~(Reliable /\ Prompt)
  <2>1. ListenerHasSender
    BY <1>2 DEF ListenerHasSender
  <2> QED
    BY <2>1, PTL
<1> QED
  BY <1>1, <1>2

=============================================================================
