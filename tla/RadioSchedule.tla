---------------------------- MODULE RadioSchedule ----------------------------
(***************************************************************************)
(* What a station's slot selection promises its MAC, without messages,     *)
(* timers or transactions: in every timeslot the station has one           *)
(* transmitter and one receiver, and each of them is idle, on offer or     *)
(* committed.  An offer goes to one peer and may name several frequencies; *)
(* a commitment is to one peer on one of the frequencies that were on      *)
(* offer to it.  A radio never passes from one peer to another, nor from   *)
(* one frequency to another, without having been idle in between.          *)
(*                                                                         *)
(* tx[n][t] and rx[n][t] are the sets of uses of the two radios of station *)
(* n in timeslot t.                                                        *)
(***************************************************************************)
EXTENDS Naturals

CONSTANTS Station, Node, Timeslot, Frequency

VARIABLES tx, rx

vars == <<tx, rx>>

Use == [phase : {"offered", "committed"}, peer : Node, freq : Frequency]

Idle         == {}
Offers(mac)  == {S \in SUBSET [phase : {"offered"}, peer : {mac}, freq : Frequency] : S # {}}
Commitments  == {{u} : u \in [phase : {"committed"}, peer : Node, freq : Frequency]}
IsOffer(r)   == \E mac \in Node : r \in Offers(mac)

Committed(u) == {[u EXCEPT !.phase = "committed"]}

Init == /\ tx = [n \in Station |-> [t \in Timeslot |-> Idle]]
        /\ rx = [n \in Station |-> [t \in Timeslot |-> Idle]]

(* Only station n's radios of this kind change, and they do as Step says. *)
Changes(n, radio, Step(_)) ==
  /\ DOMAIN radio' = Station /\ DOMAIN radio'[n] = Timeslot
  /\ \A m \in Station \ {n} : radio'[m] = radio[m]
  /\ \A t \in Timeslot : Step(t)

(* The transmitters of some idle timeslots are offered to one peer, which has *)
(* no other offer from n.                                                     *)
Propose(n) ==
  \E mac \in Node :
    /\ \A t \in Timeslot : tx[n][t] \notin Offers(mac)
    /\ LET Step(t) == \/ tx'[n][t] = tx[n][t]
                      \/ tx[n][t] = Idle /\ tx'[n][t] \in Offers(mac)
       IN  Changes(n, tx, Step)
    /\ UNCHANGED rx

(* One offer is taken up; whatever else was on offer to that peer is not. *)
CommitTx(n) ==
  \E mac \in Node, s \in Timeslot :
    /\ tx[n][s] \in Offers(mac)
    /\ LET Step(t) == IF t = s
                      THEN \E u \in tx[n][s] : tx'[n][s] = Committed(u)
                      ELSE tx'[n][t] = IF tx[n][t] \in Offers(mac) THEN Idle ELSE tx[n][t]
       IN  Changes(n, tx, Step)
    /\ UNCHANGED rx

(* A receiver is set aside for a peer, on one frequency. *)
Select(n) ==
  \E mac \in Node, f \in Frequency, s \in Timeslot :
    /\ rx[n][s] = Idle
    /\ rx' = [rx EXCEPT ![n][s] = {[phase |-> "offered", peer |-> mac, freq |-> f]}]
    /\ UNCHANGED tx

CommitRx(n) ==
  \E s \in Timeslot :
    /\ IsOffer(rx[n][s])
    /\ \E u \in rx[n][s] : rx' = [rx EXCEPT ![n][s] = Committed(u)]
    /\ UNCHANGED tx

(* Offers lapse: all that go to some peers, and some of the receptions. *)
Withdraw(n) ==
  \E macs \in SUBSET Node :
    LET TxStep(t) == tx'[n][t] = IF \E mac \in macs : tx[n][t] \in Offers(mac)
                                 THEN Idle ELSE tx[n][t]
        RxStep(t) == \/ rx'[n][t] = rx[n][t]
                     \/ IsOffer(rx[n][t]) /\ rx'[n][t] = Idle
    IN  Changes(n, tx, TxStep) /\ Changes(n, rx, RxStep)

(* One commitment ends. *)
Release(n) ==
  \E s \in Timeslot :
    \/ tx[n][s] \in Commitments /\ tx' = [tx EXCEPT ![n][s] = Idle] /\ UNCHANGED rx
    \/ rx[n][s] \in Commitments /\ rx' = [rx EXCEPT ![n][s] = Idle] /\ UNCHANGED tx

Next == \E n \in Station : \/ Propose(n) \/ CommitTx(n) \/ Select(n) \/ CommitRx(n)
                           \/ Withdraw(n) \/ Release(n)

Spec == Init /\ [][Next]_vars
=============================================================================
