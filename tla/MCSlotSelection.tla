--------------------------- MODULE MCSlotSelection ---------------------------
(* SlotSelection for one station self and two peers on two channels and      *)
(* three timeslots, the last of which carries the broadcast slot; a peer's   *)
(* offer names both slots of the first timeslot and one beside the           *)
(* broadcast slot, and the station sends in the first two.                   *)
EXTENDS SlotSelection, TLC

CONSTANTS self, s1, s2

MCNode         == {s1, s2}
MCStation      == {self}
MCRequestId    == {0}
MCAnnouncement == {{<<0, 1>>}}
MCRadioMessage == {[to |-> "MAC", type |-> "RECEIVE"]}
PeerSymmetry   == Permutations({s1, s2})

Reserved3 == {<<2, 0>>}
Offer3    == {{<<0, 0>>, <<0, 1>>, <<2, 1>>}}
=============================================================================
