--------------------------- MODULE MCSlotProtocol ---------------------------
(* SlotProtocol for two stations s1 and s2, and for three with s3.  Nobody   *)
(* offers, announces or numbers anything from outside: those constants of    *)
(* SlotSelection are as wide as they can be.                                 *)
EXTENDS SlotProtocol

CONSTANTS s1, s2, s3

TwoStations    == {s1, s2}
ThreeStations  == {s1, s2, s3}
MCReserved     == {}
MCRequestId    == 0 .. MaxId
MCOffer        == SUBSET Cell
MCAnnouncement == SUBSET Cell
MCRadioMessage == Receptions
TwoSymmetry    == Permutations(TwoStations)
ThreeSymmetry  == Permutations(ThreeStations)
=============================================================================
