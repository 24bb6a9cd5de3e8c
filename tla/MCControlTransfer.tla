------------------------- MODULE MCControlTransfer --------------------------
(* ControlTransfer for two stations, which are symmetric. *)
EXTENDS ControlTransfer

CONSTANTS s1, s2

Stations        == {s1, s2}
StationSymmetry == Permutations(Stations)
=============================================================================
