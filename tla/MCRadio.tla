------------------------------- MODULE MCRadio -------------------------------
(* Two channels, three timeslots of five ms: a guard, two ms of data, the    *)
(* gap and one ms of acknowledgements.  The first is a broadcast timeslot.   *)
EXTENDS Radio

MCBroadcast == {<<0, 0>>}
==============================================================================
