---------------------------- MODULE ClassQueues -----------------------------
(***************************************************************************)
(* What TDMA_queue promises of the packets for one destination: two lists, *)
(* one for each class.  The high one is served first, what must go again   *)
(* enters it at the front, a new packet enters the low one anywhere, and   *)
(* only the low one loses packets, from its end.  No packet changes its    *)
(* class or overtakes another of its class once it is in.                  *)
(***************************************************************************)
EXTENDS Naturals, Sequences, SequencesExt

VARIABLES high, low

Init == high = <<>> /\ low = <<>>

Take ==
  \/ high # <<>> /\ high' = Tail(high) /\ low' = low
  \/ high = <<>> /\ low # <<>> /\ low' = Tail(low) /\ high' = high

Enter ==
  /\ Len(low') = Len(low) + 1
  /\ \E i \in 1 .. Len(low') : RemoveAt(low', i) = low
  /\ high' = high

Tidy ==
  /\ \E n \in 0 .. Len(high') : SubSeq(high', n + 1, Len(high')) = high
  /\ \E k \in 0 .. Len(low) : low' = SubSeq(low, 1, k)

Next == Take \/ Enter \/ Tidy
Spec == Init /\ [][Next]_<<high, low>>
=============================================================================
