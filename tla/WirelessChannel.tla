-------------------------- MODULE WirelessChannel --------------------------
(* The queue of DarpaWirelessChannel: the frames that the stations' tx_MAC   *)
(* handed over, each with the milliseconds that are left until its           *)
(* phy_timestamp.  One event at a time is scheduled, for the first frame.    *)
(* (Nothing in this build sets an interference slot.)                        *)
EXTENDS Integers, Sequences, FiniteSets

(* AddPacket: behind all others, whatever its timestamp. *)
AddPacket(q, f) == Append(q, f)

(* The event of the first frame is due. *)
SendDue(q) == q # <<>> /\ q[1].wait = 0

(* Frames behind the first that CheckCollisionDropPackets looks at before it *)
(* breaks off, and those of them on the channel of the first.                *)
Looked(q)  == {i \in 2 .. Len(q) : \A j \in 2 .. i : q[j].wait = q[1].wait}

(* Mutant: the loop steps over the frame that follows an erased one. *)
DroppedSkipping(q) ==
  {i \in Looked(q) : q[i].channel = q[1].channel /\ (i > 2 => q[i - 1].channel # q[1].channel)}

Dropped(q) == {i \in Looked(q) : q[i].channel = q[1].channel}
Collision(q) == Dropped(q) # {}

(* What Send leaves of the queue (SendScheduleNext takes the first), as the  *)
(* positions it keeps, in order.                                             *)
Kept(q)    == (2 .. Len(q)) \ Dropped(q)
InOrder(S) == {m \in [1 .. Cardinality(S) -> S] : \A i, j \in DOMAIN m : i < j => m[i] < m[j]}
Picked(q, m) == [i \in DOMAIN m |-> q[m[i]]]

(* A millisecond passes. *)
Closer(q) == [i \in DOMAIN q |-> [q[i] EXCEPT !.wait = @ - 1]]

(* What the events rely on: the queue is in the order of the timestamps. *)
Ordered(q) == \A i, j \in DOMAIN q : i < j => q[i].wait <= q[j].wait
============================================================================
