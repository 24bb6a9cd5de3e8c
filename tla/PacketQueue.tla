----------------------------- MODULE PacketQueue -----------------------------
(***************************************************************************)
(* TDMA_queue, the queue of packets for one destination, as operators on   *)
(* one queue: the packets, the number of those in the high class, which    *)
(* come first, and the number of all, each kept by itself in the code      *)
(* (queue_data, queue_first_index, queue_last_index).  Builds differ in    *)
(* the order of the low class; this one has DATA_ORDER OLDER_DATA_LAST.    *)
(* An element is a record whose field type is its tdma_queue_packet_type.  *)
(***************************************************************************)
EXTENDS Naturals, Sequences, SequencesExt

HighType == {"APP_HIGH_PRIORITY", "BROADCAST", "CONTROL", "RETRANSMISSION", "AI", "CONTROL_ACK"}
LowType  == {"APP_LOW_PRIORITY"}

EmptyQueue == [data |-> <<>>, first |-> 0, last |-> 0]

IsEmpty(q) == q.last = 0

(* push_front_high_priority of packets that are of type RETRANSMISSION, *)
(* one after the other: es lists them last first.                       *)
PushFrontAll(q, es) ==
  [data |-> es \o q.data, first |-> q.first + Len(es), last |-> q.last + Len(es)]

(* Mutant: the position is counted from the front of the whole queue. *)
PushToPositionOfAll(q, e, position) ==
  [q EXCEPT !.data = IF position > Len(q.data) THEN Append(q.data, e)
                     ELSE InsertAt(q.data, position + 1, e),
            !.last = @ + 1]

(* push_to_position_low_priority: behind position packets of the low class, *)
(* or last if it has not that many.                                         *)
PushToPosition(q, e, position) ==
  [q EXCEPT !.data = IF q.first + position > Len(q.data)
                     THEN Append(q.data, e)
                     ELSE InsertAt(q.data, q.first + position + 1, e),
            !.last = @ + 1]

(* Mutant: the boundary of the classes is left behind. *)
GetDataStaleFirst(q) == [q EXCEPT !.data = Tail(q.data), !.last = @ - 1]

(* queue_get_data_mcs_gain with a packet_count of 1, which is what every *)
(* caller asks for: the first packet leaves.                             *)
GetData(q) ==
  [data |-> Tail(q.data), first |-> IF q.first # 0 THEN q.first - 1 ELSE 0, last |-> q.last - 1]

(* queue_check_timeout drops packets from the end of the low class until it  *)
(* meets one that has not expired: the queue is cut to its first k packets.  *)
IsCut(q, k, Expired(_)) ==
  /\ k \in q.first .. q.last
  /\ \A j \in k + 1 .. q.last : Expired(q.data[j])
  /\ k > q.first => ~Expired(q.data[k])
Cut(q, k) == [q EXCEPT !.data = SubSeq(q.data, 1, k), !.last = k]

(* A sound queue: the counters are those of the packets, the high class is *)
(* in front and nothing of one class is behind the boundary of the other.  *)
SoundQueue(q) ==
  /\ q.last = Len(q.data)
  /\ q.first \in 0 .. q.last
  /\ \A j \in 1 .. q.first : q.data[j].type \in HighType
  /\ \A j \in q.first + 1 .. q.last : q.data[j].type \in LowType
=============================================================================
