------------------------ MODULE DataTransfer_proofs ------------------------
(***************************************************************************)
(* Proofs about PacketQueue and DataTransfer: the queue keeps its counters *)
(* true, a timeslot never holds more acknowledgements than it has room     *)
(* for, what is counted as acknowledged was received, and the one deque    *)
(* implements a list for each class, for every number of timeslots,        *)
(* packets and faults, and every timeout.                                  *)
(***************************************************************************)
EXTENDS DataTransfer, SequenceTheorems, FiniteSetTheorems, TLAPS

-----------------------------------------------------------------------------
(* One queue *)

QueueOf(S) == [data : Seq(S), first : Nat, last : Nat]

(* push_front: what enters is of the high class. *)
LEMMA PushFrontSound ==
  ASSUME NEW S, NEW q \in QueueOf(S), SoundQueue(q), NEW es \in Seq(S),
         \A j \in 1 .. Len(es) : es[j].type \in HighType
  PROVE  /\ PushFrontAll(q, es) \in QueueOf(S)
         /\ SoundQueue(PushFrontAll(q, es))
<1> DEFINE r == PushFrontAll(q, es)
<1>0. q.data \in Seq(S)
  BY DEF QueueOf
<1>1. /\ r.data = es \o q.data /\ r.first = q.first + Len(es) /\ r.last = q.last + Len(es)
  BY DEF PushFrontAll
<1>2. /\ r.data \in Seq(S) /\ Len(r.data) = Len(es) + Len(q.data)
      /\ \A j \in 1 .. Len(es) + Len(q.data) :
           r.data[j] = IF j <= Len(es) THEN es[j] ELSE q.data[j - Len(es)]
  BY <1>0, <1>1
<1>3. /\ Len(es) \in Nat /\ Len(q.data) \in Nat /\ q.last = Len(q.data)
      /\ q.first \in 0 .. q.last
  BY <1>0 DEF SoundQueue
<1>4. ASSUME NEW j \in 1 .. r.first PROVE r.data[j].type \in HighType
  <2>1. CASE j <= Len(es)
    BY <1>1, <1>2, <1>3, <2>1
  <2>2. CASE j > Len(es)
    <3>1. j - Len(es) \in 1 .. q.first /\ r.data[j] = q.data[j - Len(es)]
      BY <1>1, <1>2, <1>3, <2>2
    <3> QED
      BY <3>1 DEF SoundQueue
  <2> QED
    BY <1>1, <1>3, <2>1, <2>2
<1>5. ASSUME NEW j \in r.first + 1 .. r.last PROVE r.data[j].type \in LowType
  <2>1. j - Len(es) \in q.first + 1 .. q.last /\ r.data[j] = q.data[j - Len(es)]
    BY <1>1, <1>2, <1>3
  <2> QED
    BY <2>1 DEF SoundQueue
<1>6. r.last = Len(r.data) /\ r.first \in 0 .. r.last
  BY <1>1, <1>2, <1>3
<1>7. r \in QueueOf(S)
  BY <1>1, <1>2, <1>3 DEF QueueOf, PushFrontAll
<1> QED
  BY <1>4, <1>5, <1>6, <1>7 DEF SoundQueue

(* t is s with e at position i. *)
Inserted(t, s, i, e) ==
  /\ Len(t) = Len(s) + 1
  /\ \A j \in 1 .. Len(s) + 1 :
       t[j] = IF j < i THEN s[j] ELSE IF j = i THEN e ELSE s[j - 1]

(* InsertAt of the community modules, by its elements. *)
LEMMA InsertAtShape ==
  ASSUME NEW S, NEW s \in Seq(S), NEW e \in S, NEW i \in 1 .. Len(s) + 1
  PROVE  InsertAt(s, i, e) \in Seq(S) /\ Inserted(InsertAt(s, i, e), s, i, e)
<1> DEFINE a == SubSeq(s, 1, i - 1)
           b == SubSeq(s, i, Len(s))
           c == a \o <<e>>
<1>1. Len(s) \in Nat /\ i \in Nat
  OBVIOUS
<1>2. /\ a \in Seq(S) /\ Len(a) = i - 1 /\ \A j \in 1 .. i - 1 : a[j] = s[j]
  BY <1>1
<1>3. /\ b \in Seq(S) /\ Len(b) = Len(s) - i + 1
      /\ \A j \in 1 .. Len(s) - i + 1 : b[j] = s[i + j - 1]
  BY <1>1
<1>4. InsertAt(s, i, e) = c \o b
  BY DEF InsertAt
<1> HIDE DEF a, b
<1>5. /\ c \in Seq(S) /\ Len(c) = Len(a) + 1
      /\ \A j \in 1 .. Len(a) + 1 : c[j] = IF j <= Len(a) THEN a[j] ELSE <<e>>[j - Len(a)]
  <2>1. <<e>> \in Seq(S) /\ Len(<<e>>) = 1
    OBVIOUS
  <2> QED
    BY <1>2, <2>1, ConcatProperties
<1> HIDE DEF c
<1>6. ASSUME NEW j \in 1 .. i PROVE c[j] = IF j < i THEN s[j] ELSE e
  <2>1. CASE j < i
    BY <1>1, <1>2, <1>5, <2>1
  <2>2. CASE j = i
    BY <1>1, <1>2, <1>5, <2>2
  <2>3. j < i \/ j = i
    BY <1>1
  <2> QED
    BY <1>1, <2>1, <2>2, <2>3
<1>7. /\ c \o b \in Seq(S) /\ Len(c \o b) = i + Len(b)
      /\ \A j \in 1 .. i + Len(b) : (c \o b)[j] = IF j <= i THEN c[j] ELSE b[j - i]
  <2>1. Len(c) = i
    BY <1>1, <1>2, <1>5
  <2> QED
    BY <1>3, <1>5, <2>1, ConcatProperties
<1>8. ASSUME NEW j \in 1 .. Len(s) + 1, j > i PROVE b[j - i] = s[j - 1]
  <2>1. j - i \in 1 .. Len(s) - i + 1 /\ i + (j - i) - 1 = j - 1
    BY <1>1, <1>8
  <2> QED
    BY <1>3, <2>1
<1>9. ASSUME NEW t, t = c \o b PROVE t \in Seq(S) /\ Inserted(t, s, i, e)
  BY <1>1, <1>3, <1>6, <1>7, <1>8, <1>9 DEF Inserted
<1> QED
  BY <1>4, <1>9

(* A new packet stands behind the high class, wherever that is. *)
LEMMA PushToPositionShape ==
  ASSUME NEW S, NEW q \in QueueOf(S), SoundQueue(q), NEW e \in S, NEW position \in Nat,
         NEW r, r = PushToPosition(q, e, position)
  PROVE  /\ r \in QueueOf(S) /\ r.first = q.first /\ r.last = q.last + 1
         /\ \E i \in q.first + 1 .. Len(q.data) + 1 : Inserted(r.data, q.data, i, e)
<1> DEFINE d == IF q.first + position > Len(q.data) THEN Append(q.data, e)
                ELSE InsertAt(q.data, q.first + position + 1, e)
<1>1. /\ q.data \in Seq(S) /\ Len(q.data) \in Nat /\ q.first \in 0 .. Len(q.data)
      /\ q.first \in Nat /\ q.last \in Nat
  BY DEF QueueOf, SoundQueue
<1>2. r = [[q EXCEPT !.data = d] EXCEPT !.last = q.last + 1]
  BY DEF PushToPosition
<1>3. /\ d \in Seq(S)
      /\ \E i \in q.first + 1 .. Len(q.data) + 1 : Inserted(d, q.data, i, e)
  <2>1. CASE q.first + position > Len(q.data)
    <3>1. d = Append(q.data, e)
      BY <2>1
    <3> HIDE DEF d
    <3>2. d \in Seq(S) /\ Inserted(d, q.data, Len(q.data) + 1, e)
      BY <1>1, <3>1 DEF Inserted
    <3>3. Len(q.data) + 1 \in q.first + 1 .. Len(q.data) + 1
      BY <1>1
    <3> QED
      BY <3>2, <3>3
  <2>2. CASE ~(q.first + position > Len(q.data))
    <3> DEFINE i == q.first + position + 1
    <3>1. d = InsertAt(q.data, i, e)
      BY <2>2
    <3>2. i \in q.first + 1 .. Len(q.data) + 1 /\ i \in 1 .. Len(q.data) + 1
      BY <1>1, <2>2
    <3> HIDE DEF d, i
    <3>3. d \in Seq(S) /\ Inserted(d, q.data, i, e)
      BY <1>1, <3>1, <3>2, InsertAtShape
    <3> QED
      BY <3>2, <3>3
  <2> QED
    BY <2>1, <2>2
<1> HIDE DEF d
<1>4. r = [data |-> d, first |-> q.first, last |-> q.last + 1]
  BY <1>2 DEF QueueOf
<1>5. /\ r.data = d /\ r.first = q.first /\ r.last = q.last + 1 /\ r \in QueueOf(S)
  BY <1>1, <1>3, <1>4 DEF QueueOf
<1> QED
  BY <1>3, <1>5

LEMMA PushToPositionSound ==
  ASSUME NEW S, NEW q \in QueueOf(S), SoundQueue(q), NEW e \in S, e.type \in LowType,
         NEW position \in Nat, NEW r, r = PushToPosition(q, e, position)
  PROVE  r \in QueueOf(S) /\ SoundQueue(r)
<1>1. /\ q.data \in Seq(S) /\ Len(q.data) \in Nat /\ q.first \in 0 .. Len(q.data)
      /\ q.last = Len(q.data)
  BY DEF QueueOf, SoundQueue
<1>2. /\ r \in QueueOf(S) /\ r.first = q.first /\ r.last = q.last + 1
  BY PushToPositionShape
<1>3. PICK i \in q.first + 1 .. Len(q.data) + 1 : Inserted(r.data, q.data, i, e)
  BY PushToPositionShape
<1>4. ASSUME NEW j \in 1 .. r.first PROVE r.data[j].type \in HighType
  <2>1. j \in 1 .. q.first /\ j \in 1 .. Len(q.data) + 1 /\ j < i
    BY <1>1, <1>2
  <2>2. r.data[j] = q.data[j]
    BY <1>3, <2>1 DEF Inserted
  <2> QED
    BY <2>1, <2>2 DEF SoundQueue
<1>5. ASSUME NEW j \in r.first + 1 .. r.last PROVE r.data[j].type \in LowType
  <2>1. /\ j \in 1 .. Len(q.data) + 1
        /\ j < i => j \in q.first + 1 .. q.last
        /\ ~(j < i) /\ j # i => j - 1 \in q.first + 1 .. q.last
    BY <1>1, <1>2
  <2>2. r.data[j] = IF j < i THEN q.data[j] ELSE IF j = i THEN e ELSE q.data[j - 1]
    BY <1>3, <2>1 DEF Inserted
  <2> QED
    BY <2>1, <2>2 DEF SoundQueue
<1>6. r.last = Len(r.data) /\ r.first \in 0 .. r.last
  BY <1>1, <1>2, <1>3 DEF Inserted
<1> QED
  BY <1>2, <1>4, <1>5, <1>6 DEF SoundQueue

(* The first packet leaves. *)
LEMMA GetDataSound ==
  ASSUME NEW S, NEW q \in QueueOf(S), SoundQueue(q), ~IsEmpty(q)
  PROVE  /\ GetData(q) \in QueueOf(S) /\ SoundQueue(GetData(q))
         /\ Head(q.data) \in S /\ Len(GetData(q).data) = Len(q.data) - 1
         /\ \A j \in 1 .. Len(q.data) - 1 : GetData(q).data[j] = q.data[j + 1]
<1> DEFINE r == GetData(q)
<1>1. /\ q.data \in Seq(S) /\ Len(q.data) \in Nat /\ q.first \in 0 .. Len(q.data)
      /\ q.last = Len(q.data) /\ q.data # <<>> /\ Len(q.data) > 0
  BY DEF QueueOf, SoundQueue, IsEmpty
<1>2. /\ r.data = Tail(q.data) /\ r.last = q.last - 1
      /\ r.first = IF q.first # 0 THEN q.first - 1 ELSE 0
      /\ r = [data |-> r.data, first |-> r.first, last |-> r.last]
  BY DEF GetData
<1> HIDE DEF r
<1>3. /\ r.data \in Seq(S) /\ Len(r.data) = Len(q.data) - 1 /\ Head(q.data) \in S
      /\ \A j \in 1 .. Len(q.data) - 1 : r.data[j] = q.data[j + 1]
  BY <1>1, <1>2
<1>4. ASSUME NEW j \in 1 .. r.first PROVE r.data[j].type \in HighType
  <2>1. r.data[j] = q.data[j + 1] /\ j + 1 \in 1 .. q.first
    BY <1>1, <1>2, <1>3
  <2> QED
    BY <2>1 DEF SoundQueue
<1>5. ASSUME NEW j \in r.first + 1 .. r.last PROVE r.data[j].type \in LowType
  <2>1. r.data[j] = q.data[j + 1] /\ j + 1 \in q.first + 1 .. q.last
    BY <1>1, <1>2, <1>3
  <2> QED
    BY <2>1 DEF SoundQueue
<1>6. r.last = Len(r.data) /\ r.first \in 0 .. r.last
  BY <1>1, <1>2, <1>3
<1>7. r \in QueueOf(S)
  <2>1. r.first \in Nat /\ r.last \in Nat
    BY <1>1, <1>2
  <2> QED
    BY <1>2, <1>3, <2>1 DEF QueueOf
<1> QED
  BY <1>3, <1>4, <1>5, <1>6, <1>7 DEF SoundQueue, r

(* queue_check_timeout leaves the high class alone. *)
LEMMA CutSound ==
  ASSUME NEW S, NEW q \in QueueOf(S), SoundQueue(q), NEW k \in q.first .. q.last
  PROVE  /\ Cut(q, k) \in QueueOf(S) /\ SoundQueue(Cut(q, k))
         /\ Len(Cut(q, k).data) = k
         /\ \A j \in 1 .. k : Cut(q, k).data[j] = q.data[j]
<1> DEFINE r == Cut(q, k)
<1>1. /\ q.data \in Seq(S) /\ Len(q.data) \in Nat /\ q.first \in 0 .. Len(q.data)
      /\ q.last = Len(q.data) /\ k \in Nat /\ k \in 0 .. Len(q.data)
  BY DEF QueueOf, SoundQueue
<1>2. /\ r.data = SubSeq(q.data, 1, k) /\ r.last = k /\ r.first = q.first
      /\ r.data \in Seq(S) => r \in QueueOf(S)
  BY <1>1 DEF Cut, QueueOf
<1> HIDE DEF r
<1>3. /\ r.data \in Seq(S) /\ Len(r.data) = k /\ \A j \in 1 .. k : r.data[j] = q.data[j]
  BY <1>1, <1>2
<1>4. /\ \A j \in 1 .. r.first : r.data[j].type \in HighType
      /\ \A j \in r.first + 1 .. r.last : r.data[j].type \in LowType
  <2>1. /\ \A j \in 1 .. q.first : q.data[j].type \in HighType
        /\ \A j \in q.first + 1 .. q.last : q.data[j].type \in LowType
    BY DEF SoundQueue
  <2>2. /\ \A j \in 1 .. r.first : j \in 1 .. q.first /\ r.data[j] = q.data[j]
        /\ \A j \in r.first + 1 .. r.last :
             j \in q.first + 1 .. q.last /\ r.data[j] = q.data[j]
    BY <1>1, <1>2, <1>3
  <2> QED
    BY <2>1, <2>2
<1>5. r.last = Len(r.data) /\ r.first \in 0 .. r.last
  BY <1>1, <1>2, <1>3
<1> QED
  BY <1>2, <1>3, <1>4, <1>5 DEF SoundQueue, r

(* A millisecond in the queue changes nothing but ages. *)
LEMMA AgedSound ==
  ASSUME NEW q \in QueueOf(Elements), SoundQueue(q), NEW r,
         r = [q EXCEPT !.data = [i \in DOMAIN q.data |-> Aged(q.data[i])]]
  PROVE  /\ r \in QueueOf(Elements) /\ SoundQueue(r)
         /\ r.first = q.first /\ Len(r.data) = Len(q.data)
         /\ \A i \in 1 .. Len(q.data) : /\ r.data[i].packet = q.data[i].packet
                                        /\ r.data[i].type = q.data[i].type
<1> DEFINE d == [i \in DOMAIN q.data |-> Aged(q.data[i])]
<1>1. /\ q.data \in Seq(Elements) /\ Len(q.data) \in Nat /\ DOMAIN q.data = 1 .. Len(q.data)
      /\ q.first \in Nat /\ q.last \in Nat
  BY DEF QueueOf
<1>2. ASSUME NEW e \in Elements
      PROVE  Aged(e) \in Elements /\ Aged(e).packet = e.packet /\ Aged(e).type = e.type
  <2>1. QueueTimeout \in Nat
    BY DataAssumption DEF DataAssumption
  <2>2. Older(e.age, QueueTimeout + 1) \in 0 .. QueueTimeout + 1
    BY <2>1 DEF Older, Elements
  <2> QED
    BY <2>2 DEF Elements, Aged
<1>3. \A i \in 1 .. Len(q.data) :
        d[i] \in Elements /\ d[i].packet = q.data[i].packet /\ d[i].type = q.data[i].type
  BY <1>1, <1>2
<1>4. r = [data |-> d, first |-> q.first, last |-> q.last]
  <2>1. r = [q EXCEPT !.data = d]
    OBVIOUS
  <2> HIDE DEF d
  <2> QED
    BY <2>1 DEF QueueOf
<1>5. d \in [1 .. Len(q.data) -> Elements]
  BY <1>1, <1>3
<1> HIDE DEF d
<1>6. d \in Seq(Elements) /\ Len(d) = Len(q.data)
  BY <1>1, <1>5
<1>7. r.data = d /\ r.first = q.first /\ r.last = q.last
  BY <1>4
<1>8. r \in QueueOf(Elements)
  <2>1. [data |-> d, first |-> q.first, last |-> q.last] \in QueueOf(Elements)
    BY <1>1, <1>6 DEF QueueOf
  <2> QED
    BY <1>4, <2>1, Zenon
<1>9. SoundQueue(r)
  BY <1>1, <1>3, <1>6, <1>7 DEF SoundQueue
<1> QED
  BY <1>3, <1>6, <1>7, <1>8, <1>9

-----------------------------------------------------------------------------
(* Types *)

Clock == slot \in Slots /\ ms \in 0 .. SlotLen - 1 /\ phase \in {"other", "tx", "rx"}

SenderState ==
  /\ queue \in QueueOf(Elements) /\ SoundQueue(queue)
  /\ pps \in 0 .. MaxPps - 1 /\ next \in 1 .. MaxPackets + 1
  /\ left \in [Packets -> 0 .. Tries] /\ timer \in [Packets -> 0 .. Off]
  /\ sends \in [Packets -> 0 .. Tries + 1]

ReceiverState ==
  /\ buffer \in Seq(Packets)
  /\ acks \in [Slots -> [data : Seq(Seq(Packets)), sent : Nat]]

(* Between tx_MAC and the frame of Lead ms ago there is one frame more. *)
Channel == air \in Seq(Frames) /\ Len(air) = IF phase = "rx" THEN Lead + 1 ELSE Lead

Environment ==
  /\ sendSlots \subseteq Slots /\ recvSlots \subseteq Slots
  /\ faults \in 0 .. MaxFaults /\ blocked \in BOOLEAN
  /\ fresh \subseteq Packets /\ got \subseteq Packets /\ acked \subseteq Packets
  /\ failed \subseteq Packets /\ expired \subseteq Packets

Types == Clock /\ SenderState /\ ReceiverState /\ Channel /\ Environment

LEMMA ConstantTypes ==
  /\ NumSlots \in Nat \ {0} /\ DataMs \in Nat \ {0} /\ AckMs \in Nat /\ AckMs >= 2
  /\ BufferSize \in Nat \ {0} /\ Tries \in Nat \ {0} /\ Timeout \in Nat \ {0}
  /\ QueueTimeout \in Nat \ {0} /\ MaxPackets \in Nat /\ MaxFaults \in Nat
  /\ SlotLen \in Nat /\ SlotLen >= 4 /\ MaxPps = DataMs /\ AckSlots \in Nat \ {0}
  /\ Lead = 2 /\ Off = Timeout + 2
BY DataAssumption DEF DataAssumption, SlotLen, MaxPps, AckSlots, Lead, Off

LEMMA InitTypes == Init => Types
<1> SUFFICES ASSUME Init PROVE Types
  OBVIOUS
<1> USE ConstantTypes DEF Init
<1>1. Clock
  BY DEF Clock, Slots
<1>2. SenderState
  <2>1. queue \in QueueOf(Elements) /\ SoundQueue(queue)
    BY DEF EmptyQueue, QueueOf, SoundQueue
  <2>2. /\ left \in [Packets -> 0 .. Tries] /\ timer \in [Packets -> 0 .. Off]
        /\ sends \in [Packets -> 0 .. Tries + 1]
    OBVIOUS
  <2> QED
    BY <2>1, <2>2 DEF SenderState
<1>3. ReceiverState
  BY DEF ReceiverState
<1>4. Channel
  <2>1. air \in [1 .. 2 -> Frames]
    BY DEF Frames
  <2> QED
    BY <2>1 DEF Channel
<1>5. Environment
  <2>1. sendSlots \subseteq Slots /\ recvSlots \subseteq Slots /\ faults \in 0 .. MaxFaults
    BY DEF Slots
  <2>2. blocked \in BOOLEAN
    BY Zenon
  <2> QED
    BY <2>1, <2>2 DEF Environment
<1> QED
  BY <1>1, <1>2, <1>3, <1>4, <1>5 DEF Types

LEMMA AcceptTypes == Types /\ Accept => Types'
<1> SUFFICES ASSUME Types, Accept PROVE Types'
  OBVIOUS
<1> DEFINE e == [packet |-> next, type |-> "APP_LOW_PRIORITY", age |-> 0]
<1>1. next \in Packets /\ pps \in Nat
  BY ConstantTypes DEF Accept, Types, SenderState, Packets
<1>2. e \in Elements /\ e.type \in LowType
  BY <1>1, ConstantTypes DEF Elements, LowType
<1>3. queue' = PushToPosition(queue, e, pps)
  BY DEF Accept
<1> HIDE DEF e
<1>4. queue' \in QueueOf(Elements) /\ SoundQueue(queue')
  BY <1>1, <1>2, <1>3, PushToPositionSound DEF Types, SenderState
<1>5. pps' \in 0 .. MaxPps - 1 /\ next' \in 1 .. MaxPackets + 1
  BY ConstantTypes DEF Accept, Types, SenderState
<1>6. SenderState'
  BY <1>4, <1>5 DEF Accept, Types, SenderState, history
<1>7. Clock' /\ ReceiverState' /\ Channel'
  BY DEF Accept, Types, Clock, ReceiverState, Channel, receiver
<1>8. Environment'
  <2>1. blocked' \in BOOLEAN /\ fresh' \subseteq Packets
    BY <1>1 DEF Accept, Types, Environment
  <2> QED
    BY <2>1 DEF Accept, Types, Environment, cells, history
<1> QED
  BY <1>6, <1>7, <1>8 DEF Types

(* The retransmissions of one check, however many, go to the front. *)
LEMMA QueuedShape ==
  ASSUME queue \in QueueOf(Elements), SoundQueue(queue),
         NEW order \in [1 .. Cardinality(Again) -> Again]
  PROVE  LET es == [i \in DOMAIN order |-> Retransmission(order[i])]
         IN  /\ es \in Seq(Elements) /\ Len(es) = Cardinality(Again)
             /\ \A i \in 1 .. Cardinality(Again) :
                  es[i].type = "RETRANSMISSION" /\ es[i].packet = order[i]
<1> DEFINE es == [i \in DOMAIN order |-> Retransmission(order[i])]
<1>1. Again \subseteq Packets /\ IsFiniteSet(Packets)
  BY ConstantTypes, FS_Interval DEF Again, DueEntries, Packets
<1>2. Cardinality(Again) \in Nat
  BY <1>1, FS_Subset, FS_CardinalityType
<1>3. \A p \in Packets : /\ Retransmission(p) \in Elements
                         /\ Retransmission(p).type = "RETRANSMISSION"
                         /\ Retransmission(p).packet = p
  BY ConstantTypes DEF Retransmission, Elements, HighType
<1>4. \A i \in 1 .. Cardinality(Again) : order[i] \in Packets /\ es[i] = Retransmission(order[i])
  BY <1>1
<1>5. es \in [1 .. Cardinality(Again) -> Elements]
  BY <1>3, <1>4
<1> HIDE DEF es
<1>6. es \in Seq(Elements) /\ Len(es) = Cardinality(Again)
  BY <1>2, <1>5
<1> QED
  BY <1>3, <1>4, <1>6 DEF es

LEMMA QueuedSound ==
  ASSUME queue \in QueueOf(Elements), SoundQueue(queue),
         NEW order \in [1 .. Cardinality(Again) -> Again]
  PROVE  Queued(order) \in QueueOf(Elements) /\ SoundQueue(Queued(order))
<1> DEFINE es == [i \in DOMAIN order |-> Retransmission(order[i])]
<1>1. /\ es \in Seq(Elements) /\ Len(es) = Cardinality(Again)
      /\ \A i \in 1 .. Cardinality(Again) : es[i].type = "RETRANSMISSION"
  BY QueuedShape
<1>2. Queued(order) = PushFrontAll(queue, es)
  BY DEF Queued
<1> HIDE DEF es
<1>3. \A i \in 1 .. Len(es) : es[i].type \in HighType
  BY <1>1 DEF HighType
<1> QED
  BY <1>1, <1>2, <1>3, PushFrontSound

LEMMA ProcessOtherTypes == Types /\ ProcessOther => Types'
<1> SUFFICES ASSUME Types, ProcessOther PROVE Types'
  OBVIOUS
<1> USE ConstantTypes
<1>1. CASE ~OtherDue
  <2>1. UNCHANGED <<left, timer, failed, queue, expired, slot, ms, pps, blocked, next, fresh,
                    buffer, acks, sendSlots, recvSlots, air, got, acked, sends, faults>>
    BY <1>1 DEF ProcessOther, receiver, cells
  <2>2. phase = "other" /\ phase' = "tx"
    BY DEF ProcessOther
  <2> QED
    BY <2>1, <2>2 DEF Types, Clock, SenderState, ReceiverState, Channel, Environment
<1>2. CASE OtherDue
  <2>1. /\ left'  = [p \in Packets |-> IF p \in DueEntries THEN left[p] - 1 ELSE left[p]]
        /\ timer' = [p \in Packets |-> IF p \in Again THEN Off ELSE timer[p]]
        /\ failed' = failed \cup (DueEntries \ Again)
        /\ UNCHANGED <<slot, ms, pps, blocked, next, fresh, buffer, acks, sendSlots,
                       recvSlots, air, got, acked, sends, faults>>
        /\ phase = "other" /\ phase' = "tx"
    BY <1>2 DEF ProcessOther, receiver, cells
  <2>2. DueEntries \subseteq Packets /\ Again \subseteq Packets
    BY DEF DueEntries, Again
  <2>3. left' \in [Packets -> 0 .. Tries]
    BY <2>1 DEF DueEntries, Types, SenderState
  <2>4. timer' \in [Packets -> 0 .. Off]
    BY <2>1 DEF Types, SenderState
  <2>5. PICK order \in [1 .. Cardinality(Again) -> Again] :
          IF ms = Lead + 1
          THEN \E k \in 0 .. Len(Queued(order).data) :
                 /\ IsCut(Queued(order), k, Old)
                 /\ queue' = Cut(Queued(order), k)
                 /\ expired' = expired \cup
                      {Queued(order).data[j].packet : j \in k + 1 .. Len(Queued(order).data)}
          ELSE queue' = Queued(order) /\ UNCHANGED expired
    BY <1>2 DEF ProcessOther
  <2>6. /\ Queued(order) \in QueueOf(Elements) /\ SoundQueue(Queued(order))
    BY QueuedSound, <2>5 DEF Types, SenderState
  <2>7. /\ queue' \in QueueOf(Elements) /\ SoundQueue(queue') /\ expired' \subseteq Packets
    <3>1. CASE ms # Lead + 1
      BY <2>5, <2>6, <3>1 DEF Types, Environment
    <3>2. CASE ms = Lead + 1
      <4>1. PICK k \in 0 .. Len(Queued(order).data) :
              /\ IsCut(Queued(order), k, Old)
              /\ queue' = Cut(Queued(order), k)
              /\ expired' = expired \cup
                   {Queued(order).data[j].packet : j \in k + 1 .. Len(Queued(order).data)}
        BY <2>5, <3>2
      <4>2. k \in Queued(order).first .. Queued(order).last
        BY <4>1 DEF IsCut
      <4>3. queue' \in QueueOf(Elements) /\ SoundQueue(queue')
        BY <2>6, <4>1, <4>2, CutSound
      <4>4. ASSUME NEW j \in k + 1 .. Len(Queued(order).data)
            PROVE  Queued(order).data[j].packet \in Packets
        <5>1. Queued(order).data \in Seq(Elements)
          BY <2>6 DEF QueueOf
        <5>2. j \in 1 .. Len(Queued(order).data)
          BY <4>1, <5>1
        <5>3. Queued(order).data[j] \in Elements
          BY <5>1, <5>2
        <5> QED
          BY <5>3 DEF Elements
      <4> QED
        BY <4>1, <4>3, <4>4 DEF Types, Environment
    <3> QED
      BY <3>1, <3>2
  <2>8. Clock' /\ ReceiverState' /\ Channel'
    BY <2>1 DEF Types, Clock, ReceiverState, Channel
  <2>9. SenderState'
    BY <2>1, <2>3, <2>4, <2>7 DEF Types, SenderState
  <2>10. Environment'
    BY <2>1, <2>2, <2>7 DEF Types, Environment
  <2> QED
    BY <2>8, <2>9, <2>10 DEF Types
<1> QED
  BY <1>1, <1>2

(* What tx_MAC hands over is one frame. *)
LEMMA AirAppended ==
  ASSUME air \in Seq(Frames), NEW f \in Frames, air' = Append(air, f)
  PROVE  air' \in Seq(Frames) /\ Len(air') = Len(air) + 1
OBVIOUS

LEMMA ClearedTypes ==
  ASSUME Types
  PROVE  /\ Cleared \in [Slots -> [data : Seq(Seq(Packets)), sent : Nat]]
         /\ \A s \in Slots : /\ Cleared[s].data = acks[s].data
                             /\ Cleared[s].sent = 0 \/ Cleared[s].sent = acks[s].sent
<1>1. /\ acks \in [Slots -> [data : Seq(Seq(Packets)), sent : Nat]]
      /\ slot \in 0 .. NumSlots - 1 /\ NumSlots \in Nat \ {0}
  BY ConstantTypes DEF Types, ReceiverState, Clock, Slots
<1>2. Before(slot) \in Slots
  BY <1>1 DEF Before, Slots
<1> DEFINE x == [acks[Before(slot)] EXCEPT !.sent = 0]
<1>3. x \in [data : Seq(Seq(Packets)), sent : Nat] /\ x.data = acks[Before(slot)].data /\ x.sent = 0
  BY <1>1, <1>2
<1>4. Cleared = [acks EXCEPT ![Before(slot)] = x]
  BY DEF Cleared
<1> HIDE DEF x
<1> QED
  BY <1>1, <1>2, <1>3, <1>4

LEMMA SendDataTypes ==
  ASSUME Types, SendData
  PROVE  /\ queue' \in QueueOf(Elements) /\ SoundQueue(queue')
         /\ left' \in [Packets -> 0 .. Tries] /\ timer' \in [Packets -> 0 .. Off]
         /\ sends' \in [Packets -> 0 .. Tries + 1]
         /\ ReceiverState' /\ air' \in Seq(Frames) /\ Len(air') = Len(air) + 1
<1> DEFINE p == Head(queue.data).packet
<1>1. ~IsEmpty(queue) /\ queue' = GetData(queue)
  BY DEF SendData, SendsData
<1>2. /\ queue' \in QueueOf(Elements) /\ SoundQueue(queue') /\ Head(queue.data) \in Elements
  BY <1>1, GetDataSound DEF Types, SenderState
<1>3. p \in Packets
  BY <1>2 DEF Elements
<1>4. /\ left' = [left EXCEPT ![p] = IF @ = 0 THEN Tries ELSE @]
      /\ timer' = [timer EXCEPT ![p] = 0]
      /\ sends' = [sends EXCEPT ![p] = IF @ <= Tries THEN @ + 1 ELSE @]
      /\ air' = Append(air, [type |-> "data", slot |-> slot, packet |-> p])
      /\ acks' = Cleared /\ buffer' = buffer
  BY DEF SendData, Restarted
<1> HIDE DEF p
<1>5. left' \in [Packets -> 0 .. Tries] /\ timer' \in [Packets -> 0 .. Off]
  BY <1>3, <1>4, ConstantTypes DEF Types, SenderState
<1>6. sends' \in [Packets -> 0 .. Tries + 1]
  BY <1>3, <1>4, ConstantTypes DEF Types, SenderState
<1>7. ReceiverState'
  BY <1>4, ClearedTypes DEF Types, ReceiverState
<1>8. [type |-> "data", slot |-> slot, packet |-> p] \in Frames
  BY <1>3 DEF Frames, Types, Clock
<1>9. air' \in Seq(Frames) /\ Len(air') = Len(air) + 1
  BY <1>4, <1>8, AirAppended DEF Types, Channel
<1> QED
  BY <1>2, <1>5, <1>6, <1>7, <1>9

LEMMA SendAckTypes ==
  ASSUME Types, SendAck \/ SendLastAck \/ SendNothing
  PROVE  /\ UNCHANGED <<queue, left, timer, sends>>
         /\ ReceiverState' /\ air' \in Seq(Frames) /\ Len(air') = Len(air) + 1
<1>1. UNCHANGED <<queue, left, timer, sends>>
  BY DEF SendAck, SendLastAck, SendNothing
<1>2. /\ buffer \in Seq(Packets) /\ air \in Seq(Frames) /\ slot \in Slots
      /\ acks \in [Slots -> [data : Seq(Seq(Packets)), sent : Nat]]
  BY DEF Types, ReceiverState, Channel, Clock
<1>3. CASE SendAck
  <2>1. /\ air' = Append(air, [type |-> "ack", slot |-> slot, packets |-> Head(acks[slot].data)])
        /\ acks' = [Cleared EXCEPT ![slot] = [data |-> Tail(@.data), sent |-> @.sent + 1]]
        /\ acks[slot].data # <<>> /\ buffer' = buffer
    BY <1>3 DEF SendAck, SendsAck
  <2>2. Head(acks[slot].data) \in Seq(Packets) /\ acks[slot].data \in Seq(Seq(Packets))
    BY <1>2, <2>1
  <2>3. [type |-> "ack", slot |-> slot, packets |-> Head(acks[slot].data)] \in Frames
    BY <1>2, <2>2 DEF Frames
  <2>4. [data |-> Tail(Cleared[slot].data), sent |-> Cleared[slot].sent + 1]
          \in [data : Seq(Seq(Packets)), sent : Nat]
    BY <1>2, <2>1, <2>2, ClearedTypes
  <2>5. acks' \in [Slots -> [data : Seq(Seq(Packets)), sent : Nat]]
    BY <1>2, <2>1, <2>4, ClearedTypes
  <2>6. air' \in Seq(Frames) /\ Len(air') = Len(air) + 1
    BY <1>2, <2>1, <2>3, AirAppended
  <2> QED
    BY <1>1, <1>2, <2>1, <2>5, <2>6 DEF ReceiverState
<1>4. CASE SendLastAck
  <2>1. /\ air' = Append(air, [type |-> "ack", slot |-> slot, packets |-> buffer])
        /\ acks' = Cleared /\ buffer' = <<>>
    BY <1>4 DEF SendLastAck
  <2>2. [type |-> "ack", slot |-> slot, packets |-> buffer] \in Frames
    BY <1>2 DEF Frames
  <2>3. air' \in Seq(Frames) /\ Len(air') = Len(air) + 1
    BY <1>2, <2>1, <2>2, AirAppended
  <2>4. buffer' \in Seq(Packets)
    BY <2>1
  <2> QED
    BY <1>1, <2>1, <2>3, <2>4, ClearedTypes DEF ReceiverState
<1>5. CASE SendNothing
  <2>1. air' = Append(air, Silence) /\ acks' = Cleared /\ buffer' = buffer
    BY <1>5 DEF SendNothing
  <2>2. Silence \in Frames
    BY DEF Frames
  <2>3. air' \in Seq(Frames) /\ Len(air') = Len(air) + 1
    BY <1>2, <2>1, <2>2, AirAppended
  <2> QED
    BY <1>1, <1>2, <2>1, <2>3, ClearedTypes DEF ReceiverState
<1> QED
  BY <1>3, <1>4, <1>5

LEMMA TxMacTypes == Types /\ TxMac => Types'
<1> SUFFICES ASSUME Types, TxMac PROVE Types'
  OBVIOUS
<1>1. /\ phase = "tx" /\ phase' = "rx"
      /\ UNCHANGED <<slot, ms, next, sendSlots, recvSlots, got, acked, failed, expired, faults>>
  BY DEF TxMac, cells
<1>2. /\ queue' \in QueueOf(Elements) /\ SoundQueue(queue')
      /\ left' \in [Packets -> 0 .. Tries] /\ timer' \in [Packets -> 0 .. Off]
      /\ sends' \in [Packets -> 0 .. Tries + 1]
      /\ ReceiverState' /\ air' \in Seq(Frames) /\ Len(air') = Len(air) + 1
  <2>1. CASE SendData
    BY <2>1, SendDataTypes
  <2>2. CASE SendAck \/ SendLastAck \/ SendNothing
    BY <2>2, SendAckTypes DEF Types, SenderState
  <2> QED
    BY <2>1, <2>2, Zenon DEF TxMac
<1>3. pps' \in 0 .. MaxPps - 1
  BY ConstantTypes DEF TxMac, CountPackets, Types, SenderState
<1>4. blocked' \in BOOLEAN /\ fresh' \subseteq Packets
  <2>1. CASE ms = Lead + 1
    BY <2>1 DEF TxMac, CountPackets
  <2>2. CASE ms # Lead + 1
    BY <2>2 DEF TxMac, CountPackets, Types, Environment
  <2> QED
    BY <2>1, <2>2
<1>5. SenderState'
  BY <1>1, <1>2, <1>3 DEF Types, SenderState
<1>6. Channel'
  BY <1>1, <1>2, ConstantTypes DEF Types, Channel
<1>7. Clock'
  BY <1>1 DEF Types, Clock
<1>8. Environment'
  BY <1>1, <1>4 DEF Types, Environment
<1> QED
  BY <1>2, <1>5, <1>6, <1>7, <1>8 DEF Types

LEMMA AddAckTypes ==
  ASSUME Types, NEW packets \in Seq(Packets), AddAck(packets)
  PROVE  acks' \in [Slots -> [data : Seq(Seq(Packets)), sent : Nat]]
<1>1. /\ acks \in [Slots -> [data : Seq(Seq(Packets)), sent : Nat]]
      /\ recvSlots \subseteq Slots
  BY DEF Types, ReceiverState, Environment
<1>2. ASSUME NEW s \in recvSlots, acks' = [acks EXCEPT ![s].data = Append(@, packets)]
      PROVE  acks' \in [Slots -> [data : Seq(Seq(Packets)), sent : Nat]]
  <2>1. acks[s] \in [data : Seq(Seq(Packets)), sent : Nat] /\ s \in Slots
    BY <1>1
  <2>2. Append(acks[s].data, packets) \in Seq(Seq(Packets))
    BY <2>1
  <2>3. [acks[s] EXCEPT !.data = Append(acks[s].data, packets)]
          \in [data : Seq(Seq(Packets)), sent : Nat]
    BY <2>1, <2>2
  <2> QED
    BY <1>1, <1>2, <2>3
<1>3. CASE /\ slot \in recvSlots /\ acks[slot].sent > 0
           /\ acks' = [acks EXCEPT ![slot] =
                         [data |-> Append(@.data, packets), sent |-> @.sent - 1]]
  <2>1. acks[slot] \in [data : Seq(Seq(Packets)), sent : Nat] /\ slot \in Slots
    BY <1>1, <1>3
  <2>2. Append(acks[slot].data, packets) \in Seq(Seq(Packets)) /\ acks[slot].sent - 1 \in Nat
    BY <1>3, <2>1
  <2> QED
    BY <1>1, <1>3, <2>2
<1> QED
  BY <1>1, <1>2, <1>3 DEF AddAck

LEMMA ArriveTypes ==
  ASSUME Types, NEW f \in Frames, Arrive(f)
  PROVE  /\ ReceiverState' /\ left' \in [Packets -> 0 .. Tries]
         /\ got' \subseteq Packets /\ acked' \subseteq Packets /\ faults' \in 0 .. MaxFaults
<1> DEFINE Goal == /\ ReceiverState' /\ left' \in [Packets -> 0 .. Tries]
                   /\ got' \subseteq Packets /\ acked' \subseteq Packets
                   /\ faults' \in 0 .. MaxFaults
<1>1. ASSUME NotHeard, faults' \in 0 .. MaxFaults PROVE Goal
  BY <1>1 DEF NotHeard, receiver, Types, ReceiverState, SenderState, Environment
<1>2. faults \in 0 .. MaxFaults /\ (Lost => NotHeard /\ faults' \in 0 .. MaxFaults)
  BY ConstantTypes DEF Lost, Types, Environment
<1>3. ASSUME f.type = "data", HearData(f.packet) PROVE Goal
  <2>1. f.packet \in Packets
    BY <1>3 DEF Frames, Silence
  <2>2. /\ UNCHANGED <<left, acked, faults>> /\ got' = got \cup {f.packet}
        /\ \/ buffer' = <<>> /\ AddAck(Append(buffer, f.packet))
           \/ buffer' = Append(buffer, f.packet) /\ UNCHANGED acks
    BY <1>3 DEF HearData
  <2>3. Append(buffer, f.packet) \in Seq(Packets)
    BY <2>1 DEF Types, ReceiverState
  <2>4. ASSUME buffer' = <<>>, AddAck(Append(buffer, f.packet)) PROVE ReceiverState'
    <3>1. acks' \in [Slots -> [data : Seq(Seq(Packets)), sent : Nat]]
      BY <2>3, <2>4, AddAckTypes
    <3> QED
      BY <2>4, <3>1 DEF ReceiverState
  <2>5. ASSUME buffer' = Append(buffer, f.packet), UNCHANGED acks PROVE ReceiverState'
    BY <2>3, <2>5 DEF Types, ReceiverState
  <2>6. ReceiverState'
    BY <2>2, <2>4, <2>5
  <2> QED
    BY <2>1, <2>2, <2>6 DEF Types, SenderState, Environment
<1>4. ASSUME f.type = "ack", HearAck(f.packets) PROVE Goal
  <2> DEFINE named == {f.packets[i] : i \in DOMAIN f.packets}
  <2>1. /\ left' = [p \in Packets |-> IF p \in named THEN 0 ELSE left[p]]
        /\ acked' = acked \cup {p \in named : left[p] > 0}
        /\ UNCHANGED <<buffer, acks, got, faults>>
    BY <1>4 DEF HearAck, receiver
  <2>2. f.packets \in Seq(Packets)
    BY <1>4 DEF Frames, Silence
  <2>3. named \subseteq Packets
    BY <2>2
  <2> HIDE DEF named
  <2> QED
    BY <2>1, <2>3, ConstantTypes DEF Types, ReceiverState, SenderState, Environment
<1> QED
  BY <1>1, <1>2, <1>3, <1>4 DEF Arrive

LEMMA ReceiveTypes == Types /\ Receive => Types'
<1> SUFFICES ASSUME Types, Receive PROVE Types'
  OBVIOUS
<1>1. /\ phase = "rx" /\ phase' = "other" /\ Arrive(Head(air)) /\ air' = Tail(air)
      /\ ms' = (ms + 1) % SlotLen
      /\ slot' = IF ms = SlotLen - 1 THEN (slot + 1) % NumSlots ELSE slot
      /\ AgeTimers /\ AgeQueue
      /\ UNCHANGED <<pps, blocked, next, fresh, sendSlots, recvSlots, failed, expired, sends>>
  BY DEF Receive, cells
<1>2. air \in Seq(Frames) /\ Len(air) = Lead + 1
  BY <1>1 DEF Types, Channel
<1>3. Head(air) \in Frames
  BY <1>2, ConstantTypes
<1>4. /\ ReceiverState' /\ left' \in [Packets -> 0 .. Tries]
      /\ got' \subseteq Packets /\ acked' \subseteq Packets /\ faults' \in 0 .. MaxFaults
  BY <1>1, <1>3, ArriveTypes
<1>5. Clock'
  <2>1. ms' \in 0 .. SlotLen - 1
    BY <1>1, ConstantTypes DEF Types, Clock
  <2>2. slot' \in Slots
    BY <1>1, ConstantTypes DEF Types, Clock, Slots
  <2> QED
    BY <1>1, <2>1, <2>2 DEF Clock
<1>6. timer' \in [Packets -> 0 .. Off]
  BY <1>1, ConstantTypes DEF AgeTimers, Older, Types, SenderState
<1>7. queue' \in QueueOf(Elements) /\ SoundQueue(queue')
  BY <1>1, AgedSound DEF AgeQueue, Types, SenderState
<1>8. SenderState'
  BY <1>1, <1>4, <1>6, <1>7 DEF Types, SenderState
<1>9. Channel'
  <2>1. Tail(air) \in Seq(Frames) /\ Len(Tail(air)) = Lead
    BY <1>2, ConstantTypes
  <2> QED
    BY <1>1, <2>1 DEF Channel
<1>10. Environment'
  BY <1>1, <1>4 DEF Types, Environment
<1> QED
  BY <1>4, <1>5, <1>8, <1>9, <1>10 DEF Types

(* The cells change, and with a RECEIVE timeslot go its acknowledgements. *)
LEMMA CellsTypes ==
  ASSUME Types, NEW s \in Slots,
         ReceiverAdds(s) \/ SenderAdds(s) \/ ReceiverRemoves(s) \/ SenderRemoves(s)
  PROVE  Types'
<1>1. UNCHANGED <<slot, ms, phase, sender, buffer, air, history>>
  BY DEF ReceiverAdds, SenderAdds, ReceiverRemoves, SenderRemoves, receiver
<1>2. Clock' /\ SenderState' /\ Channel'
  BY <1>1 DEF sender, history, Types, Clock, SenderState, Channel
<1>3. sendSlots' \subseteq Slots /\ recvSlots' \subseteq Slots
  BY DEF ReceiverAdds, SenderAdds, ReceiverRemoves, SenderRemoves, Types, Environment
<1>4. faults' \in 0 .. MaxFaults
  BY ConstantTypes
     DEF ReceiverAdds, SenderAdds, ReceiverRemoves, SenderRemoves, Types, Environment
<1>5. Environment'
  BY <1>1, <1>3, <1>4 DEF sender, history, Types, Environment
<1>6. ReceiverState'
  <2>1. acks' = acks \/ acks' = [acks EXCEPT ![s] = [data |-> <<>>, sent |-> 0]]
    BY DEF ReceiverAdds, SenderAdds, ReceiverRemoves, SenderRemoves, receiver
  <2>2. [data |-> <<>>, sent |-> 0] \in [data : Seq(Seq(Packets)), sent : Nat]
    OBVIOUS
  <2> QED
    BY <1>1, <2>1, <2>2 DEF Types, ReceiverState
<1> QED
  BY <1>2, <1>5, <1>6 DEF Types

LEMMA NextTypes == Types /\ [Next]_vars => Types'
<1> SUFFICES ASSUME Types, [Next]_vars PROVE Types'
  OBVIOUS
<1>1. CASE UNCHANGED vars
  <2>1. UNCHANGED <<slot, ms, phase, sender, buffer, acks, sendSlots, recvSlots, air,
                    history, faults>>
    BY <1>1 DEF vars, receiver, cells
  <2>2. Clock' /\ SenderState' /\ Channel' /\ ReceiverState'
    BY <2>1 DEF sender, history, Types, Clock, SenderState, ReceiverState, Channel
  <2>3. Environment'
    BY <2>1 DEF sender, history, Types, Environment
  <2> QED
    BY <2>2, <2>3 DEF Types
<1> QED
  BY <1>1, AcceptTypes, ProcessOtherTypes, TxMacTypes, ReceiveTypes, CellsTypes, Zenon
     DEF Next, Milliseconds

(* Every variable of the transfer keeps its type; the channel holds the    *)
(* frames of the last Lead milliseconds.                                   *)
THEOREM TransferTypes == Spec => []Types
BY InitTypes, NextTypes, PTL DEF Spec

LEMMA TypesImply == Types => DataTypeOK
<1> SUFFICES ASSUME Types PROVE DataTypeOK
  OBVIOUS
<1>1. /\ queue.data \in Seq(Elements) /\ queue.first \in Nat /\ queue.last \in Nat
  BY DEF Types, SenderState, QueueOf
<1>2. \A i \in DOMAIN air : air[i].type \in {"silence", "data", "ack"}
  <2>1. \A f \in Frames : f.type \in {"silence", "data", "ack"}
    BY DEF Frames, Silence
  <2>2. air \in Seq(Frames)
    BY DEF Types, Channel
  <2> QED
    BY <2>1, <2>2
<1> QED
  BY <1>1, <1>2
     DEF DataTypeOK, Types, Clock, SenderState, ReceiverState, Environment

(* The type invariant of the runs. *)
THEOREM DataTypeCorrect == Spec => []DataTypeOK
BY TransferTypes, TypesImply, PTL

(* The two counters of the queue of S describe its packets, through every   *)
(* mix of new packets, retransmissions, departures and timeouts.            *)
THEOREM QueueSoundHolds == Spec => []QueueSound
<1>1. Types => QueueSound
  BY DEF Types, SenderState, QueueSound
<1> QED
  BY <1>1, TransferTypes, PTL

-----------------------------------------------------------------------------
(* The acknowledgements of a timeslot *)

(* What was sent is forgotten or kept; nothing that waits is touched. *)
LEMMA ClearedBounded ==
  ASSUME Types, AckSlotBounded, NEW s \in Slots
  PROVE  /\ Cleared[s].sent \in Nat /\ Cleared[s].data = acks[s].data
         /\ Len(Cleared[s].data) + Cleared[s].sent <= AckSlots
<1>1. acks[s] \in [data : Seq(Seq(Packets)), sent : Nat]
  BY DEF Types, ReceiverState
<1>2. Cleared[s].data = acks[s].data /\ (Cleared[s].sent = 0 \/ Cleared[s].sent = acks[s].sent)
  BY ClearedTypes
<1>3. Len(acks[s].data) \in Nat /\ acks[s].sent \in Nat
  BY <1>1
<1>4. Len(acks[s].data) + acks[s].sent <= AckSlots /\ AckSlots \in Nat
  BY ConstantTypes DEF AckSlotBounded
<1> QED
  BY <1>2, <1>3, <1>4

LEMMA TxMacBounded == Types /\ AckSlotBounded /\ TxMac => AckSlotBounded'
<1> SUFFICES ASSUME Types, AckSlotBounded, TxMac, NEW s \in Slots
             PROVE  /\ acks'[s].sent >= 0 /\ Len(acks'[s].data) + acks'[s].sent <= AckSlots
                    /\ s \notin recvSlots' => acks'[s].data = <<>>
  BY DEF AckSlotBounded
<1>1. recvSlots' = recvSlots /\ (s \notin recvSlots => acks[s].data = <<>>)
  BY DEF TxMac, cells, AckSlotBounded
<1>2. CASE acks' = Cleared
  BY <1>1, <1>2, ClearedBounded
<1>3. CASE SendAck
  <2>1. /\ acks' = [Cleared EXCEPT ![slot] = [data |-> Tail(@.data), sent |-> @.sent + 1]]
        /\ slot \in recvSlots /\ acks[slot].data # <<>> /\ slot \in Slots
    BY <1>3 DEF SendAck, SendsAck, Types, Clock
  <2>2. CASE s # slot
    <3>1. acks'[s] = Cleared[s]
      BY <2>1, <2>2, ClearedTypes
    <3> QED
      BY <1>1, <3>1, ClearedBounded
  <2>3. CASE s = slot
    <3>1. acks'[s].data = Tail(Cleared[s].data) /\ acks'[s].sent = Cleared[s].sent + 1
      BY <2>1, <2>3, ClearedTypes
    <3>2. Cleared[s].data \in Seq(Seq(Packets)) /\ Cleared[s].data # <<>>
      BY <2>1, <2>3, ClearedTypes
    <3>3. Len(Tail(Cleared[s].data)) = Len(Cleared[s].data) - 1 /\ Len(Cleared[s].data) \in Nat
      BY <3>2
    <3>4. Len(acks'[s].data) + acks'[s].sent <= AckSlots /\ acks'[s].sent >= 0
      BY <3>1, <3>3, ClearedBounded, ConstantTypes
    <3> QED
      BY <1>1, <2>1, <2>3, <3>4
  <2> QED
    BY <2>2, <2>3
<1> QED
  BY <1>2, <1>3 DEF TxMac, SendData, SendLastAck, SendNothing

(* table_add_ack fills a timeslot that has room, or takes the place of an *)
(* acknowledgement that was sent.                                         *)
LEMMA AddAckBounded ==
  ASSUME Types, AckSlotBounded, NEW packets \in Seq(Packets), AddAck(packets), NEW s \in Slots
  PROVE  /\ acks'[s].sent >= 0 /\ Len(acks'[s].data) + acks'[s].sent <= AckSlots
         /\ s \notin recvSlots => acks'[s].data = <<>>
<1>1. /\ acks \in [Slots -> [data : Seq(Seq(Packets)), sent : Nat]]
      /\ recvSlots \subseteq Slots
  BY DEF Types, ReceiverState, Environment
<1>2. /\ acks[s].data \in Seq(Seq(Packets)) /\ acks[s].sent \in Nat
      /\ Len(acks[s].data) \in Nat /\ Len(acks[s].data) + acks[s].sent <= AckSlots
      /\ s \notin recvSlots => acks[s].data = <<>>
      /\ AckSlots \in Nat
  BY <1>1, ConstantTypes DEF AckSlotBounded
<1>3. Len(Append(acks[s].data, packets)) = Len(acks[s].data) + 1
  BY <1>2
<1>4. CASE acks'[s] = acks[s]
  BY <1>2, <1>4
<1>5. ASSUME NEW r \in recvSlots, Room(r) >= 1,
             acks' = [acks EXCEPT ![r].data = Append(@, packets)]
      PROVE  /\ acks'[s].sent >= 0 /\ Len(acks'[s].data) + acks'[s].sent <= AckSlots
             /\ s \notin recvSlots => acks'[s].data = <<>>
  <2>1. CASE r # s
    BY <1>1, <1>4, <1>5, <2>1
  <2>2. CASE r = s
    <3>1. acks'[s].data = Append(acks[s].data, packets) /\ acks'[s].sent = acks[s].sent
      BY <1>1, <1>5, <2>2
    <3>2. Len(acks[s].data) + acks[s].sent + 1 <= AckSlots
      BY <1>2, <1>5, <2>2 DEF Room
    <3>3. Len(acks'[s].data) + acks'[s].sent <= AckSlots /\ acks'[s].sent >= 0
      BY <1>2, <1>3, <3>1, <3>2
    <3> QED
      BY <2>2, <3>3
  <2> QED
    BY <2>1, <2>2
<1>6. ASSUME slot \in recvSlots, acks[slot].sent > 0,
             acks' = [acks EXCEPT ![slot] =
                        [data |-> Append(@.data, packets), sent |-> @.sent - 1]]
      PROVE  /\ acks'[s].sent >= 0 /\ Len(acks'[s].data) + acks'[s].sent <= AckSlots
             /\ s \notin recvSlots => acks'[s].data = <<>>
  <2>1. CASE slot # s
    BY <1>1, <1>4, <1>6, <2>1
  <2>2. CASE slot = s
    <3>1. acks'[s].data = Append(acks[s].data, packets) /\ acks'[s].sent = acks[s].sent - 1
      BY <1>1, <1>6, <2>2
    <3>2. Len(acks'[s].data) + acks'[s].sent <= AckSlots /\ acks'[s].sent >= 0
      BY <1>2, <1>3, <1>6, <2>2, <3>1
    <3> QED
      BY <1>6, <2>2, <3>2
  <2> QED
    BY <2>1, <2>2
<1>7. \/ \E r \in recvSlots : Room(r) >= 1 /\ acks' = [acks EXCEPT ![r].data = Append(@, packets)]
      \/ /\ slot \in recvSlots /\ acks[slot].sent > 0
         /\ acks' = [acks EXCEPT ![slot] = [data |-> Append(@.data, packets), sent |-> @.sent - 1]]
      \/ acks' = acks
  BY DEF AddAck, Nearest, WithRoom
<1> QED
  BY <1>4, <1>5, <1>6, <1>7

LEMMA ReceiveBounded == Types /\ AckSlotBounded /\ Receive => AckSlotBounded'
<1> SUFFICES ASSUME Types, AckSlotBounded, Receive PROVE AckSlotBounded'
  OBVIOUS
<1>1. Arrive(Head(air)) /\ recvSlots' = recvSlots
  BY DEF Receive, cells
<1>2. Head(air) \in Frames
  BY ConstantTypes DEF Receive, Types, Channel
<1>3. CASE acks' = acks
  BY <1>1, <1>3 DEF AckSlotBounded
<1>4. CASE Head(air).type = "data" /\ HearData(Head(air).packet) /\ acks' # acks
  <2>1. Append(buffer, Head(air).packet) \in Seq(Packets)
    BY <1>2, <1>4 DEF Frames, Silence, Types, ReceiverState
  <2>2. AddAck(Append(buffer, Head(air).packet))
    BY <1>4 DEF HearData
  <2> QED
    BY <1>1, <2>1, <2>2, AddAckBounded DEF AckSlotBounded
<1> QED
  BY <1>1, <1>3, <1>4 DEF Arrive, NotHeard, Lost, HearAck, receiver

LEMMA CellsBounded ==
  ASSUME Types, AckSlotBounded, NEW s \in Slots,
         ReceiverAdds(s) \/ SenderAdds(s) \/ ReceiverRemoves(s) \/ SenderRemoves(s)
  PROVE  AckSlotBounded'
<1>1. CASE ReceiverRemoves(s)
  <2>1. /\ acks' = [acks EXCEPT ![s] = [data |-> <<>>, sent |-> 0]] /\ recvSlots' = recvSlots \ {s}
        /\ acks \in [Slots -> [data : Seq(Seq(Packets)), sent : Nat]]
    BY <1>1 DEF ReceiverRemoves, Types, ReceiverState
  <2>2. acks'[s].data = <<>> /\ acks'[s].sent = 0 /\ Len(acks'[s].data) = 0
    BY <2>1
  <2>3. \A r \in Slots \ {s} : acks'[r] = acks[r]
    BY <2>1
  <2> QED
    BY <2>1, <2>2, <2>3, ConstantTypes DEF AckSlotBounded
<1>2. CASE ReceiverAdds(s) \/ SenderAdds(s) \/ SenderRemoves(s)
  <2>1. acks' = acks /\ recvSlots \subseteq recvSlots'
    BY <1>2 DEF ReceiverAdds, SenderAdds, SenderRemoves, receiver
  <2> QED
    BY <2>1 DEF AckSlotBounded
<1> QED
  BY <1>1, <1>2

(* No RECEIVE timeslot ever holds and has sent more acknowledgements than   *)
(* it has room for, so that get_free_size never wraps below zero.           *)
THEOREM AckSlotBoundedHolds == Spec => []AckSlotBounded
<1>1. Init => AckSlotBounded
  BY ConstantTypes DEF Init, AckSlotBounded
<1>2. Types /\ AckSlotBounded /\ [Next]_vars => AckSlotBounded'
  <2> SUFFICES ASSUME Types, AckSlotBounded, [Next]_vars PROVE AckSlotBounded'
    OBVIOUS
  <2>1. CASE acks' = acks /\ recvSlots' = recvSlots
    BY <2>1 DEF AckSlotBounded
  <2>2. CASE Accept \/ ProcessOther \/ UNCHANGED vars
    BY <2>1, <2>2 DEF Accept, ProcessOther, vars, receiver, cells
  <2> QED
    BY <2>2, TxMacBounded, ReceiveBounded, CellsBounded, Zenon DEF Next, Milliseconds
<1> QED
  BY <1>1, <1>2, TransferTypes, PTL DEF Spec

-----------------------------------------------------------------------------
(* What an acknowledgement names *)

AcksOf(G)   == [Slots -> [data : Seq(Seq(G)), sent : Nat]]
FramesOf(G) == {Silence} \cup [type : {"data"}, slot : Slots, packet : Packets]
                         \cup [type : {"ack"}, slot : Slots, packets : Seq(G)]

(* R reports what it has received, at every stage of the way to S. *)
Truthful == /\ buffer \in Seq(got) /\ acks \in AcksOf(got)
            /\ air \in Seq(FramesOf(got)) /\ acked \subseteq got

LEMMA SeqWider ==
  ASSUME NEW G, NEW H, G \subseteq H
  PROVE  Seq(G) \subseteq Seq(H)
<1> SUFFICES ASSUME NEW s \in Seq(G) PROVE s \in Seq(H)
  OBVIOUS
<1>1. s \in [1 .. Len(s) -> G] /\ Len(s) \in Nat
  OBVIOUS
<1>2. s \in [1 .. Len(s) -> H]
  BY <1>1
<1> QED
  BY <1>1, <1>2

(* What names packets of G names packets of a larger set. *)
LEMMA Wider ==
  ASSUME NEW G, NEW H, G \subseteq H
  PROVE  /\ Seq(G) \subseteq Seq(H) /\ AcksOf(G) \subseteq AcksOf(H)
         /\ Seq(FramesOf(G)) \subseteq Seq(FramesOf(H))
<1>1. Seq(G) \subseteq Seq(H)
  BY SeqWider
<1>2. Seq(Seq(G)) \subseteq Seq(Seq(H))
  BY <1>1, SeqWider
<1>3. [data : Seq(Seq(G)), sent : Nat] \subseteq [data : Seq(Seq(H)), sent : Nat]
  BY <1>2
<1>4. AcksOf(G) \subseteq AcksOf(H)
  BY <1>3 DEF AcksOf
<1>5. [type : {"ack"}, slot : Slots, packets : Seq(G)]
        \subseteq [type : {"ack"}, slot : Slots, packets : Seq(H)]
  BY <1>1
<1>6. FramesOf(G) \subseteq FramesOf(H)
  BY <1>5 DEF FramesOf
<1> QED
  BY <1>1, <1>4, <1>6, SeqWider

LEMMA ClearedTruthful ==
  ASSUME Types, Truthful
  PROVE  Cleared \in AcksOf(got)
<1>1. acks \in [Slots -> [data : Seq(Seq(got)), sent : Nat]]
  BY DEF Truthful, AcksOf
<1> DEFINE x == [acks[Before(slot)] EXCEPT !.sent = 0]
<1>2. Before(slot) \in Slots
  BY ConstantTypes DEF Before, Slots, Types, Clock
<1>3. x \in [data : Seq(Seq(got)), sent : Nat]
  BY <1>1, <1>2
<1>4. Cleared = [acks EXCEPT ![Before(slot)] = x]
  BY DEF Cleared
<1> HIDE DEF x
<1> QED
  BY <1>1, <1>3, <1>4 DEF AcksOf

LEMMA FrameTruthful ==
  ASSUME NEW G, air \in Seq(FramesOf(G)), NEW f \in FramesOf(G), air' = Append(air, f)
  PROVE  air' \in Seq(FramesOf(G))
OBVIOUS

LEMMA TxMacTruthful == Types /\ Truthful /\ TxMac => Truthful'
<1> SUFFICES ASSUME Types, Truthful, TxMac PROVE Truthful'
  OBVIOUS
<1>1. got' = got /\ acked' = acked /\ slot \in Slots
  BY DEF TxMac, Types, Clock
<1>2. /\ buffer \in Seq(got) /\ acks \in [Slots -> [data : Seq(Seq(got)), sent : Nat]]
      /\ air \in Seq(FramesOf(got)) /\ acked \subseteq got
  BY DEF Truthful, AcksOf
<1>3. CASE SendData
  <2> DEFINE p == Head(queue.data).packet
  <2>1. /\ air' = Append(air, [type |-> "data", slot |-> slot, packet |-> p])
        /\ acks' = Cleared /\ buffer' = buffer
    BY <1>3 DEF SendData
  <2>2. p \in Packets
    <3>1. Head(queue.data) \in Elements
      BY <1>3, GetDataSound DEF SendData, SendsData, Types, SenderState
    <3> QED
      BY <3>1 DEF Elements
  <2> HIDE DEF p
  <2>3. [type |-> "data", slot |-> slot, packet |-> p] \in FramesOf(got)
    BY <1>1, <2>2 DEF FramesOf
  <2>4. air' \in Seq(FramesOf(got))
    BY <1>2, <2>1, <2>3, FrameTruthful
  <2> QED
    BY <1>1, <1>2, <2>1, <2>4, ClearedTruthful DEF Truthful
<1>4. CASE SendAck
  <2>1. /\ air' = Append(air, [type |-> "ack", slot |-> slot, packets |-> Head(acks[slot].data)])
        /\ acks' = [Cleared EXCEPT ![slot] = [data |-> Tail(@.data), sent |-> @.sent + 1]]
        /\ acks[slot].data # <<>> /\ buffer' = buffer
    BY <1>4 DEF SendAck, SendsAck
  <2>2. Head(acks[slot].data) \in Seq(got)
    BY <1>1, <1>2, <2>1
  <2>3. [type |-> "ack", slot |-> slot, packets |-> Head(acks[slot].data)] \in FramesOf(got)
    BY <1>1, <2>2 DEF FramesOf
  <2>4. air' \in Seq(FramesOf(got))
    BY <1>2, <2>1, <2>3, FrameTruthful
  <2>5. Cleared \in [Slots -> [data : Seq(Seq(got)), sent : Nat]] /\ Cleared[slot].data # <<>>
    BY <1>1, <2>1, ClearedTruthful, ClearedTypes DEF AcksOf
  <2>6. [data |-> Tail(Cleared[slot].data), sent |-> Cleared[slot].sent + 1]
          \in [data : Seq(Seq(got)), sent : Nat]
    BY <1>1, <2>5
  <2>7. acks' \in AcksOf(got)
    BY <2>1, <2>5, <2>6 DEF AcksOf
  <2> QED
    BY <1>1, <1>2, <2>1, <2>4, <2>7 DEF Truthful
<1>5. CASE SendLastAck
  <2>1. /\ air' = Append(air, [type |-> "ack", slot |-> slot, packets |-> buffer])
        /\ acks' = Cleared /\ buffer' = <<>>
    BY <1>5 DEF SendLastAck
  <2>2. [type |-> "ack", slot |-> slot, packets |-> buffer] \in FramesOf(got)
    BY <1>1, <1>2 DEF FramesOf
  <2>3. air' \in Seq(FramesOf(got)) /\ buffer' \in Seq(got)
    BY <1>2, <2>1, <2>2, FrameTruthful
  <2> QED
    BY <1>1, <1>2, <2>1, <2>3, ClearedTruthful DEF Truthful
<1>6. CASE SendNothing
  <2>1. air' = Append(air, Silence) /\ acks' = Cleared /\ buffer' = buffer
    BY <1>6 DEF SendNothing
  <2>2. Silence \in FramesOf(got)
    BY DEF FramesOf
  <2>3. air' \in Seq(FramesOf(got))
    BY <1>2, <2>1, <2>2, FrameTruthful
  <2> QED
    BY <1>1, <1>2, <2>1, <2>3, ClearedTruthful DEF Truthful
<1> QED
  BY <1>3, <1>4, <1>5, <1>6 DEF TxMac

LEMMA AddAckTruthful ==
  ASSUME Types, NEW G, acks \in AcksOf(G), NEW packets \in Seq(G), AddAck(packets)
  PROVE  acks' \in AcksOf(G)
<1>1. acks \in [Slots -> [data : Seq(Seq(G)), sent : Nat]] /\ recvSlots \subseteq Slots
  BY DEF AcksOf, Types, Environment
<1>2. ASSUME NEW s \in recvSlots, acks' = [acks EXCEPT ![s].data = Append(@, packets)]
      PROVE  acks' \in [Slots -> [data : Seq(Seq(G)), sent : Nat]]
  <2>1. acks[s] \in [data : Seq(Seq(G)), sent : Nat] /\ s \in Slots
    BY <1>1
  <2>2. Append(acks[s].data, packets) \in Seq(Seq(G))
    BY <2>1
  <2>3. [acks[s] EXCEPT !.data = Append(acks[s].data, packets)]
          \in [data : Seq(Seq(G)), sent : Nat]
    BY <2>1, <2>2
  <2> QED
    BY <1>1, <1>2, <2>3
<1>3. ASSUME slot \in recvSlots, acks[slot].sent > 0,
             acks' = [acks EXCEPT ![slot] =
                        [data |-> Append(@.data, packets), sent |-> @.sent - 1]]
      PROVE  acks' \in [Slots -> [data : Seq(Seq(G)), sent : Nat]]
  <2>1. acks[slot] \in [data : Seq(Seq(G)), sent : Nat] /\ slot \in Slots
    BY <1>1, <1>3
  <2>2. Append(acks[slot].data, packets) \in Seq(Seq(G)) /\ acks[slot].sent - 1 \in Nat
    BY <1>3, <2>1
  <2> QED
    BY <1>1, <1>3, <2>2
<1> QED
  BY <1>1, <1>2, <1>3 DEF AddAck, AcksOf

LEMMA ArriveTruthful ==
  ASSUME Types, Truthful, NEW f \in FramesOf(got), f \in Frames, Arrive(f)
  PROVE  /\ got \subseteq got' /\ buffer' \in Seq(got') /\ acks' \in AcksOf(got')
         /\ acked' \subseteq got'
<1> DEFINE Goal == /\ got \subseteq got' /\ buffer' \in Seq(got') /\ acks' \in AcksOf(got')
                   /\ acked' \subseteq got'
<1>1. ASSUME NotHeard PROVE Goal
  BY <1>1 DEF NotHeard, receiver, Truthful
<1>2. ASSUME f.type = "data", HearData(f.packet) PROVE Goal
  <2>1. /\ got' = got \cup {f.packet} /\ acked' = acked
        /\ \/ buffer' = <<>> /\ AddAck(Append(buffer, f.packet))
           \/ buffer' = Append(buffer, f.packet) /\ UNCHANGED acks
    BY <1>2 DEF HearData
  <2>2. buffer \in Seq(got') /\ acks \in AcksOf(got') /\ acked \subseteq got'
    <3>1. got \subseteq got'
      BY <2>1
    <3> QED
      BY <3>1, Wider DEF Truthful
  <2>3. Append(buffer, f.packet) \in Seq(got')
    BY <2>1, <2>2
  <2>4. ASSUME buffer' = <<>>, AddAck(Append(buffer, f.packet))
        PROVE  buffer' \in Seq(got') /\ acks' \in AcksOf(got')
    <3>1. acks' \in AcksOf(got')
      BY <2>2, <2>3, <2>4, AddAckTruthful
    <3> QED
      BY <2>4, <3>1
  <2> QED
    BY <2>1, <2>2, <2>3, <2>4
<1>3. ASSUME f.type = "ack", HearAck(f.packets) PROVE Goal
  <2> DEFINE named == {f.packets[i] : i \in DOMAIN f.packets}
  <2>1. /\ acked' = acked \cup {p \in named : left[p] > 0}
        /\ UNCHANGED <<buffer, acks, got>>
    BY <1>3 DEF HearAck, receiver
  <2>2. f.packets \in Seq(got)
    BY <1>3 DEF FramesOf, Silence
  <2>3. named \subseteq got
    BY <2>2
  <2> HIDE DEF named
  <2> QED
    BY <2>1, <2>3 DEF Truthful
<1> QED
  BY <1>1, <1>2, <1>3 DEF Arrive, Lost

LEMMA ReceiveTruthful == Types /\ Truthful /\ Receive => Truthful'
<1> SUFFICES ASSUME Types, Truthful, Receive PROVE Truthful'
  OBVIOUS
<1>1. Arrive(Head(air)) /\ air' = Tail(air) /\ phase = "rx"
  BY DEF Receive
<1>2. /\ air \in Seq(FramesOf(got)) /\ air \in Seq(Frames) /\ Len(air) = Lead + 1
  BY <1>1 DEF Truthful, Types, Channel
<1>3. ASSUME NEW T, air \in Seq(T) PROVE Head(air) \in T
  BY <1>2, <1>3, ConstantTypes
<1>4. Head(air) \in FramesOf(got) /\ Head(air) \in Frames
  BY <1>2, <1>3, Zenon
<1>5. /\ got \subseteq got' /\ buffer' \in Seq(got') /\ acks' \in AcksOf(got')
      /\ acked' \subseteq got'
  BY <1>1, <1>4, ArriveTruthful
<1>6. Tail(air) \in Seq(FramesOf(got))
  BY <1>2, ConstantTypes
<1>7. air' \in Seq(FramesOf(got'))
  BY <1>1, <1>5, <1>6, Wider
<1> QED
  BY <1>5, <1>7 DEF Truthful

LEMMA CellsTruthful ==
  ASSUME Types, Truthful, NEW s \in Slots,
         ReceiverAdds(s) \/ SenderAdds(s) \/ ReceiverRemoves(s) \/ SenderRemoves(s)
  PROVE  Truthful'
<1>1. UNCHANGED <<buffer, air, got, acked>>
  BY DEF ReceiverAdds, SenderAdds, ReceiverRemoves, SenderRemoves, receiver, history
<1>2. acks' = acks \/ acks' = [acks EXCEPT ![s] = [data |-> <<>>, sent |-> 0]]
  BY DEF ReceiverAdds, SenderAdds, ReceiverRemoves, SenderRemoves, receiver
<1>3. [data |-> <<>>, sent |-> 0] \in [data : Seq(Seq(got)), sent : Nat]
  OBVIOUS
<1> QED
  BY <1>1, <1>2, <1>3 DEF Truthful, AcksOf

LEMMA InitTruthful == Init => Truthful
<1> SUFFICES ASSUME Init PROVE Truthful
  OBVIOUS
<1>1. buffer = <<>> /\ acks = [s \in Slots |-> [data |-> <<>>, sent |-> 0]] /\ acked = {}
  BY DEF Init
<1>2. air \in Seq(FramesOf(got))
  <2>1. air \in [1 .. 2 -> FramesOf(got)]
    BY ConstantTypes DEF Init, FramesOf
  <2>2. ASSUME NEW T, NEW s \in [1 .. 2 -> T] PROVE s \in Seq(T)
    BY SeqDef
  <2> QED
    BY <2>1, <2>2, Zenon
<1> QED
  BY <1>1, <1>2 DEF Truthful, AcksOf

(* What S counts as acknowledged, R has received: every acknowledgement in  *)
(* a buffer, in the queue of a timeslot or on the channel names packets     *)
(* that R has, and R never loses one.                                       *)
THEOREM AcknowledgedDeliveredHolds == Spec => []AcknowledgedDelivered
<1>1. Types /\ Truthful /\ [Next]_vars => Truthful'
  <2> SUFFICES ASSUME Types, Truthful, [Next]_vars PROVE Truthful'
    OBVIOUS
  <2>1. CASE UNCHANGED <<buffer, acks, air, got, acked>>
    BY <2>1 DEF Truthful
  <2>2. CASE Accept \/ ProcessOther \/ UNCHANGED vars
    BY <2>1, <2>2 DEF Accept, ProcessOther, vars, receiver, history
  <2> QED
    BY <2>2, TxMacTruthful, ReceiveTruthful, CellsTruthful, Zenon DEF Next, Milliseconds
<1>2. Truthful => AcknowledgedDelivered
  BY DEF Truthful, AcknowledgedDelivered
<1> QED
  BY <1>1, <1>2, InitTruthful, TransferTypes, PTL DEF Spec

-----------------------------------------------------------------------------
(* Two lists *)

High(q) == Named(SubSeq(q.data, 1, q.first))
Low(q)  == Named(SubSeq(q.data, q.first + 1, Len(q.data)))

LEMMA SameElements ==
  ASSUME NEW S, NEW s \in Seq(S), NEW t \in Seq(S), Len(s) = Len(t),
         \A i \in 1 .. Len(s) : s[i] = t[i]
  PROVE  s = t
OBVIOUS

LEMMA EmptyElements ==
  ASSUME NEW S, NEW s \in Seq(S), Len(s) = 0
  PROVE  s = <<>>
OBVIOUS

LEMMA NamedElements ==
  ASSUME NEW s \in Seq(Elements)
  PROVE  /\ Named(s) \in Seq(Packets) /\ Len(Named(s)) = Len(s)
         /\ \A i \in 1 .. Len(s) : Named(s)[i] = s[i].packet
<1>1. Len(s) \in Nat /\ DOMAIN s = 1 .. Len(s) /\ \A i \in 1 .. Len(s) : s[i] \in Elements
  OBVIOUS
<1>2. PICK n : n = Named(s)
  OBVIOUS
<1>3. n = [i \in 1 .. Len(s) |-> s[i].packet]
  BY <1>1, <1>2 DEF Named
<1>4. n \in [1 .. Len(s) -> Packets]
  BY <1>1, <1>3 DEF Elements
<1>5. n \in Seq(Packets) /\ Len(n) = Len(s)
  BY <1>1, <1>4
<1> QED
  BY <1>2, <1>3, <1>5

LEMMA SubSeqElements ==
  ASSUME NEW S, NEW s \in Seq(S), NEW a \in 1 .. Len(s) + 1, NEW b \in a - 1 .. Len(s),
         NEW r, r = SubSeq(s, a, b)
  PROVE  /\ r \in Seq(S) /\ Len(r) = b - a + 1
         /\ \A i \in 1 .. b - a + 1 : r[i] = s[a + i - 1]
<1>1. Len(s) \in Nat /\ a \in Nat /\ b \in Nat
  OBVIOUS
<1> QED
  BY <1>1, SubSeqProperties

(* The two lists, by their elements. *)
Listed(h, l, d, f) ==
  /\ h \in Seq(Packets) /\ Len(h) = f /\ \A i \in 1 .. f : h[i] = d[i].packet
  /\ l \in Seq(Packets) /\ Len(l) = Len(d) - f
  /\ \A i \in 1 .. Len(d) - f : l[i] = d[f + i].packet

LEMMA ListsListed ==
  ASSUME NEW q \in QueueOf(Elements), SoundQueue(q)
  PROVE  /\ Listed(High(q), Low(q), q.data, q.first)
         /\ q.data \in Seq(Elements) /\ Len(q.data) \in Nat /\ q.first \in Nat
         /\ q.first <= Len(q.data) /\ q.last = Len(q.data)
<1>1. PICK d, f : d = q.data /\ f = q.first
  OBVIOUS
<1>2. d \in Seq(Elements) /\ Len(d) \in Nat /\ f \in Nat /\ f <= Len(d) /\ q.last = Len(d)
  BY <1>1 DEF QueueOf, SoundQueue
<1>3. PICK a, b : a = SubSeq(d, 1, f) /\ b = SubSeq(d, f + 1, Len(d))
  OBVIOUS
<1>4. 1 \in 1 .. Len(d) + 1 /\ f \in 1 - 1 .. Len(d)
  BY <1>2
<1>5. f + 1 \in 1 .. Len(d) + 1 /\ Len(d) \in (f + 1) - 1 .. Len(d)
  BY <1>2
<1>6. a \in Seq(Elements) /\ Len(a) = f - 1 + 1 /\ \A i \in 1 .. f - 1 + 1 : a[i] = d[1 + i - 1]
  BY <1>2, <1>3, <1>4, SubSeqElements
<1>7. /\ b \in Seq(Elements) /\ Len(b) = Len(d) - (f + 1) + 1
      /\ \A i \in 1 .. Len(d) - (f + 1) + 1 : b[i] = d[(f + 1) + i - 1]
  BY <1>2, <1>3, <1>5, SubSeqElements
<1>8. Len(a) = f /\ \A i \in 1 .. f : a[i] = d[i]
  BY <1>2, <1>6
<1>9. Len(b) = Len(d) - f /\ \A i \in 1 .. Len(d) - f : b[i] = d[f + i]
  BY <1>2, <1>7
<1>10. High(q) = Named(a) /\ Low(q) = Named(b)
  BY <1>1, <1>3 DEF High, Low
<1>11. /\ Named(a) \in Seq(Packets) /\ Len(Named(a)) = f
       /\ \A i \in 1 .. f : Named(a)[i] = d[i].packet
  BY <1>6, <1>8, NamedElements
<1>12. /\ Named(b) \in Seq(Packets) /\ Len(Named(b)) = Len(d) - f
       /\ \A i \in 1 .. Len(d) - f : Named(b)[i] = d[f + i].packet
  BY <1>7, <1>9, NamedElements
<1> QED
  BY <1>1, <1>2, <1>10, <1>11, <1>12 DEF Listed

(* r is s without its element at position i. *)
Without(r, s, i) ==
  /\ Len(r) = Len(s) - 1
  /\ \A j \in 1 .. Len(s) - 1 : r[j] = IF j < i THEN s[j] ELSE s[j + 1]

LEMMA RemoveAtElements ==
  ASSUME NEW S, NEW s \in Seq(S), NEW i \in 1 .. Len(s), NEW r, r = RemoveAt(s, i)
  PROVE  r \in Seq(S) /\ Without(r, s, i)
<1>1. Len(s) \in Nat /\ i \in Nat /\ i >= 1 /\ i <= Len(s)
  OBVIOUS
<1>2. PICK a, b : a = SubSeq(s, 1, i - 1) /\ b = SubSeq(s, i + 1, Len(s))
  OBVIOUS
<1>3. 1 \in 1 .. Len(s) + 1 /\ i - 1 \in 1 - 1 .. Len(s)
  BY <1>1
<1>4. i + 1 \in 1 .. Len(s) + 1 /\ Len(s) \in (i + 1) - 1 .. Len(s)
  BY <1>1
<1>5. /\ a \in Seq(S) /\ Len(a) = (i - 1) - 1 + 1
      /\ \A j \in 1 .. (i - 1) - 1 + 1 : a[j] = s[1 + j - 1]
  BY <1>2, <1>3, SubSeqElements
<1>6. /\ b \in Seq(S) /\ Len(b) = Len(s) - (i + 1) + 1
      /\ \A j \in 1 .. Len(s) - (i + 1) + 1 : b[j] = s[(i + 1) + j - 1]
  BY <1>2, <1>4, SubSeqElements
<1>7. r = a \o b
  BY <1>2 DEF RemoveAt
<1>8. /\ r \in Seq(S) /\ Len(r) = Len(a) + Len(b)
      /\ \A j \in 1 .. Len(a) + Len(b) : r[j] = IF j <= Len(a) THEN a[j] ELSE b[j - Len(a)]
  <2>1. a \in Seq(S) /\ b \in Seq(S)
    BY <1>5, <1>6
  <2> QED
    BY <1>7, <2>1, ConcatProperties
<1>9. Len(a) = i - 1 /\ Len(b) = Len(s) - i /\ Len(a) + Len(b) = Len(s) - 1
  BY <1>1, <1>5, <1>6
<1>10. ASSUME NEW j \in 1 .. Len(s) - 1 PROVE r[j] = IF j < i THEN s[j] ELSE s[j + 1]
  <2>1. CASE j < i
    <3>1. j \in 1 .. (i - 1) - 1 + 1 /\ j <= Len(a) /\ 1 + j - 1 = j
      BY <1>1, <1>9, <2>1
    <3> QED
      BY <1>5, <1>8, <1>9, <2>1, <3>1
  <2>2. CASE ~(j < i)
    <3>1. /\ j - (i - 1) \in 1 .. Len(s) - (i + 1) + 1 /\ ~(j <= Len(a))
          /\ (i + 1) + (j - (i - 1)) - 1 = j + 1
      BY <1>1, <1>9, <2>2
    <3> QED
      BY <1>6, <1>8, <1>9, <2>2, <3>1
  <2> QED
    BY <2>1, <2>2
<1> QED
  BY <1>8, <1>9, <1>10 DEF Without

(* What may become of the lists h and l: they become g and k. *)
Takes(h, l, g, k) == \/ h # <<>> /\ g = Tail(h) /\ k = l
                     \/ h = <<>> /\ l # <<>> /\ k = Tail(l) /\ g = h
Enters(h, l, g, k) == g = h /\ Len(k) = Len(l) + 1 /\ \E j \in 1 .. Len(k) : RemoveAt(k, j) = l
Tidies(h, l, g, k) == /\ \E n \in 0 .. Len(g) : SubSeq(g, n + 1, Len(g)) = h
                      /\ \E n \in 0 .. Len(l) : k = SubSeq(l, 1, n)

(* A new packet enters the list of its class. *)
LEMMA AcceptListed ==
  ASSUME NEW d \in Seq(Elements), NEW f \in Nat, f <= Len(d), NEW h, NEW l, Listed(h, l, d, f),
         NEW e, NEW x \in Seq(Elements), NEW i \in f + 1 .. Len(d) + 1, Inserted(x, d, i, e),
         NEW g, NEW k, Listed(g, k, x, f)
  PROVE  Enters(h, l, g, k)
<1>1. Len(d) \in Nat /\ i \in Nat /\ i >= f + 1 /\ i <= Len(d) + 1 /\ Len(x) = Len(d) + 1
  BY DEF Inserted
<1>2. g = h
  <2>1. g \in Seq(Packets) /\ h \in Seq(Packets) /\ Len(g) = f /\ Len(h) = f
    BY DEF Listed
  <2>2. ASSUME NEW j \in 1 .. f PROVE g[j] = h[j]
    <3>1. j \in 1 .. Len(d) + 1 /\ j < i
      BY <1>1
    <3>2. x[j] = d[j]
      BY <3>1 DEF Inserted
    <3> QED
      BY <3>2 DEF Listed
  <2> QED
    BY <2>1, <2>2, SameElements
<1>3. /\ k \in Seq(Packets) /\ Len(k) = Len(d) + 1 - f /\ l \in Seq(Packets)
      /\ Len(l) = Len(d) - f
  BY <1>1 DEF Listed
<1>4. i - f \in 1 .. Len(k) /\ Len(k) = Len(l) + 1
  BY <1>1, <1>3
<1>5. PICK r : r = RemoveAt(k, i - f)
  OBVIOUS
<1>6. /\ r \in Seq(Packets) /\ Len(r) = Len(k) - 1
      /\ \A j \in 1 .. Len(k) - 1 : r[j] = IF j < i - f THEN k[j] ELSE k[j + 1]
  <2>1. PICK o : o = i - f
    OBVIOUS
  <2>2. k \in Seq(Packets) /\ o \in 1 .. Len(k) /\ r = RemoveAt(k, o)
    BY <1>3, <1>4, <1>5, <2>1
  <2>3. r \in Seq(Packets) /\ Without(r, k, o)
    BY <2>2, RemoveAtElements
  <2> QED
    BY <2>1, <2>3 DEF Without
<1>7. ASSUME NEW j \in 1 .. Len(l) PROVE r[j] = l[j]
  <2>1. j \in 1 .. Len(d) - f /\ j \in 1 .. Len(k) - 1 /\ j \in Nat
    BY <1>3, <1>4
  <2>2. l[j] = d[f + j].packet
    BY <2>1 DEF Listed
  <2>3. CASE j < i - f
    <3>1. f + j \in 1 .. Len(d) + 1 /\ f + j < i /\ j \in 1 .. Len(x) - f
      BY <1>1, <2>1, <2>3
    <3>2. x[f + j] = d[f + j] /\ k[j] = x[f + j].packet
      BY <3>1 DEF Inserted, Listed
    <3> QED
      BY <1>6, <2>1, <2>2, <2>3, <3>2
  <2>4. CASE ~(j < i - f)
    <3>1. /\ f + (j + 1) \in 1 .. Len(d) + 1 /\ f + (j + 1) > i /\ (f + (j + 1)) - 1 = f + j
          /\ j + 1 \in 1 .. Len(x) - f
      BY <1>1, <2>1, <2>4
    <3>2. PICK m : m = f + (j + 1)
      OBVIOUS
    <3>3. m \in 1 .. Len(d) + 1 /\ ~(m < i) /\ m # i /\ m - 1 = f + j
      BY <1>1, <3>1, <3>2
    <3>4. x[m] = d[m - 1]
      BY <3>3 DEF Inserted
    <3>5. k[j + 1] = x[m].packet
      BY <3>1, <3>2 DEF Listed
    <3> QED
      BY <1>6, <2>1, <2>2, <2>4, <3>3, <3>4, <3>5
  <2> QED
    BY <2>3, <2>4
<1>8. Len(r) = Len(l)
  BY <1>3, <1>4, <1>6
<1>9. r = l
  BY <1>3, <1>6, <1>7, <1>8, SameElements
<1> QED
  BY <1>2, <1>4, <1>5, <1>9 DEF Enters

(* x is d without its first element. *)
Shifted(x, d) == Len(x) = Len(d) - 1 /\ \A j \in 1 .. Len(d) - 1 : x[j] = d[j + 1]

(* The first packet leaves the high list, or the low one if that is empty. *)
LEMMA TakeListed ==
  ASSUME NEW d \in Seq(Elements), NEW f \in Nat, f <= Len(d), NEW h, NEW l, Listed(h, l, d, f),
         NEW x \in Seq(Elements), Len(d) > 0, Shifted(x, d),
         NEW n, n = (IF f # 0 THEN f - 1 ELSE 0), NEW g, NEW k, Listed(g, k, x, n)
  PROVE  Takes(h, l, g, k)
<1> USE DEF Shifted, Takes
<1>1. /\ Len(d) \in Nat /\ h \in Seq(Packets) /\ Len(h) = f
      /\ l \in Seq(Packets) /\ Len(l) = Len(d) - f
      /\ g \in Seq(Packets) /\ Len(g) = n /\ k \in Seq(Packets) /\ Len(k) = Len(x) - n
  BY DEF Listed
<1>2. CASE f # 0
  <2>1. h # <<>> /\ n = f - 1
    BY <1>1, <1>2
  <2>2. PICK t : t = Tail(h)
    OBVIOUS
  <2>3. t \in Seq(Packets) /\ Len(t) = f - 1 /\ \A j \in 1 .. f - 1 : t[j] = h[j + 1]
    BY <1>1, <2>1, <2>2
  <2>4. ASSUME NEW j \in 1 .. f - 1 PROVE g[j] = t[j]
    <3>1. j \in 1 .. Len(d) - 1 /\ j + 1 \in 1 .. f
      BY <1>1
    <3>2. g[j] = x[j].packet /\ h[j + 1] = d[j + 1].packet
      BY <2>1, <3>1 DEF Listed
    <3> QED
      BY <2>3, <3>1, <3>2
  <2>5. g = t
    BY <1>1, <2>1, <2>3, <2>4, SameElements
  <2>6. ASSUME NEW j \in 1 .. Len(d) - f PROVE k[j] = l[j]
    <3>1. /\ n + j \in 1 .. Len(d) - 1 /\ (n + j) + 1 = f + j /\ j \in 1 .. Len(x) - n
      BY <1>1, <1>2, <2>1
    <3>2. k[j] = x[n + j].packet /\ l[j] = d[f + j].packet
      BY <3>1 DEF Listed
    <3> QED
      BY <3>1, <3>2
  <2>7. Len(k) = Len(l) /\ Len(l) = Len(d) - f
    BY <1>1, <2>1
  <2>8. k = l
    BY <1>1, <2>6, <2>7, SameElements
  <2> QED
    BY <2>1, <2>2, <2>5, <2>8
<1>3. CASE f = 0
  <2>1. n = 0 /\ h = <<>> /\ g = <<>> /\ l # <<>>
    BY <1>1, <1>3, EmptyElements
  <2>2. PICK t : t = Tail(l)
    OBVIOUS
  <2>3. /\ t \in Seq(Packets) /\ Len(t) = Len(d) - 1
        /\ \A j \in 1 .. Len(d) - 1 : t[j] = l[j + 1]
    <3>1. /\ t \in Seq(Packets) /\ Len(t) = Len(l) - 1 /\ \A j \in 1 .. Len(l) - 1 : t[j] = l[j + 1]
      BY <1>1, <2>1, <2>2
    <3>2. Len(l) = Len(d)
      BY <1>1, <1>3
    <3> QED
      BY <3>1, <3>2
  <2>4. ASSUME NEW j \in 1 .. Len(d) - 1 PROVE k[j] = t[j]
    <3>1. j \in 1 .. Len(x) - n /\ n + j = j /\ j + 1 \in 1 .. Len(d) - f /\ f + (j + 1) = j + 1
      BY <1>1, <1>3, <2>1
    <3>2. k[j] = x[n + j].packet /\ l[j + 1] = d[f + (j + 1)].packet
      BY <3>1 DEF Listed
    <3> QED
      BY <2>3, <3>1, <3>2
  <2>5. Len(k) = Len(d) - 1
    BY <1>1, <2>1
  <2>6. k = t
    BY <1>1, <2>3, <2>4, <2>5, SameElements
  <2> QED
    BY <2>1, <2>2, <2>6
<1> QED
  BY <1>2, <1>3

(* x is what is left of d after m others. *)
Behind(x, d, m) == \A j \in 1 .. Len(x) : j > m => x[j] = d[j - m]

(* Packets enter the high list at its front, the low one loses its end. *)
LEMMA TidyListed ==
  ASSUME NEW d \in Seq(Elements), NEW f \in Nat, f <= Len(d), NEW h, NEW l, Listed(h, l, d, f),
         NEW m \in Nat, NEW x \in Seq(Elements), NEW c \in f + m .. Len(d) + m, Len(x) = c,
         Behind(x, d, m), NEW g, NEW k, Listed(g, k, x, f + m)
  PROVE  Tidies(h, l, g, k)
<1> USE DEF Behind, Tidies
<1>1. /\ Len(d) \in Nat /\ h \in Seq(Packets) /\ Len(h) = f
      /\ l \in Seq(Packets) /\ Len(l) = Len(d) - f
      /\ g \in Seq(Packets) /\ Len(g) = f + m /\ k \in Seq(Packets) /\ Len(k) = c - (f + m)
      /\ c \in Nat /\ c >= f + m /\ c <= Len(d) + m
  BY DEF Listed
<1>2. PICK r : r = SubSeq(g, m + 1, Len(g))
  OBVIOUS
<1>3. m + 1 \in 1 .. Len(g) + 1 /\ Len(g) \in (m + 1) - 1 .. Len(g)
  BY <1>1
<1>4. /\ r \in Seq(Packets) /\ Len(r) = Len(g) - (m + 1) + 1
      /\ \A j \in 1 .. Len(g) - (m + 1) + 1 : r[j] = g[(m + 1) + j - 1]
  BY <1>1, <1>2, <1>3, SubSeqElements
<1>5. Len(r) = f /\ \A j \in 1 .. f : r[j] = g[m + j]
  BY <1>1, <1>4
<1>6. ASSUME NEW j \in 1 .. f PROVE r[j] = h[j]
  <2>1. m + j \in 1 .. f + m /\ m + j \in 1 .. c /\ m + j > m /\ (m + j) - m = j
    BY <1>1
  <2>2. g[m + j] = x[m + j].packet /\ h[j] = d[j].packet
    BY <2>1 DEF Listed
  <2>3. x[m + j] = d[j]
    BY <2>1
  <2> QED
    BY <1>5, <2>2, <2>3
<1>7. r = h
  BY <1>1, <1>4, <1>5, <1>6, SameElements
<1>8. PICK n : n = c - (f + m)
  OBVIOUS
<1>9. n \in 0 .. Len(l) /\ 1 \in 1 .. Len(l) + 1 /\ n \in 1 - 1 .. Len(l) /\ n \in Nat
  BY <1>1, <1>8
<1>10. PICK t : t = SubSeq(l, 1, n)
  OBVIOUS
<1>11. t \in Seq(Packets) /\ Len(t) = n - 1 + 1 /\ \A j \in 1 .. n - 1 + 1 : t[j] = l[1 + j - 1]
  BY <1>1, <1>9, <1>10, SubSeqElements
<1>12. Len(t) = n /\ \A j \in 1 .. n : t[j] = l[j]
  BY <1>9, <1>11
<1>13. ASSUME NEW j \in 1 .. n PROVE k[j] = t[j]
  <2>1. PICK y : y = (f + m) + j
    OBVIOUS
  <2>2. j \in 1 .. Len(x) - (f + m) /\ j \in 1 .. Len(d) - f
    BY <1>1, <1>8, <1>9
  <2>3. y \in 1 .. c /\ y > m /\ y - m = f + j
    BY <1>1, <1>8, <1>9, <2>1
  <2>4. k[j] = x[y].packet /\ l[j] = d[f + j].packet
    BY <2>1, <2>2 DEF Listed
  <2> QED
    BY <1>12, <2>3, <2>4
<1>14. Len(k) = Len(t)
  BY <1>1, <1>8, <1>12
<1>15. k = t
  BY <1>1, <1>11, <1>12, <1>13, <1>14, SameElements
<1>16. m \in 0 .. Len(g)
  BY <1>1
<1> QED
  BY <1>2, <1>7, <1>9, <1>10, <1>15, <1>16

(* A queue that only ages. *)
LEMMA AgedListed ==
  ASSUME NEW d \in Seq(Elements), NEW f \in Nat, f <= Len(d), NEW h, NEW l, Listed(h, l, d, f),
         NEW x \in Seq(Elements), Len(x) = Len(d),
         \A j \in 1 .. Len(d) : x[j].packet = d[j].packet, NEW g, NEW k, Listed(g, k, x, f)
  PROVE  g = h /\ k = l
<1>1. /\ Len(d) \in Nat /\ h \in Seq(Packets) /\ Len(h) = f
      /\ l \in Seq(Packets) /\ Len(l) = Len(d) - f
      /\ g \in Seq(Packets) /\ Len(g) = f /\ k \in Seq(Packets) /\ Len(k) = Len(d) - f
  BY DEF Listed
<1>2. ASSUME NEW j \in 1 .. f PROVE g[j] = h[j]
  <2>1. j \in 1 .. Len(d)
    BY <1>1
  <2> QED
    BY <2>1 DEF Listed
<1>3. ASSUME NEW j \in 1 .. Len(d) - f PROVE k[j] = l[j]
  <2>1. f + j \in 1 .. Len(d) /\ j \in 1 .. Len(x) - f
    BY <1>1
  <2>2. k[j] = x[f + j].packet /\ l[j] = d[f + j].packet
    BY <2>1 DEF Listed
  <2> QED
    BY <2>1, <2>2
<1> QED
  BY <1>1, <1>2, <1>3, SameElements

Served ==
  \/ High(queue') = High(queue) /\ Low(queue') = Low(queue)
  \/ Takes(High(queue), Low(queue), High(queue'), Low(queue'))
  \/ Enters(High(queue), Low(queue), High(queue'), Low(queue'))
  \/ Tidies(High(queue), Low(queue), High(queue'), Low(queue'))

LEMMA ServedImplements == Served => [classes!Next]_<<High(queue), Low(queue)>>
<1>1. Takes(High(queue), Low(queue), High(queue'), Low(queue')) => classes!Take
  BY DEF Takes, High, Low, classes!Take
<1>2. Enters(High(queue), Low(queue), High(queue'), Low(queue')) => classes!Enter
  <2>1. \A s, i : RemoveAt(s, i) = classes!RemoveAt(s, i)
    BY DEF RemoveAt, classes!RemoveAt
  <2> QED
    BY <2>1 DEF Enters, High, Low, classes!Enter
<1>3. Tidies(High(queue), Low(queue), High(queue'), Low(queue')) => classes!Tidy
  BY DEF Tidies, High, Low, classes!Tidy
<1> QED
  BY <1>1, <1>2, <1>3, Zenon DEF Served, classes!Next

LEMMA AcceptServed == Types /\ Types' /\ Accept => Served
<1> SUFFICES ASSUME Types, Types', Accept PROVE Served
  OBVIOUS
<1>1. PICK e : e = [packet |-> next, type |-> "APP_LOW_PRIORITY", age |-> 0]
  OBVIOUS
<1>2. next \in Packets /\ pps \in Nat /\ queue' = PushToPosition(queue, e, pps)
  BY <1>1, ConstantTypes DEF Accept, Types, SenderState, Packets
<1>3. e \in Elements
  BY <1>1, <1>2, ConstantTypes DEF Elements, LowType
<1>4. /\ queue \in QueueOf(Elements) /\ SoundQueue(queue)
      /\ queue' \in QueueOf(Elements) /\ SoundQueue(queue')
  BY DEF Types, SenderState
<1>5. /\ queue'.first = queue.first
      /\ \E i \in queue.first + 1 .. Len(queue.data) + 1 : Inserted(queue'.data, queue.data, i, e)
  BY <1>2, <1>3, <1>4, PushToPositionShape
<1>6. PICK i \in queue.first + 1 .. Len(queue.data) + 1 : Inserted(queue'.data, queue.data, i, e)
  BY <1>5
<1>7. PICK d, f, x : d = queue.data /\ f = queue.first /\ x = queue'.data
  OBVIOUS
<1>8. PICK h, l, g, k : h = High(queue) /\ l = Low(queue) /\ g = High(queue') /\ k = Low(queue')
  OBVIOUS
<1>9. d \in Seq(Elements) /\ f \in Nat /\ f <= Len(d) /\ Listed(h, l, d, f)
  BY <1>4, <1>7, <1>8, ListsListed
<1>10. x \in Seq(Elements) /\ Listed(g, k, x, f)
  BY <1>4, <1>5, <1>7, <1>8, ListsListed
<1>11. i \in f + 1 .. Len(d) + 1 /\ Inserted(x, d, i, e)
  BY <1>6, <1>7
<1>12. Enters(h, l, g, k)
  BY <1>9, <1>10, <1>11, AcceptListed
<1> QED
  BY <1>8, <1>12 DEF Served

LEMMA SendDataServed == Types /\ Types' /\ SendData => Served
<1> SUFFICES ASSUME Types, Types', SendData PROVE Served
  OBVIOUS
<1>1. /\ queue \in QueueOf(Elements) /\ SoundQueue(queue)
      /\ queue' \in QueueOf(Elements) /\ SoundQueue(queue')
      /\ ~IsEmpty(queue) /\ queue' = GetData(queue)
  BY DEF Types, SenderState, SendData, SendsData
<1>2. /\ Len(queue'.data) = Len(queue.data) - 1
      /\ \A j \in 1 .. Len(queue.data) - 1 : queue'.data[j] = queue.data[j + 1]
  BY <1>1, GetDataSound
<1>3. queue'.first = (IF queue.first # 0 THEN queue.first - 1 ELSE 0)
  BY <1>1 DEF GetData
<1>4. PICK d, f, x, n : d = queue.data /\ f = queue.first /\ x = queue'.data /\ n = queue'.first
  OBVIOUS
<1>5. PICK h, l, g, k : h = High(queue) /\ l = Low(queue) /\ g = High(queue') /\ k = Low(queue')
  OBVIOUS
<1>6. /\ d \in Seq(Elements) /\ f \in Nat /\ f <= Len(d) /\ Listed(h, l, d, f)
      /\ Len(d) = queue.last /\ Len(d) \in Nat
  BY <1>1, <1>4, <1>5, ListsListed
<1>7. x \in Seq(Elements) /\ Listed(g, k, x, n)
  BY <1>1, <1>4, <1>5, ListsListed
<1>8. Len(d) > 0
  BY <1>1, <1>6 DEF IsEmpty
<1>9. Shifted(x, d) /\ n = (IF f # 0 THEN f - 1 ELSE 0)
  BY <1>2, <1>3, <1>4 DEF Shifted
<1>10. Takes(h, l, g, k)
  BY <1>6, <1>7, <1>8, <1>9, TakeListed
<1> QED
  BY <1>5, <1>10 DEF Served

LEMMA ReceiveServed == Types /\ Types' /\ Receive => Served
<1> SUFFICES ASSUME Types, Types', Receive PROVE Served
  OBVIOUS
<1>1. /\ queue \in QueueOf(Elements) /\ SoundQueue(queue)
      /\ queue' \in QueueOf(Elements) /\ SoundQueue(queue')
      /\ queue' = [queue EXCEPT !.data = [i \in DOMAIN queue.data |-> Aged(queue.data[i])]]
  BY DEF Types, SenderState, Receive, AgeQueue
<1>2. /\ queue'.first = queue.first /\ Len(queue'.data) = Len(queue.data)
      /\ \A i \in 1 .. Len(queue.data) : queue'.data[i].packet = queue.data[i].packet
  <2>1. PICK q, r : q = queue /\ r = queue'
    OBVIOUS
  <2>2. /\ q \in QueueOf(Elements) /\ SoundQueue(q)
        /\ r = [q EXCEPT !.data = [i \in DOMAIN q.data |-> Aged(q.data[i])]]
    BY <1>1, <2>1
  <2>3. /\ r.first = q.first /\ Len(r.data) = Len(q.data)
        /\ \A i \in 1 .. Len(q.data) : r.data[i].packet = q.data[i].packet
    BY <2>2, AgedSound
  <2> QED
    BY <2>1, <2>3
<1>3. PICK d, f, x : d = queue.data /\ f = queue.first /\ x = queue'.data
  OBVIOUS
<1>4. PICK h, l, g, k : h = High(queue) /\ l = Low(queue) /\ g = High(queue') /\ k = Low(queue')
  OBVIOUS
<1>5. d \in Seq(Elements) /\ f \in Nat /\ f <= Len(d) /\ Listed(h, l, d, f)
  BY <1>1, <1>3, <1>4, ListsListed
<1>6. x \in Seq(Elements) /\ Listed(g, k, x, f)
  BY <1>1, <1>2, <1>3, <1>4, ListsListed
<1>7. Len(x) = Len(d) /\ \A j \in 1 .. Len(d) : x[j].packet = d[j].packet
  BY <1>2, <1>3
<1>8. g = h /\ k = l
  BY <1>5, <1>6, <1>7, AgedListed
<1> QED
  BY <1>4, <1>8 DEF Served

LEMMA ProcessOtherServed == Types /\ Types' /\ ProcessOther => Served
<1> SUFFICES ASSUME Types, Types', ProcessOther PROVE Served
  OBVIOUS
<1>1. CASE ~OtherDue
  BY <1>1 DEF ProcessOther, Served
<1>2. CASE OtherDue
  <2>1. PICK order \in [1 .. Cardinality(Again) -> Again] :
          IF ms = Lead + 1
          THEN \E c \in 0 .. Len(Queued(order).data) :
                 /\ IsCut(Queued(order), c, Old)
                 /\ queue' = Cut(Queued(order), c)
                 /\ expired' = expired \cup
                      {Queued(order).data[j].packet : j \in c + 1 .. Len(Queued(order).data)}
          ELSE queue' = Queued(order) /\ UNCHANGED expired
    BY <1>2 DEF ProcessOther
  <2>2. /\ queue \in QueueOf(Elements) /\ SoundQueue(queue)
        /\ queue' \in QueueOf(Elements) /\ SoundQueue(queue')
    BY DEF Types, SenderState
  <2>3. PICK y : y = Queued(order)
    OBVIOUS
  <2>4. y \in QueueOf(Elements) /\ SoundQueue(y)
    BY <2>2, <2>3, QueuedSound
  <2>5. PICK es : es = [i \in DOMAIN order |-> Retransmission(order[i])]
    OBVIOUS
  <2>6. es \in Seq(Elements) /\ y = PushFrontAll(queue, es)
    BY <2>2, <2>3, <2>5, QueuedShape DEF Queued
  <2>7. PICK m, d, f, z : m = Len(es) /\ d = queue.data /\ f = queue.first /\ z = y.data
    OBVIOUS
  <2>8. PICK h, l, g, k : h = High(queue) /\ l = Low(queue) /\ g = High(queue') /\ k = Low(queue')
    OBVIOUS
  <2>9. d \in Seq(Elements) /\ f \in Nat /\ f <= Len(d) /\ Len(d) \in Nat /\ Listed(h, l, d, f)
    BY <2>2, <2>7, <2>8, ListsListed
  <2>10. z = es \o d /\ y.first = f + m /\ m \in Nat
    BY <2>6, <2>7 DEF PushFrontAll
  <2>11. /\ Len(z) = Len(d) + m /\ z \in Seq(Elements)
         /\ \A j \in 1 .. Len(d) + m : j > m => z[j] = d[j - m]
    BY <2>6, <2>7, <2>9, <2>10
  <2>12. PICK c \in f + m .. Len(d) + m :
           /\ queue'.first = f + m /\ Len(queue'.data) = c
           /\ \A j \in 1 .. c : queue'.data[j] = z[j]
    <3>1. CASE ms = Lead + 1
      <4>1. PICK c \in 0 .. Len(y.data) : IsCut(y, c, Old) /\ queue' = Cut(y, c)
        BY <2>1, <2>3, <3>1
      <4>2. c \in y.first .. y.last
        BY <4>1 DEF IsCut
      <4>3. y.last = Len(z)
        BY <2>4, <2>7 DEF SoundQueue
      <4>4. Len(Cut(y, c).data) = c /\ \A j \in 1 .. c : Cut(y, c).data[j] = y.data[j]
        BY <2>4, <4>2, CutSound
      <4>5. queue'.first = y.first
        BY <2>4, <4>1 DEF Cut, QueueOf
      <4> QED
        BY <2>7, <2>10, <2>11, <4>1, <4>2, <4>3, <4>4, <4>5
    <3>2. CASE ms # Lead + 1
      <4>1. queue' = y
        BY <2>1, <2>3, <3>2
      <4>2. Len(d) + m \in f + m .. Len(d) + m
        BY <2>9, <2>10
      <4> QED
        BY <2>7, <2>10, <2>11, <4>1, <4>2
    <3> QED
      BY <3>1, <3>2
  <2>13. PICK x : x = queue'.data
    OBVIOUS
  <2>14. x \in Seq(Elements) /\ Listed(g, k, x, f + m) /\ Len(x) = c
    BY <2>2, <2>8, <2>12, <2>13, ListsListed
  <2>15. Behind(x, d, m)
    <3>1. \A j \in 1 .. c : j \in 1 .. Len(d) + m
      BY <2>9, <2>10
    <3> QED
      BY <2>11, <2>12, <2>13, <2>14, <3>1 DEF Behind
  <2>16. c \in f + m .. Len(d) + m
    BY <2>12
  <2>17. Tidies(h, l, g, k)
    BY <2>9, <2>10, <2>14, <2>15, <2>16, TidyListed
  <2> QED
    BY <2>8, <2>17 DEF Served
<1> QED
  BY <1>1, <1>2

LEMMA NextServed == Types /\ Types' /\ [Next]_vars => Served
<1> SUFFICES ASSUME Types, Types', [Next]_vars PROVE Served
  OBVIOUS
<1>1. CASE queue' = queue
  BY <1>1 DEF Served
<1>2. CASE UNCHANGED vars
  BY <1>1, <1>2 DEF vars, sender
<1>3. CASE TxMac
  <2>1. SendData \/ SendAck \/ SendLastAck \/ SendNothing
    BY <1>3 DEF TxMac
  <2>2. CASE SendAck \/ SendLastAck \/ SendNothing
    BY <1>1, <2>2 DEF SendAck, SendLastAck, SendNothing
  <2> QED
    BY <2>1, <2>2, SendDataServed
<1>4. ASSUME NEW s \in Slots,
             ReceiverAdds(s) \/ SenderAdds(s) \/ ReceiverRemoves(s) \/ SenderRemoves(s)
      PROVE  Served
  BY <1>1, <1>4 DEF ReceiverAdds, SenderAdds, ReceiverRemoves, SenderRemoves, sender
<1> QED
  BY <1>2, <1>3, <1>4, AcceptServed, ProcessOtherServed, ReceiveServed, Zenon DEF Next, Milliseconds

(* What S queues for R is what the two lists of ClassQueues would hold: a   *)
(* packet enters the list of its class, leaves it in its order, and neither *)
(* the timeouts nor the retransmissions move one into the other.            *)
THEOREM ImplementsClassQueuesHolds == Spec => ImplementsClassQueues
<1>1. Init => classes!Init
  <2> SUFFICES ASSUME Init PROVE High(queue) = <<>> /\ Low(queue) = <<>>
    BY DEF classes!Init, High, Low
  <2>1. queue = EmptyQueue /\ queue \in QueueOf(Elements) /\ SoundQueue(queue)
    BY InitTypes DEF Init, Types, SenderState
  <2>2. Len(queue.data) = 0 /\ queue.first = 0
    BY <2>1 DEF EmptyQueue
  <2>3. Len(High(queue)) = 0 /\ Len(Low(queue)) = 0
        /\ High(queue) \in Seq(Packets) /\ Low(queue) \in Seq(Packets)
    BY <2>1, <2>2, ListsListed DEF Listed
  <2> QED
    BY <2>3, EmptyElements
<1>2. Types /\ Types' /\ [Next]_vars => [classes!Next]_<<High(queue), Low(queue)>>
  BY NextServed, ServedImplements
<1>3. Spec => classes!Spec
  BY <1>1, <1>2, TransferTypes, PTL DEF Spec, classes!Spec, High, Low
<1> QED
  BY <1>3 DEF ImplementsClassQueues

-----------------------------------------------------------------------------
(***************************************************************************)
(* What becomes of a packet of S: it is never forgotten, never queued      *)
(* twice, and never sent more often than its tries allow, for every number *)
(* of timeslots, packets and faults, and every timeout.  Then what becomes *)
(* of its acknowledgement: under a hypothesis on the timing that the       *)
(* source's numbers satisfy (AcksFit), none is left when its timeslot      *)
(* ends; with a timeout longer than a timeslot (Patient), and while        *)
(* nothing is lost or removed, no clock of S runs out.                     *)
(***************************************************************************)

-----------------------------------------------------------------------------
(* Who is in a queue *)

Has(q, p)    == \E i \in 1 .. Len(q.data) : q.data[i].packet = p
LowHas(q, p) == \E i \in 1 .. Len(q.data) : q.data[i].packet = p /\ q.data[i].type \in LowType
Distinct(q)  == \A i, j \in 1 .. Len(q.data) : q.data[i].packet = q.data[j].packet => i = j

LEMMA PushedMembers ==
  ASSUME NEW S, NEW q \in QueueOf(S), SoundQueue(q), NEW e \in S, NEW position \in Nat,
         NEW r, r = PushToPosition(q, e, position), Distinct(q), ~Has(q, e.packet)
  PROVE  /\ Distinct(r)
         /\ \A p : Has(r, p) <=> Has(q, p) \/ p = e.packet
         /\ \A p : LowHas(r, p) => LowHas(q, p) \/ p = e.packet
<1>1. Len(q.data) \in Nat /\ q.first \in 0 .. Len(q.data)
  BY DEF QueueOf, SoundQueue
<1>2. PICK i \in q.first + 1 .. Len(q.data) + 1 : Inserted(r.data, q.data, i, e)
  BY PushToPositionShape
<1>3. i \in 1 .. Len(q.data) + 1 /\ Len(r.data) = Len(q.data) + 1
  BY <1>1, <1>2 DEF Inserted
<1> DEFINE old(j) == IF j < i THEN j ELSE j - 1
           new(k) == IF k < i THEN k ELSE k + 1
<1>4. r.data[i] = e
  BY <1>2, <1>3 DEF Inserted
<1>5. \A j \in 1 .. Len(q.data) + 1 : j # i =>
        old(j) \in 1 .. Len(q.data) /\ r.data[j] = q.data[old(j)]
  BY <1>1, <1>2, <1>3 DEF Inserted
<1>6. \A j, l \in 1 .. Len(q.data) + 1 : j # i /\ l # i /\ old(j) = old(l) => j = l
  BY <1>1, <1>3
<1>7. ASSUME NEW k \in 1 .. Len(q.data)
      PROVE  new(k) \in 1 .. Len(q.data) + 1 /\ r.data[new(k)] = q.data[k]
  <2>1. new(k) \in 1 .. Len(q.data) + 1 /\ new(k) # i /\ old(new(k)) = k
    BY <1>1, <1>3
  <2> QED
    BY <1>5, <2>1
<1> HIDE DEF old, new
<1>8. ASSUME NEW j \in 1 .. Len(q.data) + 1, NEW l \in 1 .. Len(q.data) + 1,
             r.data[j].packet = r.data[l].packet
      PROVE  j = l
  <2>1. CASE j # i /\ l # i
    <3>1. old(j) = old(l)
      BY <1>5, <1>8, <2>1 DEF Distinct
    <3> QED
      BY <1>6, <2>1, <3>1
  <2>2. CASE j = i /\ l # i
    BY <1>4, <1>5, <1>8, <2>2 DEF Has
  <2>3. CASE j # i /\ l = i
    BY <1>4, <1>5, <1>8, <2>3 DEF Has
  <2> QED
    BY <2>1, <2>2, <2>3
<1>9. ASSUME NEW p
      PROVE  /\ Has(r, p) => Has(q, p) \/ p = e.packet
             /\ LowHas(r, p) => LowHas(q, p) \/ p = e.packet
  BY <1>3, <1>4, <1>5 DEF Has, LowHas
<1>10. ASSUME NEW p, Has(q, p) \/ p = e.packet PROVE Has(r, p)
  BY <1>3, <1>4, <1>7, <1>10 DEF Has
<1> QED
  BY <1>3, <1>8, <1>9, <1>10 DEF Distinct

LEMMA GetDataMembers ==
  ASSUME NEW S, NEW q \in QueueOf(S), SoundQueue(q), ~IsEmpty(q), Distinct(q),
         NEW r, r = GetData(q), NEW h, h = Head(q.data).packet
  PROVE  /\ Distinct(r) /\ Has(q, h)
         /\ \A p : Has(r, p) <=> Has(q, p) /\ p # h
         /\ \A p : LowHas(r, p) => LowHas(q, p)
<1>1. /\ q.data \in Seq(S) /\ Len(q.data) \in Nat \ {0} /\ Head(q.data) = q.data[1]
  BY DEF QueueOf, SoundQueue, IsEmpty
<1>2. /\ Len(r.data) = Len(q.data) - 1
      /\ \A j \in 1 .. Len(q.data) - 1 : r.data[j] = q.data[j + 1]
  BY GetDataSound
<1>3. \A j \in 1 .. Len(r.data) : j + 1 \in 1 .. Len(q.data) /\ r.data[j] = q.data[j + 1]
  BY <1>1, <1>2
<1>4. \A i \in 1 .. Len(q.data) : i # 1 =>
        i - 1 \in 1 .. Len(r.data) /\ r.data[i - 1] = q.data[i]
  BY <1>1, <1>2
<1>5. ASSUME NEW i \in 1 .. Len(r.data), NEW j \in 1 .. Len(r.data),
             r.data[i].packet = r.data[j].packet
      PROVE  i = j
  <2>1. i + 1 = j + 1
    BY <1>3, <1>5 DEF Distinct
  <2> QED
    BY <1>1, <1>2, <2>1
<1>6. ASSUME NEW p
      PROVE  (Has(r, p) => Has(q, p)) /\ (LowHas(r, p) => LowHas(q, p))
  BY <1>3 DEF Has, LowHas
<1>7. Has(q, h)
  BY <1>1 DEF Has
<1>8. ~Has(r, h)
  <2> SUFFICES ASSUME NEW j \in 1 .. Len(r.data), r.data[j].packet = h PROVE FALSE
    BY DEF Has
  <2>1. j + 1 \in 1 .. Len(q.data) /\ q.data[j + 1].packet = q.data[1].packet
    BY <1>1, <1>3
  <2>2. j + 1 = 1
    BY <1>1, <2>1 DEF Distinct
  <2> QED
    BY <1>1, <1>2, <2>2
<1>9. ASSUME NEW p, Has(q, p), p # h PROVE Has(r, p)
  BY <1>1, <1>4, <1>9 DEF Has
<1> QED
  BY <1>5, <1>6, <1>7, <1>8, <1>9 DEF Distinct

LEMMA FrontMembers ==
  ASSUME NEW S, NEW q \in QueueOf(S), Distinct(q), NEW es \in Seq(S),
         NEW r, r = PushFrontAll(q, es),
         \A i \in 1 .. Len(es) : es[i].type \in HighType /\ ~Has(q, es[i].packet),
         \A i, j \in 1 .. Len(es) : es[i].packet = es[j].packet => i = j
  PROVE  /\ Distinct(r)
         /\ \A p : Has(r, p) <=> Has(q, p) \/ \E i \in 1 .. Len(es) : es[i].packet = p
         /\ \A p : LowHas(r, p) => LowHas(q, p)
<1>1. q.data \in Seq(S) /\ Len(q.data) \in Nat /\ Len(es) \in Nat
  BY DEF QueueOf
<1>2. /\ Len(r.data) = Len(es) + Len(q.data)
      /\ \A j \in 1 .. Len(es) + Len(q.data) :
           r.data[j] = IF j <= Len(es) THEN es[j] ELSE q.data[j - Len(es)]
  <2>1. r.data = es \o q.data
    BY DEF PushFrontAll
  <2> QED
    BY <1>1, <2>1
<1>3. \A j \in 1 .. Len(r.data) :
        \/ j \in 1 .. Len(es) /\ r.data[j] = es[j]
        \/ j - Len(es) \in 1 .. Len(q.data) /\ r.data[j] = q.data[j - Len(es)]
  BY <1>1, <1>2
<1>4. /\ \A i \in 1 .. Len(es) : i \in 1 .. Len(r.data) /\ r.data[i] = es[i]
      /\ \A i \in 1 .. Len(q.data) :
           i + Len(es) \in 1 .. Len(r.data) /\ r.data[i + Len(es)] = q.data[i]
  BY <1>1, <1>2
<1>5. ASSUME NEW i \in 1 .. Len(r.data), NEW j \in 1 .. Len(r.data),
             r.data[i].packet = r.data[j].packet
      PROVE  i = j
  <2>1. CASE i \in 1 .. Len(es) /\ r.data[i] = es[i] /\ j \in 1 .. Len(es) /\ r.data[j] = es[j]
    BY <1>5, <2>1
  <2>2. CASE /\ i - Len(es) \in 1 .. Len(q.data) /\ r.data[i] = q.data[i - Len(es)]
             /\ j - Len(es) \in 1 .. Len(q.data) /\ r.data[j] = q.data[j - Len(es)]
    <3>1. i - Len(es) = j - Len(es)
      BY <1>5, <2>2 DEF Distinct
    <3> QED
      BY <1>1, <1>2, <3>1
  <2>3. ASSUME NEW k \in 1 .. Len(es), NEW l \in 1 .. Len(q.data)
        PROVE  es[k].packet # q.data[l].packet
    BY <2>3 DEF Has
  <2> QED
    BY <1>3, <1>5, <2>1, <2>2, <2>3
<1>6. ASSUME NEW p
      PROVE  /\ Has(r, p) => Has(q, p) \/ \E i \in 1 .. Len(es) : es[i].packet = p
             /\ LowHas(r, p) => LowHas(q, p)
  <2>1. \A type \in HighType : type \notin LowType
    BY DEF HighType, LowType
  <2> QED
    BY <1>3, <2>1 DEF Has, LowHas
<1>7. ASSUME NEW p, Has(q, p) \/ \E i \in 1 .. Len(es) : es[i].packet = p PROVE Has(r, p)
  BY <1>4, <1>7 DEF Has
<1> QED
  BY <1>5, <1>6, <1>7 DEF Distinct

(* The packets that a cut of the queue to its first k loses. *)
Gone(q, k) == {q.data[j].packet : j \in k + 1 .. Len(q.data)}

LEMMA CutMembers ==
  ASSUME NEW S, NEW q \in QueueOf(S), SoundQueue(q), Distinct(q), NEW k \in q.first .. q.last
  PROVE  /\ Distinct(Cut(q, k))
         /\ \A p : Has(Cut(q, k), p) <=> Has(q, p) /\ p \notin Gone(q, k)
         /\ \A p : LowHas(Cut(q, k), p) => LowHas(q, p)
         /\ \A p \in Gone(q, k) : LowHas(q, p)
<1>0. PICK r, gone : r = Cut(q, k) /\ gone = {q.data[j].packet : j \in k + 1 .. Len(q.data)}
  OBVIOUS
<1>1. /\ Len(q.data) \in Nat /\ q.first \in 0 .. Len(q.data) /\ q.last = Len(q.data)
      /\ k \in 0 .. Len(q.data)
  BY DEF QueueOf, SoundQueue
<1>2. Len(r.data) = k /\ \A j \in 1 .. k : r.data[j] = q.data[j]
  BY <1>0, CutSound
<1>3. \A j \in 1 .. k : j \in 1 .. Len(q.data) /\ j \notin k + 1 .. Len(q.data)
  BY <1>1
<1>4. \A j \in 1 .. Len(q.data) : j \in 1 .. k \/ j \in k + 1 .. Len(q.data)
  BY <1>1
<1>5. \A j \in k + 1 .. Len(q.data) : j \in 1 .. Len(q.data) /\ j \in q.first + 1 .. q.last
  BY <1>1
<1>6. Distinct(r)
  BY <1>2, <1>3 DEF Distinct
<1>7. ASSUME NEW p, Has(r, p) PROVE Has(q, p) /\ p \notin gone
  BY <1>0, <1>2, <1>3, <1>5, <1>7 DEF Has, Distinct
<1>8. ASSUME NEW p, Has(q, p), p \notin gone PROVE Has(r, p)
  BY <1>0, <1>2, <1>4, <1>8 DEF Has
<1>9. ASSUME NEW p, LowHas(r, p) PROVE LowHas(q, p)
  BY <1>2, <1>3, <1>9 DEF LowHas
<1>10. ASSUME NEW p \in gone PROVE LowHas(q, p)
  BY <1>0, <1>5 DEF LowHas, SoundQueue
<1> QED
  BY <1>0, <1>6, <1>7, <1>8, <1>9, <1>10 DEF Gone

LEMMA AgedMembers ==
  ASSUME NEW q \in QueueOf(Elements), SoundQueue(q), Distinct(q), NEW r,
         r = [q EXCEPT !.data = [i \in DOMAIN q.data |-> Aged(q.data[i])]]
  PROVE  /\ Distinct(r)
         /\ \A p : Has(r, p) <=> Has(q, p)
         /\ \A p : LowHas(r, p) <=> LowHas(q, p)
<1>1. /\ Len(r.data) = Len(q.data)
      /\ \A i \in 1 .. Len(q.data) : /\ r.data[i].packet = q.data[i].packet
                                     /\ r.data[i].type = q.data[i].type
  BY AgedSound
<1> QED
  BY <1>1 DEF Distinct, Has, LowHas

-----------------------------------------------------------------------------
(* The fate of a packet *)

(* Where a packet is: only one that was accepted is queued, listed or given  *)
(* up; it is queued or listed until its fate is known; the clock of its      *)
(* entry stands still exactly while it is queued; and one of the low class   *)
(* has no entry.                                                             *)
Traced(p) ==
  /\ Has(queue, p) \/ left[p] > 0 \/ p \in failed => p < next
  /\ p < next => Has(queue, p) \/ left[p] > 0 \/ Settled(p)
  /\ left[p] > 0 => (timer[p] = Off <=> Has(queue, p))
  /\ LowHas(queue, p) => left[p] = 0

(* How often it was sent: once for each try that is used up, the one that   *)
(* waits in the queue excepted, until it is acknowledged.                   *)
Out(p) == IF Has(queue, p) THEN 0 ELSE 1
Counted(p) ==
  /\ p \in failed => sends[p] >= Tries
  /\ left[p] > 0 => sends[p] >= Tries - left[p] + Out(p)
  /\ p \notin acked =>
       /\ left[p] > 0 => sends[p] <= Tries - left[p] + Out(p)
       /\ left[p] = 0 /\ p \notin failed => sends[p] = 0
       /\ p \in failed => sends[p] <= Tries /\ ~Has(queue, p) /\ left[p] = 0

Fate == Distinct(queue) /\ \A p \in Packets : Traced(p) /\ Counted(p)

LEMMA PacketTypes ==
  ASSUME Types, NEW p \in Packets
  PROVE  /\ p \in Nat /\ next \in Nat /\ left[p] \in 0 .. Tries /\ timer[p] \in 0 .. Off
         /\ sends[p] \in 0 .. Tries + 1 /\ Tries \in Nat \ {0} /\ Off \in Nat
BY ConstantTypes DEF Types, SenderState, Packets

LEMMA InitFate == Init => Fate
<1> SUFFICES ASSUME Init PROVE Fate
  OBVIOUS
<1>1. /\ queue.data = <<>> /\ next = 1 /\ failed = {}
      /\ \A p \in Packets : left[p] = 0 /\ sends[p] = 0
  BY DEF Init, EmptyQueue
<1>2. Len(queue.data) = 0
  BY <1>1
<1>3. Distinct(queue) /\ \A p : ~Has(queue, p) /\ ~LowHas(queue, p)
  BY <1>2 DEF Distinct, Has, LowHas
<1>4. \A p \in Packets : ~(p < next)
  BY <1>1, ConstantTypes DEF Packets
<1> QED
  BY <1>1, <1>3, <1>4 DEF Fate, Traced, Counted

(* Nothing moves. *)
LEMMA UnchangedFate ==
  ASSUME Fate, UNCHANGED <<queue, left, timer, sends, next, acked, failed, expired>>
  PROVE  Fate'
BY DEF Fate, Traced, Counted, Out, Settled, Distinct, Has, LowHas

LEMMA AcceptFate == Types /\ Fate /\ Accept => Fate'
<1> SUFFICES ASSUME Types, Fate, Accept PROVE Fate'
  OBVIOUS
<1> DEFINE e == [packet |-> next, type |-> "APP_LOW_PRIORITY", age |-> 0]
<1>1. next \in Packets /\ pps \in Nat /\ next \in Nat /\ next' = next + 1
  BY ConstantTypes DEF Accept, Types, SenderState, Packets
<1>2. e \in Elements /\ e.packet = next
  BY <1>1, ConstantTypes DEF Elements, LowType
<1>3. /\ queue' = PushToPosition(queue, e, pps)
      /\ UNCHANGED <<left, timer, sends, acked, failed, expired>>
  BY DEF Accept, history
<1> HIDE DEF e
<1>4. ~Has(queue, next) /\ left[next] = 0 /\ next \notin failed
  BY <1>1, PacketTypes DEF Fate, Traced
<1>5. /\ Distinct(queue')
      /\ \A p : Has(queue', p) <=> Has(queue, p) \/ p = next
      /\ \A p : LowHas(queue', p) => LowHas(queue, p) \/ p = next
  <2>1. queue \in QueueOf(Elements) /\ SoundQueue(queue) /\ Distinct(queue)
    BY DEF Types, SenderState, Fate
  <2>2. ~Has(queue, e.packet)
    BY <1>2, <1>4
  <2> QED
    BY <1>1, <1>2, <1>3, <2>1, <2>2, PushedMembers
<1>6. ASSUME NEW p \in Packets PROVE Traced(p)' /\ Counted(p)'
  <2>1. Traced(p) /\ Counted(p) /\ p \in Nat
    BY PacketTypes DEF Fate
  <2>2. CASE p # next
    <3>1. (Has(queue', p) <=> Has(queue, p)) /\ (LowHas(queue', p) => LowHas(queue, p))
      BY <1>5, <2>2
    <3>2. p < next' <=> p < next
      BY <1>1, <2>1, <2>2
    <3>3. Traced(p)'
      BY <1>3, <2>1, <3>1, <3>2 DEF Traced, Settled
    <3>4. Out(p)' = Out(p)
      BY <3>1 DEF Out
    <3> QED
      BY <1>3, <2>1, <3>1, <3>3, <3>4 DEF Counted
  <2>3. CASE p = next
    <3>1. Has(queue', p) /\ left'[p] = 0 /\ p \notin failed' /\ p < next' /\ sends' = sends
      BY <1>1, <1>3, <1>4, <1>5, <2>3
    <3>2. Traced(p)'
      BY <3>1 DEF Traced
    <3>3. Counted(p)'
      BY <1>3, <1>4, <2>1, <2>3, <3>1 DEF Counted
    <3> QED
      BY <3>2, <3>3
  <2> QED
    BY <2>2, <2>3
<1> QED
  BY <1>5, <1>6 DEF Fate

(* A transmission: the packet leaves the queue, its clock starts. *)
LEMMA SendDataFate ==
  ASSUME Types, Fate, SendData, UNCHANGED <<next, acked, failed, expired>>
  PROVE  Fate'
<1>0. PICK h : h = Head(queue.data).packet
  OBVIOUS
<1>1. /\ ~IsEmpty(queue) /\ queue' = GetData(queue)
      /\ left' = [left EXCEPT ![h] = IF @ = 0 THEN Tries ELSE @]
      /\ timer' = [timer EXCEPT ![h] = 0]
      /\ sends' = [sends EXCEPT ![h] = IF @ <= Tries THEN @ + 1 ELSE @]
  BY <1>0 DEF SendData, SendsData, Restarted
<1>2. queue \in QueueOf(Elements) /\ SoundQueue(queue) /\ Distinct(queue)
  BY DEF Types, SenderState, Fate
<1>3. Head(queue.data) \in Elements
  BY <1>1, <1>2, GetDataSound
<1>4. h \in Packets
  BY <1>0, <1>3 DEF Elements
<1>5. /\ Distinct(queue') /\ Has(queue, h)
      /\ \A p : Has(queue', p) <=> Has(queue, p) /\ p # h
      /\ \A p : LowHas(queue', p) => LowHas(queue, p)
  BY <1>0, <1>1, <1>2, GetDataMembers
<1>6. ASSUME NEW p \in Packets, p # h PROVE Traced(p)' /\ Counted(p)'
  <2>1. /\ left'[p] = left[p] /\ timer'[p] = timer[p] /\ sends'[p] = sends[p]
        /\ (Has(queue', p) <=> Has(queue, p)) /\ (LowHas(queue', p) => LowHas(queue, p))
    BY <1>1, <1>5, <1>6 DEF Types, SenderState
  <2>2. Traced(p) /\ Counted(p)
    BY DEF Fate
  <2>3. Out(p)' = Out(p)
    BY <2>1 DEF Out
  <2>4. Traced(p)'
    BY <2>1, <2>2 DEF Traced, Settled
  <2>5. Counted(p)'
    BY <2>1, <2>2, <2>3 DEF Counted
  <2> QED
    BY <2>4, <2>5
<1>7. Traced(h)' /\ Counted(h)'
  <2>1. /\ left'[h] = (IF left[h] = 0 THEN Tries ELSE left[h]) /\ timer'[h] = 0
        /\ sends'[h] = IF sends[h] <= Tries THEN sends[h] + 1 ELSE sends[h]
    BY <1>1, <1>4 DEF Types, SenderState
  <2>2. /\ left[h] \in 0 .. Tries /\ sends[h] \in 0 .. Tries + 1 /\ Tries \in Nat \ {0}
        /\ Off # 0 /\ Off \in Nat
    BY <1>4, PacketTypes, ConstantTypes
  <2>3. Traced(h) /\ Counted(h) /\ Has(queue, h) /\ ~Has(queue', h)
    BY <1>4, <1>5 DEF Fate
  <2>4. ~LowHas(queue', h)
    BY <2>3 DEF Has, LowHas
  <2>5. left'[h] > 0 /\ h < next
    BY <2>1, <2>2, <2>3 DEF Traced
  <2>6. Traced(h)'
    BY <2>1, <2>2, <2>3, <2>4, <2>5 DEF Traced
  <2>7. Out(h) = 0 /\ Out(h)' = 1
    BY <2>3 DEF Out
  <2>8. h \notin acked => h \notin failed
    BY <2>3 DEF Counted
  <2>9. /\ sends[h] >= 0 /\ h \in failed => sends[h] >= Tries
        /\ left[h] > 0 => sends[h] >= Tries - left[h]
        /\ h \notin acked => /\ left[h] > 0 => sends[h] <= Tries - left[h]
                             /\ left[h] = 0 => sends[h] = 0
    BY <2>2, <2>3, <2>7, <2>8 DEF Counted
  <2>10. /\ h \in failed => sends'[h] >= Tries
         /\ sends'[h] >= Tries - left'[h] + 1
         /\ h \notin acked => sends'[h] <= Tries - left'[h] + 1
    <3>1. CASE left[h] = 0
      BY <2>1, <2>2, <2>9, <3>1
    <3>2. CASE left[h] # 0
      BY <2>1, <2>2, <2>9, <3>2
    <3> QED
      BY <3>1, <3>2
  <2>11. Counted(h)'
    BY <2>2, <2>5, <2>7, <2>8, <2>10 DEF Counted
  <2> QED
    BY <2>6, <2>11
<1> QED
  BY <1>5, <1>6, <1>7 DEF Fate

(* The order of the retransmissions names each entry that is due once. *)
LEMMA OrderOnto ==
  ASSUME NEW order \in [1 .. Cardinality(Again) -> Again],
         \A i, j \in DOMAIN order : i < j => order[i] > order[j]
  PROVE  /\ \A i, j \in 1 .. Cardinality(Again) : order[i] = order[j] => i = j
         /\ \A p \in Again : \E i \in 1 .. Cardinality(Again) : order[i] = p
<1>1. Again \subseteq Nat /\ IsFiniteSet(Again)
  <2>1. Again \subseteq Packets /\ IsFiniteSet(Packets) /\ Packets \subseteq Nat
    BY ConstantTypes, FS_Interval DEF Again, DueEntries, Packets
  <2> QED
    BY <2>1, FS_Subset
<1>2. Cardinality(Again) \in Nat
  BY <1>1, FS_CardinalityType
<1> DEFINE I == 1 .. Cardinality(Again)
<1>3. IsFiniteSet(I) /\ Cardinality(I) = Cardinality(Again) /\ I \subseteq Nat
  BY <1>2, FS_Interval
<1>4. ASSUME NEW i \in I, NEW j \in I, order[i] = order[j] PROVE i = j
  <2>1. order[i] \in Nat /\ order[j] \in Nat /\ i \in Nat /\ j \in Nat
    BY <1>1, <1>3
  <2>2. ~(i < j) /\ ~(j < i)
    BY <1>4, <2>1
  <2> QED
    BY <2>1, <2>2
<1>5. order \in Injection(I, Again)
  BY <1>4 DEF Injection, IsInjective
<1>6. order \in Surjection(I, Again)
  <2> HIDE DEF I
  <2> QED
    BY <1>1, <1>3, <1>5, FS_Injection
<1> QED
  BY <1>4, <1>6 DEF Surjection

LEMMA QueuedMembers ==
  ASSUME Types, Fate, NEW order \in [1 .. Cardinality(Again) -> Again],
         \A i, j \in DOMAIN order : i < j => order[i] > order[j]
  PROVE  /\ Queued(order) \in QueueOf(Elements) /\ SoundQueue(Queued(order))
         /\ Distinct(Queued(order))
         /\ \A p : Has(Queued(order), p) <=> Has(queue, p) \/ p \in Again
         /\ \A p : LowHas(Queued(order), p) => LowHas(queue, p)
<1>1. queue \in QueueOf(Elements) /\ SoundQueue(queue) /\ Distinct(queue)
  BY DEF Types, SenderState, Fate
<1>2. PICK es : es = [i \in DOMAIN order |-> Retransmission(order[i])]
  OBVIOUS
<1>3. /\ es \in Seq(Elements) /\ Len(es) = Cardinality(Again)
      /\ \A i \in 1 .. Cardinality(Again) :
           es[i].type = "RETRANSMISSION" /\ es[i].packet = order[i]
  BY <1>1, <1>2, QueuedShape
<1>4. Queued(order) = PushFrontAll(queue, es)
  BY <1>2 DEF Queued
<1>5. \A p \in Again : ~Has(queue, p)
  <2> SUFFICES ASSUME NEW p \in Again PROVE ~Has(queue, p)
    OBVIOUS
  <2>1. p \in Packets /\ left[p] > 0 /\ timer[p] = Timeout + 1
    BY DEF Again, DueEntries
  <2>2. timer[p] # Off
    BY <2>1, ConstantTypes
  <2> QED
    BY <2>1, <2>2 DEF Fate, Traced
<1>6. \A i \in 1 .. Cardinality(Again) : order[i] \in Again
  OBVIOUS
<1>7. /\ \A i \in 1 .. Len(es) : es[i].type \in HighType /\ ~Has(queue, es[i].packet)
      /\ \A i, j \in 1 .. Len(es) : es[i].packet = es[j].packet => i = j
      /\ \A p : (\E i \in 1 .. Len(es) : es[i].packet = p) <=> p \in Again
  <2>1. /\ \A i, j \in 1 .. Cardinality(Again) : order[i] = order[j] => i = j
        /\ \A p \in Again : \E i \in 1 .. Cardinality(Again) : order[i] = p
    BY OrderOnto, Zenon
  <2>2. \A i \in 1 .. Len(es) : es[i].type \in HighType /\ es[i].packet = order[i]
    BY <1>3 DEF HighType
  <2> QED
    BY <1>3, <1>5, <1>6, <2>1, <2>2
<1>8. /\ Distinct(Queued(order))
      /\ \A p : Has(Queued(order), p) <=> Has(queue, p) \/ \E i \in 1 .. Len(es) : es[i].packet = p
      /\ \A p : LowHas(Queued(order), p) => LowHas(queue, p)
  BY <1>1, <1>3, <1>4, <1>7, FrontMembers
<1> QED
  BY <1>1, <1>7, <1>8, QueuedSound

(* What a run of process_other_MAC does to the queue: the entries that are *)
(* due again join it, and of the low class some may expire.                *)
LEMMA CheckedMembers ==
  ASSUME Types, Fate, ProcessOther, OtherDue
  PROVE  \E gone : /\ Distinct(queue') /\ expired' = expired \cup gone
                   /\ \A p : Has(queue', p) <=> (Has(queue, p) \/ p \in Again) /\ p \notin gone
                   /\ \A p : LowHas(queue', p) => LowHas(queue, p)
                   /\ \A p \in gone : LowHas(queue, p)
<1>1. PICK order \in [1 .. Cardinality(Again) -> Again] :
        /\ \A i, j \in DOMAIN order : i < j => order[i] > order[j]
        /\ IF ms = Lead + 1
           THEN \E k \in 0 .. Len(Queued(order).data) :
                  /\ IsCut(Queued(order), k, Old)
                  /\ queue' = Cut(Queued(order), k)
                  /\ expired' = expired \cup
                       {Queued(order).data[j].packet : j \in k + 1 .. Len(Queued(order).data)}
           ELSE queue' = Queued(order) /\ UNCHANGED expired
  BY DEF ProcessOther
<1>2. PICK r : r = Queued(order)
  OBVIOUS
<1>3. /\ r \in QueueOf(Elements) /\ SoundQueue(r) /\ Distinct(r)
      /\ \A p : Has(r, p) <=> Has(queue, p) \/ p \in Again
      /\ \A p : LowHas(r, p) => LowHas(queue, p)
  BY <1>1, <1>2, QueuedMembers
<1>4. CASE ms # Lead + 1
  <2>1. queue' = r /\ expired' = expired \cup {}
    BY <1>1, <1>2, <1>4
  <2> QED
    BY <1>3, <2>1
<1>5. CASE ms = Lead + 1
  <2>1. PICK k \in 0 .. Len(r.data) :
          /\ IsCut(r, k, Old)
          /\ queue' = Cut(r, k)
          /\ expired' = expired \cup {r.data[j].packet : j \in k + 1 .. Len(r.data)}
    BY <1>1, <1>2, <1>5
  <2>2. k \in r.first .. r.last
    BY <2>1 DEF IsCut
  <2>3. /\ Distinct(Cut(r, k))
        /\ \A p : Has(Cut(r, k), p) <=> Has(r, p) /\ p \notin Gone(r, k)
        /\ \A p : LowHas(Cut(r, k), p) => LowHas(r, p)
        /\ \A p \in Gone(r, k) : LowHas(r, p)
    BY <1>3, <2>2, CutMembers
  <2>4. queue' = Cut(r, k) /\ expired' = expired \cup Gone(r, k)
    BY <2>1 DEF Gone
  <2> QED
    BY <1>3, <2>3, <2>4
<1> QED
  BY <1>4, <1>5

LEMMA ProcessOtherFate == Types /\ Fate /\ ProcessOther => Fate'
<1> SUFFICES ASSUME Types, Fate, ProcessOther PROVE Fate'
  OBVIOUS
<1>1. CASE ~OtherDue
  BY <1>1, UnchangedFate DEF ProcessOther
<1>2. CASE OtherDue
  <2>1. /\ left'  = [p \in Packets |-> IF p \in DueEntries THEN left[p] - 1 ELSE left[p]]
        /\ timer' = [p \in Packets |-> IF p \in Again THEN Off ELSE timer[p]]
        /\ failed' = failed \cup (DueEntries \ Again)
        /\ UNCHANGED <<next, acked, sends>>
    BY <1>2 DEF ProcessOther
  <2>2. PICK gone :
          /\ Distinct(queue') /\ expired' = expired \cup gone
          /\ \A p : Has(queue', p) <=> (Has(queue, p) \/ p \in Again) /\ p \notin gone
          /\ \A p : LowHas(queue', p) => LowHas(queue, p)
          /\ \A p \in gone : LowHas(queue, p)
    BY <1>2, CheckedMembers
  <2>3. ASSUME NEW p \in Packets PROVE Traced(p)' /\ Counted(p)'
    <3>1. /\ Traced(p) /\ Counted(p) /\ left[p] \in 0 .. Tries /\ timer[p] \in 0 .. Off
          /\ sends[p] \in 0 .. Tries + 1 /\ Tries \in Nat \ {0}
      BY PacketTypes DEF Fate
    <3>2. CASE p \in Again
      <4>1. /\ left[p] > 1 /\ timer[p] = Timeout + 1 /\ timer[p] # Off /\ p \in DueEntries
        BY <3>2, ConstantTypes DEF Again, DueEntries
      <4>2. ~Has(queue, p) /\ ~LowHas(queue, p) /\ p < next
        BY <3>1, <4>1 DEF Traced
      <4>3. /\ Has(queue', p) /\ ~LowHas(queue', p) /\ left'[p] = left[p] - 1 /\ timer'[p] = Off
            /\ p \in failed' <=> p \in failed
        BY <2>1, <2>2, <3>2, <4>1, <4>2
      <4>4. left'[p] > 0
        BY <3>1, <4>1, <4>3
      <4>5. Traced(p)'
        BY <2>1, <4>2, <4>3, <4>4 DEF Traced
      <4>6. Out(p) = 1 /\ Out(p)' = 0
        BY <4>2, <4>3 DEF Out
      <4>7. p \notin acked => p \notin failed
        BY <3>1, <4>1 DEF Counted
      <4>8. Tries - left'[p] + 0 = Tries - left[p] + 1
        BY <3>1, <4>3
      <4>9. Counted(p)'
        BY <2>1, <3>1, <4>1, <4>3, <4>4, <4>6, <4>7, <4>8 DEF Counted
      <4> QED
        BY <4>5, <4>9
    <3>3. CASE p \in DueEntries \ Again
      <4>1. left[p] = 1 /\ timer[p] = Timeout + 1 /\ timer[p] # Off
        BY <3>1, <3>3, ConstantTypes DEF Again, DueEntries
      <4>2. ~Has(queue, p) /\ ~LowHas(queue, p) /\ p < next
        BY <3>1, <4>1 DEF Traced
      <4>3. /\ ~Has(queue', p) /\ ~LowHas(queue', p) /\ left'[p] = 0 /\ p \in failed'
            /\ sends'[p] = sends[p]
        BY <2>1, <2>2, <3>3, <4>1, <4>2
      <4>4. Traced(p)'
        BY <2>1, <4>2, <4>3 DEF Traced, Settled
      <4>5. Out(p) = 1
        BY <4>2 DEF Out
      <4>6. sends[p] >= Tries /\ (p \notin acked => sends[p] <= Tries)
        BY <3>1, <4>1, <4>5 DEF Counted
      <4>7. Counted(p)'
        BY <2>1, <4>3, <4>6 DEF Counted
      <4> QED
        BY <4>4, <4>7
    <3>4. CASE p \notin DueEntries
      <4>1. p \notin Again
        BY <3>4 DEF Again
      <4>2. /\ left'[p] = left[p] /\ timer'[p] = timer[p] /\ sends'[p] = sends[p]
            /\ (p \in failed' <=> p \in failed) /\ next' = next /\ acked' = acked
            /\ Has(queue', p) <=> Has(queue, p) /\ p \notin gone
            /\ LowHas(queue', p) => LowHas(queue, p)
            /\ p \in expired' <=> p \in expired \/ p \in gone
        BY <2>1, <2>2, <3>4, <4>1
      <4>3. p \in gone => left[p] = 0
        BY <2>2, <3>1 DEF Traced
      <4>4. Traced(p)'
        BY <3>1, <4>2, <4>3 DEF Traced, Settled
      <4>5. left[p] > 0 => Out(p)' = Out(p)
        BY <3>1, <4>2, <4>3 DEF Out
      <4>6. Counted(p)'
        BY <3>1, <4>2, <4>5 DEF Counted
      <4> QED
        BY <4>4, <4>6
    <3> QED
      BY <3>2, <3>3, <3>4 DEF Again
  <2> QED
    BY <2>2, <2>3 DEF Fate
<1> QED
  BY <1>1, <1>2

LEMMA TxMacFate == Types /\ Fate /\ TxMac => Fate'
<1> SUFFICES ASSUME Types, Fate, TxMac PROVE Fate'
  OBVIOUS
<1>1. UNCHANGED <<next, acked, failed, expired>>
  BY DEF TxMac
<1>2. CASE SendData
  BY <1>1, <1>2, SendDataFate
<1>3. CASE SendAck \/ SendLastAck \/ SendNothing
  <2>1. UNCHANGED <<queue, left, timer, sends>>
    BY <1>3, SendAckTypes
  <2> QED
    BY <1>1, <2>1, UnchangedFate
<1> QED
  BY <1>2, <1>3 DEF TxMac

LEMMA ReceiveFate == Types /\ Fate /\ Receive => Fate'
<1> SUFFICES ASSUME Types, Fate, Receive PROVE Fate'
  OBVIOUS
<1>1. /\ UNCHANGED <<next, failed, expired, sends>> /\ AgeTimers /\ AgeQueue
      /\ Arrive(Head(air))
  BY DEF Receive
<1>2. /\ Distinct(queue')
      /\ \A p : Has(queue', p) <=> Has(queue, p)
      /\ \A p : LowHas(queue', p) <=> LowHas(queue, p)
  BY <1>1, AgedMembers DEF AgeQueue, Types, SenderState, Fate
<1>3. ASSUME NEW p \in Packets
      PROVE  \/ left'[p] = left[p] /\ (p \in acked' <=> p \in acked)
             \/ left'[p] = 0 /\ (left[p] > 0 => p \in acked') /\ (left[p] = 0 => (p \in acked' <=> p \in acked))
  <2>1. CASE UNCHANGED <<left, acked>>
    BY <2>1
  <2>2. CASE HearAck(Head(air).packets)
    <3> DEFINE named == {Head(air).packets[i] : i \in DOMAIN Head(air).packets}
    <3>1. /\ left' = [q \in Packets |-> IF q \in named THEN 0 ELSE left[q]]
          /\ acked' = acked \cup {q \in named : left[q] > 0}
      BY <2>2 DEF HearAck
    <3> HIDE DEF named
    <3>2. left[p] \in 0 .. Tries
      BY PacketTypes
    <3>3. CASE p \in named
      BY <3>1, <3>2, <3>3
    <3>4. CASE p \notin named
      BY <3>1, <3>2, <3>4
    <3> QED
      BY <3>3, <3>4
  <2> QED
    BY <1>1, <2>1, <2>2 DEF Arrive, HearData, NotHeard, Lost
<1>4. ASSUME NEW p \in Packets PROVE Traced(p)' /\ Counted(p)'
  <2>1. Traced(p) /\ Counted(p)
    BY DEF Fate
  <2>2. timer'[p] = Off <=> timer[p] = Off
    BY <1>1, PacketTypes, ConstantTypes DEF AgeTimers, Older
  <2>3. (Has(queue', p) <=> Has(queue, p)) /\ (LowHas(queue', p) <=> LowHas(queue, p))
    BY <1>2
  <2>4. Out(p)' = Out(p)
    BY <2>3 DEF Out
  <2>5. CASE left'[p] = left[p] /\ (p \in acked' <=> p \in acked)
    <3>1. Traced(p)'
      BY <1>1, <2>1, <2>2, <2>3, <2>5 DEF Traced, Settled
    <3>2. Counted(p)'
      BY <1>1, <2>1, <2>3, <2>4, <2>5 DEF Counted
    <3> QED
      BY <3>1, <3>2
  <2>6. CASE /\ left'[p] = 0 /\ (left[p] > 0 => p \in acked')
             /\ (left[p] = 0 => (p \in acked' <=> p \in acked))
    <3>1. left[p] > 0 \/ left[p] = 0
      BY PacketTypes
    <3>2. Traced(p)'
      BY <1>1, <2>1, <2>3, <2>6, <3>1 DEF Traced, Settled
    <3>3. Counted(p)'
      BY <1>1, <2>1, <2>3, <2>6, <3>1 DEF Counted
    <3> QED
      BY <3>2, <3>3
  <2> QED
    BY <1>3, <2>5, <2>6
<1> QED
  BY <1>2, <1>4 DEF Fate

LEMMA NextFate == Types /\ Fate /\ [Next]_vars => Fate'
<1> SUFFICES ASSUME Types, Fate, [Next]_vars PROVE Fate'
  OBVIOUS
<1>1. CASE UNCHANGED vars
  BY <1>1, UnchangedFate DEF vars, sender, history
<1>2. ASSUME NEW s \in Slots,
             ReceiverAdds(s) \/ SenderAdds(s) \/ ReceiverRemoves(s) \/ SenderRemoves(s)
      PROVE  Fate'
  <2>1. UNCHANGED <<sender, history>>
    BY <1>2 DEF ReceiverAdds, SenderAdds, ReceiverRemoves, SenderRemoves
  <2> QED
    BY <2>1, UnchangedFate DEF sender, history
<1> QED
  BY <1>1, <1>2, AcceptFate, ProcessOtherFate, TxMacFate, ReceiveFate, Zenon
     DEF Next, Milliseconds

(* The fate of every packet can be told at every moment. *)
THEOREM FateHolds == Spec => []Fate
BY InitFate, NextFate, TransferTypes, PTL DEF Spec

-----------------------------------------------------------------------------
(* The properties of the runs *)

LEMMA CopiesOfDistinct ==
  ASSUME Types, Distinct(queue), NEW p
  PROVE  Copies(p) \in {0, 1} /\ (Copies(p) = 1 <=> Has(queue, p))
<1> DEFINE C == {i \in DOMAIN queue.data : queue.data[i].packet = p}
<1>1. DOMAIN queue.data = 1 .. Len(queue.data)
  BY DEF Types, SenderState, QueueOf
<1>2. CASE Has(queue, p)
  <2>1. PICK i \in 1 .. Len(queue.data) : queue.data[i].packet = p
    BY <1>2 DEF Has
  <2>2. C = {i}
    BY <1>1, <2>1 DEF Distinct
  <2> QED
    BY <1>2, <2>2, FS_Singleton DEF Copies
<1>3. CASE ~Has(queue, p)
  <2>1. C = {}
    BY <1>1, <1>3 DEF Has
  <2> QED
    BY <1>3, <2>1, FS_EmptySet DEF Copies
<1> QED
  BY <1>2, <1>3

(* A packet that was accepted is queued, or awaits its acknowledgement, or  *)
(* its fate is known; one copy of it is queued at most, and its clock       *)
(* stands still exactly while it is.                                        *)
THEOREM NothingForgottenHolds == Spec => []NothingForgotten
<1>1. Types /\ Fate => NothingForgotten
  <2> SUFFICES ASSUME Types, Fate, NEW p \in 1 .. next - 1
               PROVE  /\ Copies(p) > 0 \/ Awaited(p) \/ Settled(p)
                      /\ Copies(p) <= 1
                      /\ Awaited(p) => (timer[p] = Off <=> Copies(p) = 1)
    BY DEF NothingForgotten
  <2>1. p \in Packets /\ p < next
    BY ConstantTypes DEF Types, SenderState, Packets
  <2>2. Copies(p) \in {0, 1} /\ (Copies(p) = 1 <=> Has(queue, p))
    BY CopiesOfDistinct DEF Fate
  <2>3. Traced(p)
    BY <2>1 DEF Fate
  <2>4. Has(queue, p) \/ left[p] > 0 \/ Settled(p)
    BY <2>1, <2>3 DEF Traced
  <2>5. left[p] > 0 => (timer[p] = Off <=> Has(queue, p))
    BY <2>3 DEF Traced
  <2> QED
    BY <2>2, <2>4, <2>5 DEF Awaited
<1> QED
  BY <1>1, TransferTypes, FateHolds, PTL

(* S sends a packet Tries times before it gives it up, and one that is not  *)
(* acknowledged no more often, whatever is lost and however late it comes.  *)
THEOREM TriesUsedHolds == Spec => []TriesUsed
<1>1. Types /\ Fate => TriesUsed
  <2> SUFFICES ASSUME Types, Fate, NEW p \in Packets
               PROVE  /\ p \in failed => sends[p] >= Tries
                      /\ p \notin acked => sends[p] <= Tries
    BY DEF TriesUsed
  <2>1. Counted(p)
    BY DEF Fate
  <2>2. left[p] \in 0 .. Tries /\ Tries \in Nat \ {0} /\ sends[p] \in 0 .. Tries + 1
    BY PacketTypes
  <2>3. Out(p) \in {0, 1}
    BY DEF Out
  <2>4. p \notin acked /\ left[p] > 0 => sends[p] <= Tries
    BY <2>1, <2>2, <2>3 DEF Counted
  <2>5. p \notin acked /\ left[p] = 0 => sends[p] <= Tries
    BY <2>1, <2>2 DEF Counted
  <2>6. left[p] > 0 \/ left[p] = 0
    BY <2>2
  <2> QED
    BY <2>1, <2>4, <2>5, <2>6 DEF Counted
<1> QED
  BY <1>1, TransferTypes, FateHolds, PTL

-----------------------------------------------------------------------------
(* The acknowledgements leave in their timeslot *)

(* What the timing takes: the acknowledgements of as many packets as a       *)
(* timeslot can carry, and of a buffer one short of full, find a millisecond *)
(* each; and the timeout is longer than a timeslot.  At the source it is     *)
(* 43 + 11 - 1 < 11 * (6 - 1), and 50 <= 60.                                 *)
AcksFit == AckMs >= 3 /\ DataMs + BufferSize - 1 < BufferSize * (AckMs - 1)
Patient == SlotLen <= Timeout

LEMMA SourceTiming ==
  ASSUME DataMs = 43, AckMs = 6, BufferSize = 11, Timeout = 60
  PROVE  AcksFit /\ Patient
BY DEF AcksFit, Patient, SlotLen

(* Before the first tx_MAC of a timeslot. *)
SlotBegins == ms = 0 /\ phase # "rx"

(* How many milliseconds of the data part have been heard. *)
Heard == IF ms <= Lead + 1 THEN 0 ELSE IF ms - 1 - Lead <= DataMs THEN ms - 1 - Lead ELSE DataMs

Waiting == Len(acks[slot].data)
Rest    == IF buffer = <<>> THEN 0 ELSE 1

(* A packet arrives in the timeslot that it was sent in. *)
Placed == \A i \in 1 .. Len(air) :
            air[i].type = "data" => air[i].slot = slot /\ ms - Lead + i - 1 \in 1 .. DataMs

(* Only the timeslot that runs has acknowledgements. *)
Alone == \A s \in Slots : s # slot => /\ acks[s].data = <<>>
                                      /\ acks[s].sent = 0 \/ (SlotBegins /\ s = Before(slot))
Begins == SlotBegins => Waiting = 0 /\ (acks[slot].sent = 0 \/ slot = Before(slot))

(* It has no more than the packets heard account for. *)
Fits(w, u, b, h) == BufferSize * (w + u) + b <= BufferSize - 1 + h
Filled == /\ Len(buffer) < BufferSize
          /\ ~SlotBegins => Fits(Waiting, acks[slot].sent, Len(buffer), Heard)

(* And there is a millisecond left for each. *)
Leaving ==
  /\ phase # "rx" /\ ms >= DataMs + 3 => Waiting + Rest <= SlotLen - ms
  /\ phase = "rx" /\ ms = DataMs + 2 => Waiting <= AckMs - 3
  /\ phase = "rx" /\ ms >= DataMs + 3 => Waiting = 0 \/ Waiting + Rest <= SlotLen - ms - 1

Timely == Placed /\ Alone /\ Begins /\ Filled /\ Leaving

LEMMA RoomLeft ==
  ASSUME AcksFit, NEW w \in Nat, NEW u \in Nat, NEW b \in Nat, NEW h \in Nat, h <= DataMs,
         Fits(w, u, b, h)
  PROVE  w + u <= AckMs - 2
<1> SUFFICES ASSUME w + u > AckMs - 2 PROVE FALSE
  BY ConstantTypes
<1>1. PICK d \in Nat : d = (w + u) - (AckMs - 1)
  BY ConstantTypes
<1>2. BufferSize \in Nat /\ AckMs - 1 \in Nat /\ DataMs \in Nat
  BY ConstantTypes DEF AcksFit
<1>3. PICK a \in Nat : a = AckMs - 1
  BY <1>2
<1>4. w + u = a + d
  BY <1>1, <1>3, ConstantTypes
<1>5. BufferSize * (a + d) = BufferSize * a + BufferSize * d /\ BufferSize * d >= 0
  BY <1>2
<1>6. BufferSize * a \in Nat /\ BufferSize * d \in Nat
  BY <1>2
<1>7. BufferSize * (a + d) + b <= BufferSize - 1 + h /\ DataMs + BufferSize - 1 < BufferSize * a
  BY <1>3, <1>4 DEF Fits, AcksFit
<1> QED
  BY <1>2, <1>5, <1>6, <1>7

LEMMA OneMore ==
  ASSUME NEW w \in Nat, NEW u \in Nat, NEW b \in Nat, NEW h \in Nat,
         Fits(w, u, b, h), b + 1 >= BufferSize
  PROVE  Fits(w + 1, u, 0, h + 1)
<1>1. BufferSize \in Nat /\ BufferSize * (w + u) \in Nat
  BY ConstantTypes
<1>2. BufferSize * ((w + 1) + u) = BufferSize * (w + u) + BufferSize
  BY <1>1
<1> QED
  BY <1>1, <1>2 DEF Fits

LEMMA FewerFit ==
  ASSUME NEW w \in Nat, NEW u \in Nat, NEW b \in Nat, NEW h \in Nat, Fits(w, u, b, h),
         NEW x \in Nat, NEW y \in Nat, x + y <= w + u,
         NEW c \in Nat, c <= b, NEW k \in Nat, h <= k
  PROVE  Fits(x, y, c, k)
<1>1. PICK d \in Nat : w + u = (x + y) + d
  <2>1. (w + u) - (x + y) \in Nat
    OBVIOUS
  <2> QED
    BY <2>1
<1>2. BufferSize \in Nat /\ BufferSize * (x + y) \in Nat /\ BufferSize * d \in Nat
  BY ConstantTypes
<1>3. BufferSize * ((x + y) + d) = BufferSize * (x + y) + BufferSize * d
  BY <1>2
<1> QED
  BY <1>1, <1>2, <1>3 DEF Fits

(* The values of these numbers. *)
Numbers ==
  /\ slot \in Slots /\ ms \in 0 .. SlotLen - 1
  /\ acks \in [Slots -> [data : Seq(Seq(Packets)), sent : Nat]]
  /\ \A s \in Slots : acks[s].data \in Seq(Seq(Packets)) /\ acks[s].sent \in Nat
  /\ Waiting \in Nat /\ (Waiting = 0 <=> acks[slot].data = <<>>)
  /\ buffer \in Seq(Packets) /\ Len(buffer) \in Nat /\ (Len(buffer) = 0 <=> buffer = <<>>)
  /\ Rest \in {0, 1} /\ Heard \in 0 .. DataMs

LEMMA TimelyTypes == Types => Numbers
<1> SUFFICES ASSUME Types PROVE Numbers
  OBVIOUS
<1>1. /\ slot \in Slots /\ ms \in 0 .. SlotLen - 1 /\ buffer \in Seq(Packets)
      /\ acks \in [Slots -> [data : Seq(Seq(Packets)), sent : Nat]]
  BY DEF Types, Clock, ReceiverState
<1>2. \A s \in Slots : acks[s].data \in Seq(Seq(Packets)) /\ acks[s].sent \in Nat
  BY <1>1
<1>3. Waiting \in Nat /\ (Waiting = 0 <=> acks[slot].data = <<>>)
  BY <1>1, <1>2 DEF Waiting
<1>4. Heard \in 0 .. DataMs
  BY <1>1, ConstantTypes DEF Heard
<1> QED
  BY <1>1, <1>2, <1>3, <1>4 DEF Rest, Numbers

LEMMA TimelyTypesNext == Types' => Numbers'
BY TimelyTypes, PTL

LEMMA InitTimely == AcksFit /\ Init => Timely
<1> SUFFICES ASSUME AcksFit, Init PROVE Timely
  OBVIOUS
<1>1. /\ slot = 0 /\ ms = 3 /\ phase = "tx" /\ buffer = <<>>
      /\ acks = [s \in Slots |-> [data |-> <<>>, sent |-> 0]]
      /\ air = [i \in 1 .. 2 |-> Silence] /\ slot \in Slots
  BY ConstantTypes DEF Init, Slots
<1>2. Placed
  BY <1>1 DEF Placed, Silence
<1>3. Alone /\ Begins
  BY <1>1 DEF Alone, Begins, SlotBegins
<1>4. Waiting = 0 /\ acks[slot].sent = 0 /\ Len(buffer) = 0 /\ Rest = 0
  BY <1>1 DEF Waiting, Rest
<1>5. Filled
  BY <1>1, <1>4, ConstantTypes DEF Filled, Fits, Heard
<1>6. Leaving
  BY <1>1, <1>4, ConstantTypes DEF Leaving
<1> QED
  BY <1>2, <1>3, <1>5, <1>6 DEF Timely

(* The timeslot before the one that runs. *)
LEMMA BeforeSlots ==
  ASSUME NEW s \in Slots
  PROVE  /\ Before(s) \in Slots
         /\ (s + 1) % NumSlots \in Slots /\ Before((s + 1) % NumSlots) = s
         /\ \A r \in Slots : (r + NumSlots - s) % NumSlots = 0 <=> r = s
<1>1. s \in 0 .. NumSlots - 1 /\ NumSlots \in Nat \ {0}
  BY ConstantTypes DEF Slots
<1>2. CASE s = NumSlots - 1
  <2>1. (s + 1) % NumSlots = 0
    BY <1>1, <1>2
  <2>2. Before(0) = NumSlots - 1
    BY <1>1 DEF Before
  <2> QED
    BY <1>1, <1>2, <2>1, <2>2 DEF Before, Slots
<1>3. CASE s < NumSlots - 1
  <2>1. (s + 1) % NumSlots = s + 1
    BY <1>1, <1>3
  <2>2. Before(s + 1) = s
    BY <1>1, <1>3 DEF Before
  <2> QED
    BY <1>1, <1>3, <2>1, <2>2 DEF Before, Slots
<1>4. Before(s) \in Slots
  BY <1>1 DEF Before, Slots
<1>5. ASSUME NEW r \in Slots PROVE (r + NumSlots - s) % NumSlots = 0 <=> r = s
  BY <1>1, <1>5 DEF Slots
<1> QED
  BY <1>1, <1>2, <1>3, <1>4, <1>5

LEMMA ClearedSent ==
  ASSUME Types
  PROVE  /\ Cleared \in [Slots -> [data : Seq(Seq(Packets)), sent : Nat]]
         /\ \A s \in Slots : /\ Cleared[s].data = acks[s].data
                             /\ Cleared[s].sent = IF s = Before(slot) THEN 0 ELSE acks[s].sent
<1>1. /\ acks \in [Slots -> [data : Seq(Seq(Packets)), sent : Nat]] /\ Before(slot) \in Slots
  BY TimelyTypes, BeforeSlots DEF Numbers
<1>2. PICK x : x = [acks[Before(slot)] EXCEPT !.sent = 0]
  OBVIOUS
<1>3. x.data = acks[Before(slot)].data /\ x.sent = 0
  BY <1>1, <1>2
<1>4. Cleared = [acks EXCEPT ![Before(slot)] = x]
  BY <1>2 DEF Cleared
<1> QED
  BY <1>1, <1>3, <1>4, ClearedTypes

(* What tx_MAC does to the acknowledgements of R: one of those that wait   *)
(* leaves, or what is in the buffer, or nothing.                           *)
TxLeaves(w, b, v, c) ==
  \/ /\ ms > DataMs + 1 /\ slot \in recvSlots /\ w > 0
     /\ v = w - 1 /\ c = b
  \/ /\ ms = SlotLen - 1 /\ slot \in recvSlots /\ w = 0 /\ v = 0 /\ c = <<>>
  \/ /\ v = w /\ c = b
     /\ ~(ms > DataMs + 1 /\ slot \in recvSlots /\ w > 0)
     /\ ms = SlotLen - 1 /\ slot \in recvSlots => b = <<>>

LEMMA TxEffect ==
  ASSUME Types, TxMac
  PROVE  /\ phase = "tx" /\ phase' = "rx"
         /\ UNCHANGED <<slot, ms, sendSlots, recvSlots, faults, got, acked, failed, expired, next>>
         /\ TxLeaves(Waiting, buffer, Waiting', buffer')
         /\ acks'[slot].sent <= Cleared[slot].sent + (Waiting - Waiting')
         /\ \A s \in Slots : s # slot => acks'[s] = Cleared[s]
         /\ \E f : /\ air' = Append(air, f)
                   /\ f.type = "data" => f.slot = slot /\ ms \in 1 .. DataMs
<1>1. /\ phase = "tx" /\ phase' = "rx"
      /\ UNCHANGED <<slot, ms, sendSlots, recvSlots, faults, got, acked, failed, expired, next>>
  BY DEF TxMac, cells
<1>2. /\ slot \in Slots /\ ms \in 0 .. SlotLen - 1 /\ Waiting \in Nat
      /\ (Waiting = 0 <=> acks[slot].data = <<>>)
      /\ acks[slot].data \in Seq(Seq(Packets)) /\ acks[slot].sent \in Nat
  BY TimelyTypes DEF Numbers
<1>3. /\ Cleared \in [Slots -> [data : Seq(Seq(Packets)), sent : Nat]]
      /\ Cleared[slot].data = acks[slot].data /\ Cleared[slot].sent \in Nat
  BY <1>2, ClearedSent
<1>4. SlotLen - 1 > DataMs + 1 /\ ~(ms \in 1 .. DataMs /\ ms > DataMs + 1)
  BY <1>2, ConstantTypes DEF SlotLen, DataAssumption
<1>5. CASE SendAck
  <2>1. /\ ms > DataMs + 1 /\ slot \in recvSlots /\ acks[slot].data # <<>> /\ buffer' = buffer
        /\ acks' = [Cleared EXCEPT ![slot] = [data |-> Tail(@.data), sent |-> @.sent + 1]]
        /\ air' = Append(air, [type |-> "ack", slot |-> slot, packets |-> Head(acks[slot].data)])
    BY <1>5 DEF SendAck, SendsAck
  <2>2. acks'[slot] = [data |-> Tail(acks[slot].data), sent |-> Cleared[slot].sent + 1]
    BY <1>2, <1>3, <2>1
  <2>3. Waiting > 0 /\ Len(Tail(acks[slot].data)) = Waiting - 1
    BY <1>2, <2>1 DEF Waiting
  <2>4. Waiting' = Waiting - 1
    BY <1>1, <2>2, <2>3 DEF Waiting
  <2>5. acks'[slot].sent <= Cleared[slot].sent + (Waiting - Waiting')
    BY <1>2, <1>3, <2>2, <2>4
  <2>6. \A s \in Slots : s # slot => acks'[s] = Cleared[s]
    BY <1>3, <2>1
  <2>7. TxLeaves(Waiting, buffer, Waiting', buffer')
    BY <2>1, <2>3, <2>4 DEF TxLeaves
  <2> QED
    BY <1>1, <2>1, <2>5, <2>6, <2>7
<1>6. CASE acks' = Cleared
  <2>1. Waiting' = Waiting
    BY <1>1, <1>3, <1>6 DEF Waiting
  <2>2. acks'[slot].sent <= Cleared[slot].sent + (Waiting - Waiting')
    BY <1>2, <1>3, <1>6, <2>1
  <2>3. CASE SendLastAck
    <3>1. /\ ms = SlotLen - 1 /\ slot \in recvSlots /\ acks[slot].data = <<>> /\ buffer' = <<>>
          /\ air' = Append(air, [type |-> "ack", slot |-> slot, packets |-> buffer])
      BY <2>3 DEF SendLastAck, SendsLast
    <3>2. TxLeaves(Waiting, buffer, Waiting', buffer')
      BY <1>2, <2>1, <3>1 DEF TxLeaves
    <3> QED
      BY <1>1, <1>6, <2>2, <3>1, <3>2
  <2>4. CASE SendData \/ SendNothing
    <3>1. /\ buffer' = buffer
          /\ \E f : /\ air' = Append(air, f)
                    /\ f.type = "data" => f.slot = slot /\ ms \in 1 .. DataMs
      <4>1. CASE SendData
        BY <4>1 DEF SendData, SendsData
      <4>2. CASE SendNothing
        BY <4>2 DEF SendNothing, Silence
      <4> QED
        BY <2>4, <4>1, <4>2
    <3>2. /\ ~(ms > DataMs + 1 /\ slot \in recvSlots /\ Waiting > 0)
          /\ ms = SlotLen - 1 /\ slot \in recvSlots => buffer = <<>>
      <4>1. CASE SendData
        BY <1>2, <1>4, <4>1, ConstantTypes DEF SendData, SendsData
      <4>2. CASE SendNothing
        BY <1>2, <1>4, <4>2, ConstantTypes DEF SendNothing, SendsAck, SendsLast
      <4> QED
        BY <2>4, <4>1, <4>2
    <3>3. TxLeaves(Waiting, buffer, Waiting', buffer')
      BY <2>1, <3>1, <3>2 DEF TxLeaves
    <3> QED
      BY <1>1, <1>6, <2>2, <3>1, <3>3
  <2>5. CASE SendAck
    BY <1>5, <2>5
  <2> QED
    BY <2>3, <2>4, <2>5 DEF TxMac
<1> QED
  BY <1>5, <1>6 DEF TxMac, SendData, SendLastAck, SendNothing

LEMMA TxMacTimely ==
  ASSUME AcksFit, Types, Types', AckSlotBounded, Timely, TxMac
  PROVE  Timely'
<1>1. /\ phase = "tx" /\ phase' = "rx" /\ slot' = slot /\ ms' = ms /\ recvSlots' = recvSlots
      /\ TxLeaves(Waiting, buffer, Waiting', buffer')
      /\ acks'[slot].sent <= Cleared[slot].sent + (Waiting - Waiting')
      /\ \A s \in Slots : s # slot => acks'[s] = Cleared[s]
  BY TxEffect
<1>2. /\ slot \in Slots /\ ms \in 0 .. SlotLen - 1 /\ Waiting \in Nat /\ Heard \in 0 .. DataMs
      /\ Len(buffer) \in Nat /\ (Len(buffer) = 0 <=> buffer = <<>>) /\ Rest \in {0, 1}
      /\ acks[slot].sent \in Nat /\ (Waiting = 0 <=> acks[slot].data = <<>>)
  BY TimelyTypes DEF Numbers
<1>3. /\ Waiting' \in Nat /\ Len(buffer') \in Nat /\ (Len(buffer') = 0 <=> buffer' = <<>>)
      /\ Rest' \in {0, 1} /\ acks'[slot].sent \in Nat
  BY <1>1, TimelyTypesNext DEF Numbers
<1>4. /\ ~SlotBegins' /\ Heard' = Heard
  BY <1>1 DEF SlotBegins, Heard
<1>5. Waiting' <= Waiting /\ Len(buffer') <= Len(buffer) /\ Rest' <= Rest
  BY <1>1, <1>2, <1>3 DEF TxLeaves, Rest
<1>6. Cleared[slot].sent \in Nat /\ Cleared[slot].sent <= acks[slot].sent
  <2>1. Cleared[slot].sent = 0 \/ Cleared[slot].sent = acks[slot].sent
    BY <1>2, ClearedSent
  <2> QED
    BY <1>2, <2>1
<1>7. SlotBegins => Waiting = 0 /\ Cleared[slot].sent = 0
  BY <1>2, ClearedSent DEF Timely, Begins
<1>8. Placed'
  <2>1. PICK f : air' = Append(air, f) /\ (f.type = "data" => f.slot = slot /\ ms \in 1 .. DataMs)
    BY TxEffect
  <2>2. air \in Seq(Frames) /\ Len(air) = 2
    BY <1>1, ConstantTypes DEF Types, Channel
  <2>6. /\ Len(Append(air, f)) = Len(air) + 1 /\ Append(air, f)[Len(air) + 1] = f
        /\ \A i \in 1 .. Len(air) : Append(air, f)[i] = air[i]
    <3>1. PICK T : T = Frames \cup {f}
      OBVIOUS
    <3>2. Frames \subseteq T /\ f \in T
      BY <3>1
    <3>3. air \in Seq(T)
      BY <2>2, <3>2, SeqWider
    <3> QED
      BY <3>2, <3>3
  <2>3. Len(air') = 3 /\ air'[3] = f /\ \A i \in 1 .. 2 : air'[i] = air[i]
    BY <2>1, <2>2, <2>6
  <2>4. ms - Lead + 3 - 1 = ms
    BY <1>2, ConstantTypes
  <2>5. \A i \in 1 .. 2 : air[i].type = "data" => air[i].slot = slot /\ ms - Lead + i - 1 \in 1 .. DataMs
    BY <2>2 DEF Timely, Placed
  <2> QED
    BY <1>1, <2>1, <2>3, <2>4, <2>5 DEF Placed
<1>9. Alone' /\ Begins'
  <2>1. \A s \in Slots : s # slot => acks'[s].data = <<>> /\ acks'[s].sent = 0
    BY <1>1, ClearedSent DEF Timely, Alone
  <2> QED
    BY <1>1, <1>4, <2>1 DEF Alone, Begins
<1>10. Filled'
  <2>1. Len(buffer') < BufferSize /\ Len(buffer) < BufferSize
    BY <1>2, <1>3, <1>5, ConstantTypes DEF Timely, Filled
  <2>2. CASE SlotBegins
    <3>1. Waiting' = 0 /\ acks'[slot].sent = 0
      BY <1>1, <1>2, <1>3, <1>5, <1>6, <1>7, <2>2
    <3>2. Fits(0, 0, Len(buffer'), Heard)
      BY <1>2, <1>3, <2>1, ConstantTypes DEF Fits
    <3> QED
      BY <1>1, <1>4, <2>1, <3>1, <3>2 DEF Filled
  <2>3. CASE ~SlotBegins
    <3>1. Fits(Waiting, acks[slot].sent, Len(buffer), Heard)
      BY <2>3 DEF Timely, Filled
    <3>2. Waiting' + acks'[slot].sent <= Waiting + acks[slot].sent
      <4>1. PICK u, v, c, w, x : /\ u = acks[slot].sent /\ v = acks'[slot].sent
                                 /\ c = Cleared[slot].sent /\ w = Waiting /\ x = Waiting'
        OBVIOUS
      <4>2. /\ u \in Nat /\ v \in Nat /\ c \in Nat /\ w \in Nat /\ x \in Nat
            /\ c <= u /\ v <= c + (w - x)
        BY <1>1, <1>2, <1>3, <1>6, <4>1
      <4>3. x + v <= w + u
        BY <4>2
      <4> QED
        BY <4>1, <4>3
    <3>3. Fits(Waiting', acks'[slot].sent, Len(buffer'), Heard)
      <4>1. Heard \in Nat /\ Heard <= Heard
        BY <1>2, ConstantTypes
      <4> QED
        BY <1>2, <1>3, <1>5, <3>1, <3>2, <4>1, FewerFit
    <3> QED
      BY <1>1, <1>4, <2>1, <3>3 DEF Filled
  <2> QED
    BY <2>2, <2>3
<1>11. Leaving'
  <2>1. slot \notin recvSlots => Waiting = 0
    BY <1>2 DEF AckSlotBounded
  <2>2. ms = DataMs + 2 => Waiting' <= AckMs - 3
    <3> SUFFICES ASSUME ms = DataMs + 2 PROVE Waiting' <= AckMs - 3
      OBVIOUS
    <3>1. Fits(Waiting, acks[slot].sent, Len(buffer), Heard)
      BY <1>2, ConstantTypes DEF Timely, Filled, SlotBegins
    <3>2. Waiting + acks[slot].sent <= AckMs - 2
      BY <1>2, <3>1, RoomLeft, ConstantTypes
    <3>3. Waiting' = 0 \/ Waiting' = Waiting - 1
      BY <1>1, <1>2, <2>1, ConstantTypes DEF TxLeaves
    <3> QED
      BY <1>2, <3>2, <3>3, ConstantTypes DEF AcksFit
  <2>3. ms >= DataMs + 3 => Waiting' = 0 \/ Waiting' + Rest' <= SlotLen - ms - 1
    <3> SUFFICES ASSUME ms >= DataMs + 3 PROVE Waiting' = 0 \/ Waiting' + Rest' <= SlotLen - ms - 1
      OBVIOUS
    <3>1. Waiting + Rest <= SlotLen - ms
      BY <1>1 DEF Timely, Leaving
    <3>2. Waiting' = 0 \/ Waiting' = Waiting - 1
      BY <1>1, <1>2, <2>1, ConstantTypes DEF TxLeaves
    <3>3. PICK w, v, p, q, n : /\ w = Waiting /\ v = Waiting' /\ p = Rest /\ q = Rest'
                               /\ n = SlotLen - ms
      OBVIOUS
    <3>4. /\ w \in Nat /\ v \in Nat /\ p \in Nat /\ q \in Nat /\ n \in Int
          /\ q <= p /\ w + p <= n /\ (v = 0 \/ v = w - 1)
      BY <1>2, <1>3, <1>5, <3>1, <3>2, <3>3, ConstantTypes
    <3>5. v = 0 \/ v + q <= n - 1
      BY <3>4
    <3> QED
      BY <1>2, <3>3, <3>5, ConstantTypes
  <2> QED
    BY <1>1, <2>2, <2>3 DEF Leaving
<1> QED
  BY <1>8, <1>9, <1>10, <1>11 DEF Timely

(* What a frame that arrives does to the acknowledgements of R: a packet   *)
(* that is heard enters the buffer, and a buffer that is full is put into  *)
(* the timeslot that runs, which has room.                                 *)
Heeded(b, c, p) ==
  \/ /\ c = Append(b, p) /\ Len(b) + 1 < BufferSize /\ acks' = acks
  \/ /\ c = <<>> /\ Len(b) + 1 >= BufferSize
     /\ acks' = [acks EXCEPT ![slot].data = Append(@, Append(b, p))]

LEMMA AddAckHere ==
  ASSUME Types, NEW packets, slot \in recvSlots, Room(slot) >= 1, AddAck(packets)
  PROVE  acks' = [acks EXCEPT ![slot].data = Append(@, packets)]
<1>1. slot \in WithRoom /\ slot \in Slots /\ recvSlots \subseteq Slots
  BY DEF WithRoom, Types, Clock, Environment
<1>2. \A s \in Slots : Distance(s) \in Nat /\ (Distance(s) = 0 <=> s = slot)
  <2>1. \A s \in Slots : Distance(s) \in Nat
    BY <1>1, ConstantTypes DEF Distance, Slots
  <2> QED
    BY <1>1, <2>1, BeforeSlots DEF Distance
<1>3. ASSUME NEW s \in recvSlots, Nearest(s) PROVE s = slot
  <2>1. Distance(s) <= Distance(slot)
    BY <1>1, <1>3 DEF Nearest
  <2> QED
    BY <1>1, <1>2, <2>1
<1> QED
  BY <1>1, <1>3 DEF AddAck

LEMMA HeardRoom ==
  ASSUME AcksFit, Types, Timely, phase = "rx"
  PROVE  Waiting + acks[slot].sent <= AckMs - 2 /\ Room(slot) >= 1
<1>1. /\ Waiting \in Nat /\ acks[slot].sent \in Nat /\ Len(buffer) \in Nat
      /\ Heard \in Nat /\ Heard <= DataMs
  BY TimelyTypes, ConstantTypes DEF Numbers
<1>2. Fits(Waiting, acks[slot].sent, Len(buffer), Heard)
  BY DEF Timely, Filled, SlotBegins
<1>3. PICK w, u : w = Waiting /\ u = acks[slot].sent
  OBVIOUS
<1>4. w \in Nat /\ u \in Nat /\ w + u <= AckMs - 2
  BY <1>1, <1>2, <1>3, RoomLeft
<1>5. Room(slot) = AckSlots - (w + u)
  BY <1>3 DEF Room, Waiting
<1> QED
  BY <1>3, <1>4, <1>5, ConstantTypes DEF AckSlots

LEMMA ReceiveEffect ==
  ASSUME AcksFit, Types, Timely, Receive
  PROVE  \/ UNCHANGED <<buffer, acks>>
         \/ /\ ms - Lead \in 1 .. DataMs /\ slot \in recvSlots
            /\ Head(air).type = "data" /\ Head(air).slot = slot
            /\ Heeded(buffer, buffer', Head(air).packet)
<1>1. PICK f : f = Head(air)
  OBVIOUS
<1>2. phase = "rx" /\ Arrive(f)
  BY <1>1 DEF Receive
<1>3. air \in Seq(Frames) /\ Len(air) = 3 /\ f = air[1]
  BY <1>1, <1>2, ConstantTypes DEF Types, Channel
<1>4. CASE f.type = "data" /\ f.slot \in recvSlots /\ HearData(f.packet)
  <2>1. f.slot = slot /\ ms - Lead + 1 - 1 \in 1 .. DataMs
    BY <1>3, <1>4 DEF Timely, Placed
  <2>2. ms - Lead \in 1 .. DataMs
    BY <2>1, TimelyTypes, ConstantTypes DEF Numbers
  <2>3. Heeded(buffer, buffer', f.packet)
    <3>1. CASE Len(buffer) + 1 >= BufferSize
      <4>1. buffer' = <<>> /\ AddAck(Append(buffer, f.packet))
        BY <1>4, <3>1 DEF HearData
      <4>2. acks' = [acks EXCEPT ![slot].data = Append(@, Append(buffer, f.packet))]
        BY <1>2, <1>4, <2>1, <4>1, HeardRoom, AddAckHere
      <4> QED
        BY <3>1, <4>1, <4>2 DEF Heeded
    <3>2. CASE ~(Len(buffer) + 1 >= BufferSize)
      <4>1. buffer' = Append(buffer, f.packet) /\ acks' = acks
        BY <1>4, <3>2 DEF HearData
      <4>2. Len(buffer) + 1 < BufferSize
        BY <3>2, TimelyTypes, ConstantTypes DEF Numbers
      <4> QED
        BY <4>1, <4>2 DEF Heeded
    <3> QED
      BY <3>1, <3>2
  <2> QED
    BY <1>1, <1>4, <2>1, <2>2, <2>3
<1> QED
  BY <1>2, <1>4 DEF Arrive, NotHeard, Lost, HearAck, receiver

(* The clock of the superframe. *)
LEMMA ClockStep ==
  ASSUME Types, Receive
  PROVE  /\ phase = "rx" /\ phase' = "other" /\ UNCHANGED <<sendSlots, recvSlots>>
         /\ ms < SlotLen - 1 => ms' = ms + 1 /\ slot' = slot
         /\ ms = SlotLen - 1 => ms' = 0 /\ slot' = (slot + 1) % NumSlots
<1>1. /\ phase = "rx" /\ phase' = "other" /\ UNCHANGED <<sendSlots, recvSlots>>
      /\ ms' = (ms + 1) % SlotLen
      /\ slot' = IF ms = SlotLen - 1 THEN (slot + 1) % NumSlots ELSE slot
  BY DEF Receive, cells
<1>2. ms \in 0 .. SlotLen - 1 /\ SlotLen \in Nat \ {0}
  BY ConstantTypes DEF Types, Clock
<1>3. ms < SlotLen - 1 => (ms + 1) % SlotLen = ms + 1
  BY <1>2
<1>4. ms = SlotLen - 1 => (ms + 1) % SlotLen = 0
  BY <1>2
<1> QED
  BY <1>1, <1>2, <1>3, <1>4

(* What is left of the channel when a frame has arrived. *)
LEMMA TailParts ==
  ASSUME NEW S, NEW s \in Seq(S), s # <<>>, NEW r, r = Tail(s)
  PROVE  /\ r \in Seq(S) /\ Len(r) = Len(s) - 1 /\ Head(s) = s[1] /\ Head(s) \in S
         /\ \A j \in 1 .. Len(s) - 1 : r[j] = s[j + 1]
<1>1. Len(s) \in Nat /\ Len(s) > 0
  OBVIOUS
<1> QED
  BY <1>1

LEMMA HeardShape ==
  ASSUME NEW s \in Seq(Frames), Len(s) = 3, NEW r, r = Tail(s)
  PROVE  Len(r) = 2 /\ \A i \in 1 .. 2 : r[i] = s[i + 1]
<1>1. s # <<>>
  OBVIOUS
<1>2. Len(r) = Len(s) - 1 /\ \A j \in 1 .. Len(s) - 1 : r[j] = s[j + 1]
  BY <1>1, TailParts
<1> QED
  BY <1>2

LEMMA ReceivePlaced ==
  ASSUME AcksFit, Types, Placed, Receive
  PROVE  Placed'
<1>1. air' = Tail(air) /\ phase = "rx"
  BY DEF Receive
<1>2. air \in Seq(Frames) /\ Len(air) = 3
  BY <1>1, ConstantTypes DEF Types, Channel
<1>3. Len(air') = 2 /\ \A i \in 1 .. 2 : air'[i] = air[i + 1]
  BY <1>1, <1>2, HeardShape
<1>4. ms \in 0 .. SlotLen - 1 /\ SlotLen = 1 + DataMs + AckMs /\ AckMs >= 3 /\ AckMs \in Nat
  BY ConstantTypes DEF Types, Clock, SlotLen, AcksFit
<1> SUFFICES ASSUME NEW i \in 1 .. 2, air'[i].type = "data"
             PROVE  air'[i].slot = slot' /\ ms' - Lead + i - 1 \in 1 .. DataMs
  BY <1>3 DEF Placed
<1>5. i + 1 \in 1 .. 3 /\ air[i + 1].type = "data"
  BY <1>3
<1>6. air[i + 1].slot = slot /\ ms - Lead + (i + 1) - 1 \in 1 .. DataMs
  BY <1>2, <1>5 DEF Placed
<1>7. ms < SlotLen - 1
  BY <1>4, <1>6, ConstantTypes
<1> QED
  BY <1>3, <1>4, <1>6, <1>7, ClockStep, ConstantTypes

(* Within a timeslot. *)
LEMMA ReceiveWithin ==
  ASSUME AcksFit, Types, Types', Timely, Receive, ms < SlotLen - 1
  PROVE  Timely'
<1>1. /\ phase = "rx" /\ phase' = "other" /\ ms' = ms + 1 /\ slot' = slot
  BY ClockStep
<1>2. /\ slot \in Slots /\ ms \in 0 .. SlotLen - 1 /\ Waiting \in Nat /\ Heard \in 0 .. DataMs
      /\ acks \in [Slots -> [data : Seq(Seq(Packets)), sent : Nat]]
      /\ Len(buffer) \in Nat /\ (Len(buffer) = 0 <=> buffer = <<>>) /\ Rest \in {0, 1}
      /\ acks[slot].sent \in Nat /\ acks[slot].data \in Seq(Seq(Packets))
      /\ buffer \in Seq(Packets)
  BY TimelyTypes DEF Numbers
<1>3. /\ Waiting' \in Nat /\ Len(buffer') \in Nat /\ (Len(buffer') = 0 <=> buffer' = <<>>)
      /\ Rest' \in {0, 1} /\ acks'[slot].sent \in Nat
  BY <1>1, TimelyTypesNext DEF Numbers
<1>4. ~SlotBegins /\ ~SlotBegins'
  BY <1>1, <1>2, ConstantTypes DEF SlotBegins
<1>5. Len(buffer) < BufferSize /\ Fits(Waiting, acks[slot].sent, Len(buffer), Heard)
  BY <1>4 DEF Timely, Filled
<1>6. SlotLen = 1 + DataMs + AckMs /\ AckMs >= 3 /\ AckMs \in Nat /\ DataMs \in Nat
  BY ConstantTypes DEF SlotLen, AcksFit
<1>7. /\ Heard \in Nat /\ Heard' \in Nat /\ Heard <= Heard'
      /\ ms - Lead \in 1 .. DataMs => Heard' = Heard + 1
  BY <1>1, <1>2, <1>6, ConstantTypes DEF Heard
<1>8. CASE UNCHANGED <<buffer, acks>>
  <2>1. Waiting' = Waiting /\ Rest' = Rest
    BY <1>1, <1>8 DEF Waiting, Rest
  <2>2. Alone' /\ Begins'
    BY <1>1, <1>4, <1>8 DEF Timely, Alone, Begins
  <2>3. Filled'
    <3>1. Fits(Waiting, acks[slot].sent, Len(buffer), Heard')
      BY <1>2, <1>5, <1>7, FewerFit
    <3> QED
      BY <1>1, <1>5, <1>8, <2>1, <3>1 DEF Filled
  <2>4. Leaving'
    <3>1. ms + 1 >= DataMs + 3 => Waiting + Rest <= SlotLen - (ms + 1)
      BY <1>1, <1>2, <1>6 DEF Timely, Leaving
    <3> QED
      BY <1>1, <2>1, <3>1 DEF Leaving
  <2> QED
    BY <2>2, <2>3, <2>4, ReceivePlaced DEF Timely
<1>9. CASE /\ ms - Lead \in 1 .. DataMs /\ slot \in recvSlots
           /\ Heeded(buffer, buffer', Head(air).packet)
  <2>1. PICK p : p = Head(air).packet
    OBVIOUS
  <2>3. CASE buffer' = Append(buffer, p) /\ Len(buffer) + 1 < BufferSize /\ acks' = acks
    <3>1. Waiting' = Waiting
      BY <1>1, <2>3 DEF Waiting
    <3>2. Len(buffer') = Len(buffer) + 1
      <4>1. PICK T : T = Packets \cup {p}
        OBVIOUS
      <4>2. buffer \in Seq(T) /\ p \in T
        BY <1>2, <4>1, SeqWider
      <4> QED
        BY <2>3, <4>2
    <3>3. Alone' /\ Begins'
      BY <1>1, <1>4, <2>3 DEF Timely, Alone, Begins
    <3>4. Filled'
      <4>1. Fits(Waiting, acks[slot].sent, Len(buffer) + 1, Heard + 1)
        <5>1. BufferSize * (Waiting + acks[slot].sent) \in Nat /\ BufferSize \in Nat
          BY <1>2, ConstantTypes
        <5> QED
          BY <1>2, <1>5, <5>1 DEF Fits
      <4> QED
        BY <1>1, <1>7, <1>9, <2>3, <3>1, <3>2, <4>1 DEF Filled
    <3>5. Leaving'
      <4>1. ms + 1 >= DataMs + 3 => Waiting + 1 <= SlotLen - (ms + 1)
        BY <1>1, <1>2, <1>6, <1>9, ConstantTypes DEF Timely, Leaving
      <4>2. PICK w, q, n : w = Waiting /\ q = Rest' /\ n = SlotLen - (ms + 1)
        OBVIOUS
      <4>3. w \in Nat /\ q \in {0, 1} /\ n \in Int
        BY <1>2, <1>3, <1>6, <4>2
      <4>4. w + 1 <= n => w + q <= n
        BY <4>3
      <4>5. ms + 1 >= DataMs + 3 => Waiting + Rest' <= SlotLen - (ms + 1)
        BY <4>1, <4>2, <4>4
      <4> QED
        BY <1>1, <3>1, <4>5 DEF Leaving
    <3> QED
      BY <3>3, <3>4, <3>5, ReceivePlaced DEF Timely
  <2>4. CASE /\ buffer' = <<>> /\ Len(buffer) + 1 >= BufferSize
             /\ acks' = [acks EXCEPT ![slot].data = Append(@, Append(buffer, p))]
    <3>1. /\ acks'[slot].data = Append(acks[slot].data, Append(buffer, p))
          /\ acks'[slot].sent = acks[slot].sent
          /\ \A s \in Slots : s # slot => acks'[s] = acks[s]
      BY <1>2, <2>4
    <3>2. Waiting' = Waiting + 1
      <4>1. PICK T : T = Seq(Packets) \cup {Append(buffer, p)}
        OBVIOUS
      <4>2. acks[slot].data \in Seq(T) /\ Append(buffer, p) \in T
        BY <1>2, <4>1, SeqWider
      <4>3. Len(Append(acks[slot].data, Append(buffer, p))) = Len(acks[slot].data) + 1
        BY <4>2
      <4> QED
        BY <1>1, <3>1, <4>3 DEF Waiting
    <3>3. Alone' /\ Begins'
      BY <1>1, <1>4, <3>1 DEF Timely, Alone, Begins
    <3>4. Len(buffer') = 0 /\ Rest' = 0
      BY <2>4 DEF Rest
    <3>5. Filled'
      <4>1. Fits(Waiting + 1, acks[slot].sent, 0, Heard + 1)
        BY <1>2, <1>5, <1>7, <2>4, OneMore
      <4> QED
        BY <1>1, <1>7, <1>9, <3>1, <3>2, <3>4, <4>1, ConstantTypes DEF Filled
    <3>6. Leaving'
      <4>1. ms + 1 >= DataMs + 3 => Waiting + 1 <= SlotLen - (ms + 1)
        BY <1>1, <1>2, <1>6, <1>9, ConstantTypes DEF Timely, Leaving
      <4> QED
        BY <1>1, <1>2, <1>6, <3>2, <3>4, <4>1 DEF Leaving
    <3> QED
      BY <3>3, <3>5, <3>6, ReceivePlaced DEF Timely
  <2> QED
    BY <1>9, <2>1, <2>3, <2>4 DEF Heeded
<1> QED
  BY <1>8, <1>9, ReceiveEffect

(* From one timeslot to the next. *)
LEMMA ReceiveAcross ==
  ASSUME AcksFit, Types, Types', Timely, Receive, ms = SlotLen - 1
  PROVE  Timely' /\ UNCHANGED <<buffer, acks>>
<1>1. /\ phase = "rx" /\ phase' = "other" /\ ms' = 0 /\ slot' = (slot + 1) % NumSlots
  BY ClockStep
<1>2. /\ slot \in Slots /\ Waiting \in Nat /\ Rest \in {0, 1} /\ Len(buffer) \in Nat
      /\ (Waiting = 0 <=> acks[slot].data = <<>>)
  BY TimelyTypes DEF Numbers
<1>3. SlotLen = 1 + DataMs + AckMs /\ AckMs >= 3 /\ AckMs \in Nat /\ DataMs \in Nat
  BY ConstantTypes DEF SlotLen, AcksFit
<1>4. UNCHANGED <<buffer, acks>>
  <2>1. ms - Lead \notin 1 .. DataMs
    BY <1>3, ConstantTypes
  <2> QED
    BY <2>1, ReceiveEffect
<1>5. SlotBegins' /\ ~SlotBegins /\ slot' \in Slots /\ Before(slot') = slot
  BY <1>1, <1>2, <1>3, BeforeSlots DEF SlotBegins
<1>6. Waiting = 0
  <2>1. Waiting = 0 \/ Waiting + Rest <= SlotLen - ms - 1
    BY <1>1, <1>3 DEF Timely, Leaving
  <2> QED
    BY <1>2, <1>3, <2>1
<1>7. \A s \in Slots : acks[s].data = <<>> /\ (s # slot => acks[s].sent = 0)
  BY <1>2, <1>5, <1>6 DEF Timely, Alone
<1>8. Alone'
  BY <1>4, <1>5, <1>7 DEF Alone
<1>9. Begins'
  <2>1. Waiting' = 0
    BY <1>4, <1>5, <1>7 DEF Waiting
  <2> QED
    BY <1>4, <1>5, <1>7, <2>1 DEF Begins
<1>10. Filled'
  BY <1>4, <1>5 DEF Timely, Filled
<1>11. Leaving'
  BY <1>1, <1>3 DEF Leaving
<1> QED
  BY <1>4, <1>8, <1>9, <1>10, <1>11, ReceivePlaced DEF Timely

(* A RECEIVE timeslot that is removed loses its acknowledgements. *)
LEMMA CellsTimely ==
  ASSUME AcksFit, Types, Types', Timely, NEW s \in Slots,
         ReceiverAdds(s) \/ SenderAdds(s) \/ ReceiverRemoves(s) \/ SenderRemoves(s)
  PROVE  Timely'
<1>1. /\ UNCHANGED <<slot, ms, phase, buffer, air>>
      /\ acks' = acks \/ acks' = [acks EXCEPT ![s] = [data |-> <<>>, sent |-> 0]]
  BY DEF ReceiverAdds, SenderAdds, ReceiverRemoves, SenderRemoves, receiver
<1>2. /\ slot \in Slots /\ Waiting \in Nat /\ Rest \in {0, 1} /\ Len(buffer) \in Nat
      /\ acks \in [Slots -> [data : Seq(Seq(Packets)), sent : Nat]]
      /\ acks[slot].sent \in Nat /\ ms \in 0 .. SlotLen - 1 /\ Heard \in Nat
  BY TimelyTypes, ConstantTypes DEF Numbers
<1>3. /\ SlotBegins' = SlotBegins /\ Heard' = Heard /\ Rest' = Rest
  BY <1>1 DEF SlotBegins, Heard, Rest
<1>4. \/ Waiting' = Waiting /\ acks'[slot].sent = acks[slot].sent
      \/ Waiting' = 0 /\ acks'[slot].sent = 0
  <2>1. CASE acks'[slot] = acks[slot]
    BY <1>1, <2>1 DEF Waiting
  <2>2. CASE acks'[slot] = [data |-> <<>>, sent |-> 0]
    BY <1>1, <2>2 DEF Waiting
  <2> QED
    BY <1>1, <1>2, <2>1, <2>2
<1>5. \A r \in Slots : acks'[r] = acks[r] \/ (acks'[r].data = <<>> /\ acks'[r].sent = 0)
  BY <1>1, <1>2
<1>6. Placed'
  BY <1>1 DEF Timely, Placed
<1>7. Alone'
  BY <1>1, <1>3, <1>5 DEF Timely, Alone
<1>8. Begins'
  BY <1>1, <1>3, <1>4 DEF Timely, Begins
<1>9. Filled'
  <2>1. Len(buffer) < BufferSize
    BY DEF Timely, Filled
  <2>2. ~SlotBegins => Fits(Waiting', acks'[slot].sent, Len(buffer), Heard)
    <3> SUFFICES ASSUME ~SlotBegins PROVE Fits(Waiting', acks'[slot].sent, Len(buffer), Heard)
      OBVIOUS
    <3>1. Fits(Waiting, acks[slot].sent, Len(buffer), Heard)
      BY DEF Timely, Filled
    <3>2. Fits(0, 0, Len(buffer), Heard)
      BY <1>2, <2>1, ConstantTypes DEF Fits
    <3> QED
      BY <1>4, <3>1, <3>2
  <2> QED
    BY <1>1, <1>3, <2>1, <2>2 DEF Filled
<1>10. Leaving'
  <2>1. CASE Waiting' = Waiting
    BY <1>1, <1>3, <2>1 DEF Timely, Leaving
  <2>2. CASE Waiting' = 0
    BY <1>1, <1>2, <1>3, <2>2, ConstantTypes DEF Leaving, AcksFit
  <2> QED
    BY <1>4, <2>1, <2>2
<1> QED
  BY <1>6, <1>7, <1>8, <1>9, <1>10 DEF Timely

LEMMA UnchangedTimely ==
  ASSUME Timely, UNCHANGED <<slot, ms, buffer, acks, air>>, phase' = phase \/ ms # 0 \/ phase # "rx",
         phase' = "rx" <=> phase = "rx"
  PROVE  Timely'
<1>1. SlotBegins' = SlotBegins /\ Heard' = Heard /\ Rest' = Rest /\ Waiting' = Waiting
  BY DEF SlotBegins, Heard, Rest, Waiting
<1>2. Placed' /\ Alone' /\ Begins' /\ Filled'
  BY <1>1 DEF Timely, Placed, Alone, Begins, Filled
<1>3. Leaving'
  BY <1>1 DEF Timely, Leaving
<1> QED
  BY <1>2, <1>3 DEF Timely

LEMMA NextTimely == AcksFit /\ Types /\ Types' /\ AckSlotBounded /\ Timely /\ [Next]_vars => Timely'
<1> SUFFICES ASSUME AcksFit, Types, Types', AckSlotBounded, Timely, [Next]_vars PROVE Timely'
  OBVIOUS
<1>1. CASE Accept \/ ProcessOther \/ UNCHANGED vars
  <2>1. UNCHANGED <<slot, ms, buffer, acks, air>> /\ (phase' = "rx" <=> phase = "rx")
    BY <1>1 DEF Accept, ProcessOther, vars, receiver
  <2>2. phase' = phase \/ ms # 0 \/ phase # "rx"
    BY <1>1 DEF Accept, ProcessOther, vars
  <2> QED
    BY <2>1, <2>2, UnchangedTimely
<1>2. CASE Receive
  <2>1. ms < SlotLen - 1 \/ ms = SlotLen - 1
    BY ConstantTypes DEF Types, Clock
  <2> QED
    BY <1>2, <2>1, ReceiveWithin, ReceiveAcross
<1> QED
  BY <1>1, <1>2, TxMacTimely, CellsTimely, Zenon DEF Next, Milliseconds

(* The acknowledgements of a timeslot are those of its own packets, never  *)
(* more than it has milliseconds for.                                      *)
THEOREM TimelyHolds == AcksFit => (Spec => []Timely)
<1> SUFFICES ASSUME AcksFit PROVE Spec => []Timely
  OBVIOUS
<1>1. Init => Timely
  BY InitTimely
<1>2. Types /\ Types' /\ AckSlotBounded /\ Timely /\ [Next]_vars => Timely'
  BY NextTimely
<1> QED
  BY <1>1, <1>2, TransferTypes, AckSlotBoundedHolds, PTL DEF Spec

(* When the last millisecond of a RECEIVE timeslot has been used, R holds  *)
(* no acknowledgement any more: none waits a superframe for its turn,      *)
(* whatever is lost and whichever timeslots come and go.                   *)
THEOREM AcksLeaveInSlotHolds == AcksFit => (Spec => AcksLeaveInSlot)
<1> SUFFICES ASSUME AcksFit PROVE Spec => AcksLeaveInSlot
  OBVIOUS
<1>1. ASSUME Types, Types', Timely, TxMac, ms = SlotLen - 1, slot \in recvSlots
      PROVE  buffer' = <<>> /\ \A s \in Slots : acks'[s].data = <<>>
  <2>1. /\ slot \in Slots /\ Waiting \in Nat /\ Rest \in {0, 1}
        /\ (Waiting = 0 <=> acks[slot].data = <<>>)
    BY <1>1, TimelyTypes DEF Numbers
  <2>2. /\ phase = "tx" /\ slot' = slot /\ TxLeaves(Waiting, buffer, Waiting', buffer')
        /\ \A s \in Slots : s # slot => acks'[s] = Cleared[s]
    BY <1>1, TxEffect
  <2>3. SlotLen = 1 + DataMs + AckMs /\ AckMs >= 3 /\ AckMs \in Nat /\ DataMs \in Nat
    BY ConstantTypes DEF SlotLen, AcksFit
  <2>4. Waiting + Rest <= 1
    BY <1>1, <2>2, <2>3 DEF Timely, Leaving
  <2>5. Waiting = 0 \/ (Waiting = 1 /\ Rest = 0)
    BY <2>1, <2>4
  <2>6. Waiting' = 0 /\ buffer' = <<>>
    BY <1>1, <2>1, <2>2, <2>3, <2>5 DEF TxLeaves, Rest
  <2>7. (Waiting = 0 <=> acks[slot].data = <<>>)'
    BY <1>1, TimelyTypesNext DEF Numbers
  <2>8. acks'[slot].data = <<>>
    BY <2>2, <2>6, <2>7
  <2>9. \A s \in Slots : s # slot => acks'[s].data = <<>>
    BY <1>1, <2>2, ClearedSent DEF Timely, Alone
  <2> QED
    BY <2>6, <2>8, <2>9
<1>2. Types /\ Types' /\ Timely /\ [Next]_vars
        => [TxMac /\ ms = SlotLen - 1 /\ slot \in recvSlots =>
             buffer' = <<>> /\ \A s \in Slots : acks'[s].data = <<>>]_vars
  BY <1>1
<1> QED
  BY <1>2, TransferTypes, TimelyHolds, PTL DEF Spec, AcksLeaveInSlot

-----------------------------------------------------------------------------
(* No false alarm *)

Names(s, p) == \E i \in 1 .. Len(s) : s[i] = p

(* R holds the acknowledgement of p, in its buffer or in the timeslot. *)
Holds(b, d, p) == Names(b, p) \/ \E j \in 1 .. Len(d) : Names(d[j], p)
Kept(p)        == Holds(buffer, acks[slot].data, p)

(* It is the packet, or its acknowledgement, that the channel carries at i. *)
Carried(p, i) ==
  \/ air[i].type = "data" /\ air[i].packet = p /\ timer[p] = Lead + 1 - i
  \/ air[i].type = "ack" /\ Names(air[i].packets, p) /\ timer[p] <= SlotLen - 2 + Lead + 1 - i
OnTheWay(p) == (Kept(p) /\ timer[p] <= ms - 1) \/ \E i \in 1 .. Len(air) : Carried(p, i)

OnTime(p) ==
  /\ sends[p] <= 1 /\ (p >= next => sends[p] = 0)
  /\ Has(queue, p) => sends[p] = 0 /\ left[p] = 0
  /\ left[p] > 0 => OnTheWay(p)

(* While nothing goes wrong, what is sent is sent in a timeslot of both      *)
(* stations, and an entry of S is for a packet, or an acknowledgement, that  *)
(* has been on its way for as long as the clock of the entry says.           *)
Shared  == /\ sendSlots \subseteq recvSlots
           /\ \A i \in 1 .. Len(air) : air[i].type # "silence" => air[i].slot \in sendSlots
           /\ buffer # <<>> \/ Waiting > 0 => slot \in sendSlots
           /\ phase = "rx" /\ ms = SlotLen - 1 => buffer = <<>> /\ Waiting = 0
Calm    == Shared /\ failed = {} /\ \A p \in Packets : OnTime(p)

LEMMA HoldsMore ==
  ASSUME NEW b \in Seq(Packets), NEW d \in Seq(Seq(Packets)), NEW q \in Packets, NEW p,
         Holds(b, d, p) \/ p = q
  PROVE  Holds(Append(b, q), d, p) /\ Holds(<<>>, Append(d, Append(b, q)), p)
<1>1. PICK c : c = Append(b, q)
  OBVIOUS
<1>2. /\ Len(b) \in Nat /\ c \in Seq(Packets) /\ Len(c) = Len(b) + 1 /\ c[Len(b) + 1] = q
      /\ \A i \in 1 .. Len(b) : c[i] = b[i]
  BY <1>1
<1>3. Names(b, p) \/ p = q => Names(c, p)
  <2>1. CASE p = q
    <3>1. Len(b) + 1 \in 1 .. Len(c)
      BY <1>2
    <3> QED
      BY <1>2, <2>1, <3>1 DEF Names
  <2>2. CASE Names(b, p)
    <3>1. PICK i \in 1 .. Len(b) : b[i] = p
      BY <2>2 DEF Names
    <3>2. i \in 1 .. Len(c) /\ c[i] = p
      BY <1>2, <3>1
    <3> QED
      BY <3>2 DEF Names
  <2> QED
    BY <2>1, <2>2
<1>4. PICK e : e = Append(d, c)
  OBVIOUS
<1>5. /\ Len(d) \in Nat /\ Len(e) = Len(d) + 1 /\ e[Len(d) + 1] = c
      /\ \A i \in 1 .. Len(d) : e[i] = d[i]
  BY <1>2, <1>4
<1>6. /\ Len(d) + 1 \in 1 .. Len(e)
      /\ \A i \in 1 .. Len(d) : i \in 1 .. Len(e) /\ e[i] = d[i]
  BY <1>5
<1>7. Holds(<<>>, e, p)
  <2>1. CASE Names(c, p)
    BY <1>5, <1>6, <2>1 DEF Holds
  <2>2. CASE \E j \in 1 .. Len(d) : Names(d[j], p)
    BY <1>6, <2>2 DEF Holds
  <2> QED
    BY <1>3, <2>1, <2>2 DEF Holds
<1>8. Holds(c, d, p)
  BY <1>3 DEF Holds
<1> QED
  BY <1>1, <1>4, <1>7, <1>8

LEMMA HoldsLess ==
  ASSUME NEW b, NEW d \in Seq(Seq(Packets)), d # <<>>, NEW p, Holds(b, d, p)
  PROVE  Names(Head(d), p) \/ Holds(b, Tail(d), p)
<1>1. PICK e : e = Tail(d)
  OBVIOUS
<1>2. Len(d) \in Nat /\ Len(e) = Len(d) - 1 /\ Head(d) = d[1]
      /\ \A j \in 1 .. Len(d) - 1 : e[j] = d[j + 1]
  BY <1>1, TailParts
<1>3. ASSUME NEW j \in 1 .. Len(d), Names(d[j], p), j # 1 PROVE Holds(b, e, p)
  <2>1. j - 1 \in 1 .. Len(e) /\ e[j - 1] = d[j]
    BY <1>2, <1>3
  <2> QED
    BY <1>3, <2>1 DEF Holds
<1> QED
  BY <1>1, <1>2, <1>3 DEF Holds

(* The clock of what is on the way has not run out. *)
LEMMA OnTheWayTimer ==
  ASSUME Patient, Types, NEW p \in Packets, OnTheWay(p)
  PROVE  timer[p] <= Timeout /\ timer[p] \in Nat
<1>1. /\ timer[p] \in Nat /\ ms \in 0 .. SlotLen - 1 /\ Timeout \in Nat /\ SlotLen <= Timeout
      /\ SlotLen \in Nat /\ SlotLen >= 4 /\ Lead = 2
  BY ConstantTypes DEF Types, SenderState, Clock, Patient
<1>2. ASSUME NEW i \in 1 .. Len(air), Carried(p, i) PROVE timer[p] <= Timeout
  <2>1. i \in Nat /\ i >= 1
    OBVIOUS
  <2> QED
    BY <1>1, <1>2, <2>1 DEF Carried
<1>3. timer[p] <= ms - 1 => timer[p] <= Timeout
  BY <1>1
<1> QED
  BY <1>1, <1>2, <1>3 DEF OnTheWay

LEMMA InitCalm == Init => Calm
<1> SUFFICES ASSUME Init PROVE Calm
  OBVIOUS
<1>1. /\ sendSlots = {0} /\ recvSlots = {0} /\ buffer = <<>> /\ phase = "tx" /\ slot = 0
      /\ acks = [s \in Slots |-> [data |-> <<>>, sent |-> 0]] /\ slot \in Slots
      /\ air = [i \in 1 .. 2 |-> Silence] /\ failed = {} /\ queue.data = <<>>
      /\ \A p \in Packets : left[p] = 0 /\ sends[p] = 0
  BY ConstantTypes DEF Init, Slots, EmptyQueue
<1>2. Waiting = 0 /\ Len(queue.data) = 0
  BY <1>1 DEF Waiting
<1>3. Shared
  BY <1>1, <1>2 DEF Shared, Silence
<1>4. \A p \in Packets : ~Has(queue, p)
  BY <1>2 DEF Has
<1> QED
  BY <1>1, <1>3, <1>4 DEF Calm, OnTime

(* The application and the timeouts of process_other_MAC. *)
LEMMA AcceptCalm ==
  ASSUME Types, Fate, Calm, Accept
  PROVE  Calm'
<1>1. /\ UNCHANGED <<slot, ms, phase, left, timer, buffer, acks, sendSlots, recvSlots, air>>
      /\ UNCHANGED <<failed, sends>> /\ next \in Nat /\ next' = next + 1 /\ next \in Packets
  BY ConstantTypes DEF Accept, receiver, cells, history, Types, SenderState, Packets
<1>2. Shared'
  BY <1>1 DEF Calm, Shared, Waiting
<1>3. \A p : OnTheWay(p)' <=> OnTheWay(p)
  BY <1>1 DEF OnTheWay, Kept, Carried
<1>4. \A p : Has(queue', p) => Has(queue, p) \/ p = next
  <2>1. PICK e : e = [packet |-> next, type |-> "APP_LOW_PRIORITY", age |-> 0]
    OBVIOUS
  <2>2. e \in Elements /\ e.packet = next
    BY <1>1, <2>1, ConstantTypes DEF Elements, LowType
  <2>3. queue' = PushToPosition(queue, e, pps) /\ pps \in Nat
    BY <2>1, ConstantTypes DEF Accept, Types, SenderState
  <2>4. queue \in QueueOf(Elements) /\ SoundQueue(queue) /\ Distinct(queue)
    BY DEF Types, SenderState, Fate
  <2>5. Traced(next) /\ next \in Nat
    BY <1>1 DEF Fate
  <2>6. ~Has(queue, e.packet)
    BY <2>2, <2>5 DEF Traced
  <2> QED
    BY <2>2, <2>3, <2>4, <2>6, PushedMembers
<1>5. ASSUME NEW p \in Packets PROVE OnTime(p)'
  <2>1. OnTime(p) /\ p \in Nat /\ Traced(p) /\ left[p] \in 0 .. Tries /\ Tries \in Nat
    BY PacketTypes DEF Calm, Fate
  <2>2. p >= next' => p >= next
    BY <1>1, <2>1
  <2>3. p = next => sends[p] = 0 /\ left[p] = 0
    BY <1>1, <2>1 DEF OnTime, Traced
  <2> QED
    BY <1>1, <1>3, <1>4, <2>1, <2>2, <2>3 DEF OnTime
<1> QED
  BY <1>1, <1>2, <1>5 DEF Calm

LEMMA ProcessOtherCalm ==
  ASSUME Patient, Types, Fate, Calm, ProcessOther
  PROVE  Calm'
<1>1. /\ UNCHANGED <<slot, ms, buffer, acks, sendSlots, recvSlots, air, sends, next>>
      /\ phase = "other" /\ phase' = "tx"
  BY DEF ProcessOther, receiver, cells
<1>2. DueEntries = {}
  <2> SUFFICES ASSUME NEW p \in Packets, left[p] > 0, timer[p] = Timeout + 1 PROVE FALSE
    BY DEF DueEntries
  <2>1. OnTheWay(p)
    BY DEF Calm, OnTime
  <2> QED
    BY <2>1, OnTheWayTimer, ConstantTypes
<1>3. Again = {}
  BY <1>2 DEF Again
<1>4. left' = left /\ timer' = timer /\ failed' = failed
  <2>1. left \in [Packets -> 0 .. Tries] /\ timer \in [Packets -> 0 .. Off]
    BY DEF Types, SenderState
  <2>2. CASE OtherDue
    <3>1. /\ left'  = [p \in Packets |-> IF p \in DueEntries THEN left[p] - 1 ELSE left[p]]
          /\ timer' = [p \in Packets |-> IF p \in Again THEN Off ELSE timer[p]]
          /\ failed' = failed \cup (DueEntries \ Again)
      BY <2>2 DEF ProcessOther
    <3> QED
      BY <1>2, <1>3, <2>1, <3>1
  <2>3. CASE ~OtherDue
    BY <2>3 DEF ProcessOther
  <2> QED
    BY <2>2, <2>3
<1>5. \A p : Has(queue', p) => Has(queue, p)
  <2>1. CASE OtherDue
    BY <1>3, <2>1, CheckedMembers
  <2>2. CASE ~OtherDue
    BY <2>2 DEF ProcessOther
  <2> QED
    BY <2>1, <2>2
<1>6. Shared'
  BY <1>1 DEF Calm, Shared, Waiting
<1>7. \A p : OnTheWay(p)' <=> OnTheWay(p)
  BY <1>1, <1>4 DEF OnTheWay, Kept, Carried
<1> QED
  BY <1>1, <1>4, <1>5, <1>6, <1>7 DEF Calm, OnTime

(* tx_MAC: what is transmitted is on its way. *)
LEMMA TxShape ==
  ASSUME Types, phase = "tx", NEW f, air' = Append(air, f)
  PROVE  Len(air) = 2 /\ Len(air') = 3 /\ air'[3] = f /\ \A i \in 1 .. 2 : air'[i] = air[i]
<1>1. air \in Seq(Frames) /\ Len(air) = 2
  BY ConstantTypes DEF Types, Channel
<1>2. PICK T : T = Frames \cup {f}
  OBVIOUS
<1>3. Frames \subseteq T /\ f \in T
  BY <1>2
<1>4. air \in Seq(T)
  BY <1>1, <1>3, SeqWider
<1>5. /\ Len(air') = Len(air) + 1 /\ air'[Len(air) + 1] = f
      /\ \A i \in 1 .. Len(air) : air'[i] = air[i]
  BY <1>3, <1>4
<1> QED
  BY <1>1, <1>5

LEMMA TxMacShared ==
  ASSUME AcksFit, Types, Types', AckSlotBounded, Timely, Shared, TxMac
  PROVE  Shared'
<1>1. /\ phase = "tx" /\ phase' = "rx" /\ UNCHANGED <<slot, ms, sendSlots, recvSlots>>
      /\ TxLeaves(Waiting, buffer, Waiting', buffer')
  BY TxEffect
<1>2. /\ Waiting \in Nat /\ Rest \in {0, 1} /\ (Waiting = 0 <=> acks[slot].data = <<>>)
      /\ slot \in Slots /\ Waiting' \in Nat
  BY TimelyTypes, TimelyTypesNext DEF Numbers
<1>3. buffer' # <<>> \/ Waiting' > 0 => buffer # <<>> \/ Waiting > 0
  BY <1>1, <1>2 DEF TxLeaves
<1>4. ms = SlotLen - 1 => buffer' = <<>> /\ Waiting' = 0
  <2> SUFFICES ASSUME ms = SlotLen - 1 PROVE buffer' = <<>> /\ Waiting' = 0
    OBVIOUS
  <2>1. SlotLen = 1 + DataMs + AckMs /\ AckMs >= 3 /\ AckMs \in Nat /\ DataMs \in Nat
    BY ConstantTypes DEF SlotLen, AcksFit
  <2>2. Waiting + Rest <= 1
    BY <1>1, <2>1 DEF Timely, Leaving
  <2>3. Waiting = 0 \/ (Waiting = 1 /\ Rest = 0)
    BY <1>2, <2>2
  <2>4. CASE slot \in recvSlots
    BY <1>1, <1>2, <2>1, <2>3, <2>4 DEF TxLeaves, Rest
  <2>5. CASE slot \notin recvSlots
    <3>1. buffer = <<>> /\ Waiting = 0
      BY <1>2, <2>5 DEF Shared
    <3> QED
      BY <1>1, <1>2, <3>1 DEF TxLeaves
  <2> QED
    BY <2>4, <2>5
<1>5. \E f : /\ air' = Append(air, f)
             /\ f.type # "silence" => f.slot \in sendSlots
  <2>1. CASE SendData
    BY <2>1 DEF SendData, SendsData
  <2>2. CASE SendAck
    BY <1>2, <2>2 DEF SendAck, SendsAck, Shared
  <2>3. CASE SendLastAck
    BY <2>3 DEF SendLastAck, SendsLast, Shared
  <2>4. CASE SendNothing
    BY <2>4 DEF SendNothing, Silence
  <2> QED
    BY <2>1, <2>2, <2>3, <2>4 DEF TxMac
<1>6. PICK f : air' = Append(air, f) /\ (f.type # "silence" => f.slot \in sendSlots)
  BY <1>5
<1>7. Len(air) = 2 /\ Len(air') = 3 /\ air'[3] = f /\ \A i \in 1 .. 2 : air'[i] = air[i]
  BY <1>1, <1>6, TxShape
<1>8. \A i \in 1 .. 3 : air'[i].type # "silence" => air'[i].slot \in sendSlots
  <2>1. \A i \in 1 .. 3 : i = 3 \/ i \in 1 .. 2
    OBVIOUS
  <2>2. \A i \in 1 .. 2 : air[i].type # "silence" => air[i].slot \in sendSlots
    BY <1>7 DEF Shared
  <2> QED
    BY <1>6, <1>7, <2>1, <2>2
<1> QED
  BY <1>1, <1>3, <1>4, <1>7, <1>8 DEF Shared

LEMMA TxMacCalm ==
  ASSUME AcksFit, Types, Types', AckSlotBounded, Timely, Fate, Calm, TxMac
  PROVE  Calm'
<1>1. /\ phase = "tx" /\ UNCHANGED <<slot, ms, failed, next>>
  BY TxEffect
<1>2. /\ slot \in Slots /\ ms \in 0 .. SlotLen - 1 /\ buffer \in Seq(Packets)
      /\ acks[slot].data \in Seq(Seq(Packets)) /\ SlotLen \in Nat /\ Lead = 2
  BY TimelyTypes, ConstantTypes DEF Numbers
<1>3. Shared'
  BY TxMacShared DEF Calm
<1>4. Cleared[slot].data = acks[slot].data /\ Cleared \in [Slots -> [data : Seq(Seq(Packets)), sent : Nat]]
  BY <1>2, ClearedSent
<1>5. PICK f : air' = Append(air, f)
  BY TxEffect
<1>6. Len(air) = 2 /\ Len(air') = 3 /\ air'[3] = f /\ \A i \in 1 .. 2 : air'[i] = air[i]
  BY <1>1, <1>5, TxShape
<1>7. ASSUME NEW p, timer'[p] = timer[p], NEW i \in 1 .. Len(air), Carried(p, i)
      PROVE  OnTheWay(p)'
  <2>1. i \in 1 .. Len(air') /\ air'[i] = air[i]
    BY <1>6
  <2> QED
    BY <1>7, <2>1 DEF OnTheWay, Carried
<1>8. CASE SendData
  <2>1. PICK h : h = Head(queue.data).packet
    OBVIOUS
  <2>2. /\ ~IsEmpty(queue) /\ queue' = GetData(queue)
        /\ left' = [left EXCEPT ![h] = IF @ = 0 THEN Tries ELSE @]
        /\ timer' = [timer EXCEPT ![h] = 0]
        /\ sends' = [sends EXCEPT ![h] = IF @ <= Tries THEN @ + 1 ELSE @]
        /\ air' = Append(air, [type |-> "data", slot |-> slot, packet |-> h])
        /\ acks' = Cleared /\ buffer' = buffer
    BY <1>8, <2>1 DEF SendData, SendsData, Restarted
  <2>3. queue \in QueueOf(Elements) /\ SoundQueue(queue) /\ Distinct(queue)
    BY DEF Types, SenderState, Fate
  <2>4. Head(queue.data) \in Elements
    BY <2>2, <2>3, GetDataSound
  <2>5. h \in Packets
    BY <2>1, <2>4 DEF Elements
  <2>6. Has(queue, h) /\ \A p : Has(queue', p) <=> Has(queue, p) /\ p # h
    BY <2>1, <2>2, <2>3, GetDataMembers
  <2>7. air'[3] = [type |-> "data", slot |-> slot, packet |-> h]
    BY <1>1, <2>2, TxShape
  <2>8. ASSUME NEW p \in Packets, p # h PROVE OnTime(p)'
    <3>1. OnTime(p) /\ left'[p] = left[p] /\ timer'[p] = timer[p] /\ sends'[p] = sends[p]
      BY <2>2, <2>8 DEF Calm, Types, SenderState
    <3>2. Kept(p) => Kept(p)'
      BY <1>1, <1>4, <2>2 DEF Kept
    <3>3. OnTheWay(p) => OnTheWay(p)'
      BY <1>1, <1>7, <3>1, <3>2 DEF OnTheWay
    <3> QED
      BY <1>1, <2>6, <3>1, <3>3 DEF OnTime
  <2>9. OnTime(h)'
    <3>1. OnTime(h) /\ Traced(h) /\ h \in Nat /\ next \in Nat /\ Tries \in Nat
      BY <2>5, PacketTypes DEF Calm, Fate
    <3>2. sends[h] = 0 /\ h < next
      BY <2>6, <3>1 DEF OnTime, Traced
    <3>3. sends'[h] = 1 /\ timer'[h] = 0
      BY <2>2, <2>5, <3>1, <3>2 DEF Types, SenderState
    <3>4. Carried(h, 3)'
      BY <1>2, <2>7, <3>3 DEF Carried
    <3>5. OnTheWay(h)'
      BY <1>6, <3>4 DEF OnTheWay
    <3> QED
      BY <1>1, <2>6, <3>1, <3>2, <3>3, <3>5 DEF OnTime
  <2> QED
    BY <1>1, <1>3, <2>8, <2>9 DEF Calm
<1>9. CASE SendAck \/ SendLastAck \/ SendNothing
  <2>1. UNCHANGED <<queue, left, timer, sends>>
    BY <1>9, SendAckTypes
  <2>2. ASSUME NEW p \in Packets, Names(f.packets, p), f.type = "ack", timer[p] <= ms - 1
        PROVE  OnTheWay(p)'
    <3>1. timer[p] <= SlotLen - 2 + Lead + 1 - 3
      BY <1>2, <2>2, PacketTypes, ConstantTypes
    <3>2. Carried(p, 3)'
      BY <1>6, <2>1, <2>2, <3>1 DEF Carried
    <3> QED
      BY <1>6, <3>2 DEF OnTheWay
  <2>3. ASSUME NEW p \in Packets, Kept(p), timer[p] <= ms - 1 PROVE OnTheWay(p)'
    <3>1. CASE SendAck
      <4>1. /\ acks[slot].data # <<>> /\ buffer' = buffer
            /\ acks' = [Cleared EXCEPT ![slot] = [data |-> Tail(@.data), sent |-> @.sent + 1]]
            /\ air' = Append(air, [type |-> "ack", slot |-> slot, packets |-> Head(acks[slot].data)])
        BY <3>1 DEF SendAck, SendsAck
      <4>2. acks'[slot].data = Tail(acks[slot].data)
        BY <1>2, <1>4, <4>1
      <4>3. Names(Head(acks[slot].data), p) \/ Holds(buffer, Tail(acks[slot].data), p)
        BY <1>2, <2>3, <4>1, HoldsLess DEF Kept
      <4>4. f = [type |-> "ack", slot |-> slot, packets |-> Head(acks[slot].data)]
        BY <1>1, <1>6, <4>1, TxShape
      <4>5. Names(f.packets, p) \/ Kept(p)'
        BY <1>1, <4>1, <4>2, <4>3, <4>4 DEF Kept
      <4> QED
        BY <1>1, <2>1, <2>2, <2>3, <4>4, <4>5 DEF OnTheWay
    <3>2. CASE SendLastAck
      <4>1. /\ acks[slot].data = <<>>
            /\ air' = Append(air, [type |-> "ack", slot |-> slot, packets |-> buffer])
        BY <3>2 DEF SendLastAck, SendsLast
      <4>2. f = [type |-> "ack", slot |-> slot, packets |-> buffer]
        BY <1>1, <1>6, <4>1, TxShape
      <4>3. Names(buffer, p)
        BY <2>3, <4>1 DEF Kept, Holds
      <4> QED
        BY <2>2, <2>3, <4>2, <4>3
    <3>3. CASE SendNothing
      <4>1. acks' = Cleared /\ buffer' = buffer
        BY <3>3 DEF SendNothing
      <4>2. Kept(p)'
        BY <1>1, <1>4, <2>3, <4>1 DEF Kept
      <4> QED
        BY <1>1, <2>1, <2>3, <4>2 DEF OnTheWay
    <3> QED
      BY <1>9, <3>1, <3>2, <3>3
  <2>4. ASSUME NEW p \in Packets PROVE OnTime(p)'
    <3>1. OnTime(p)
      BY DEF Calm
    <3>2. OnTheWay(p) => OnTheWay(p)'
      BY <1>7, <2>1, <2>3 DEF OnTheWay
    <3> QED
      BY <1>1, <2>1, <3>1, <3>2 DEF OnTime
  <2> QED
    BY <1>1, <1>3, <2>4 DEF Calm
<1> QED
  BY <1>8, <1>9 DEF TxMac

(* What is heard is kept, with what was. *)
LEMMA HeededKept ==
  ASSUME Types, NEW q \in Packets, NEW p, Heeded(buffer, buffer', q), slot' = slot,
         Kept(p) \/ p = q
  PROVE  Kept(p)'
<1>1. /\ slot \in Slots /\ buffer \in Seq(Packets) /\ acks[slot].data \in Seq(Seq(Packets))
      /\ acks \in [Slots -> [data : Seq(Seq(Packets)), sent : Nat]]
  BY TimelyTypes DEF Numbers
<1>2. /\ Holds(Append(buffer, q), acks[slot].data, p)
      /\ Holds(<<>>, Append(acks[slot].data, Append(buffer, q)), p)
  BY <1>1, HoldsMore DEF Kept
<1>3. CASE buffer' = Append(buffer, q) /\ acks' = acks
  BY <1>2, <1>3 DEF Kept
<1>4. CASE /\ buffer' = <<>>
           /\ acks' = [acks EXCEPT ![slot].data = Append(@, Append(buffer, q))]
  <2>1. acks'[slot].data = Append(acks[slot].data, Append(buffer, q))
    BY <1>1, <1>4
  <2> QED
    BY <1>2, <1>4, <2>1 DEF Kept
<1> QED
  BY <1>3, <1>4 DEF Heeded

(* An entry that an acknowledgement names is removed. *)
LEMMA NamedGone ==
  ASSUME Types, NEW f \in Frames, f.type = "ack", HearAck(f.packets),
         NEW p \in Packets, Names(f.packets, p)
  PROVE  left'[p] = 0
<1>1. f.packets \in Seq(Packets)
  BY DEF Frames, Silence
<1>2. PICK s : s = f.packets
  OBVIOUS
<1>3. s \in Seq(Packets) /\ DOMAIN s = 1 .. Len(s)
  BY <1>1, <1>2
<1>4. p \in {s[i] : i \in DOMAIN s}
  BY <1>2, <1>3 DEF Names
<1>5. left' = [q \in Packets |-> IF q \in {s[i] : i \in DOMAIN s} THEN 0 ELSE left[q]]
  BY <1>2 DEF HearAck
<1> QED
  BY <1>4, <1>5

(* The channel: nothing that S or R sent is missed. *)
Heeds(f) ==
  \/ f.type = "silence" /\ UNCHANGED <<buffer, acks, left>>
  \/ /\ f.type = "data" /\ f.packet \in Packets /\ slot \in sendSlots
     /\ ms - Lead \in 1 .. DataMs /\ Heeded(buffer, buffer', f.packet) /\ left' = left
  \/ f.type = "ack" /\ HearAck(f.packets) /\ UNCHANGED <<buffer, acks>>

LEMMA CalmArrival ==
  ASSUME AcksFit, Types, Timely, Shared, Receive, faults' = faults
  PROVE  /\ Heeds(air[1]) /\ Len(air) = 3 /\ Len(air') = 2
         /\ \A i \in 1 .. 2 : air'[i] = air[i + 1]
<1>1. /\ phase = "rx" /\ Arrive(Head(air)) /\ air' = Tail(air)
  BY DEF Receive
<1>2. air \in Seq(Frames) /\ Len(air) = 3 /\ Head(air) = air[1] /\ air[1] \in Frames
  BY <1>1, ConstantTypes DEF Types, Channel
<1>3. Len(air') = 2 /\ \A i \in 1 .. 2 : air'[i] = air[i + 1]
  BY <1>1, <1>2, HeardShape
<1>4. ~Lost
  BY DEF Lost, Types, Environment
<1>5. PICK f : f = air[1]
  OBVIOUS
<1>6. f \in Frames /\ Arrive(f) /\ (f.type # "silence" => f.slot \in sendSlots)
  BY <1>1, <1>2, <1>5 DEF Shared
<1>7. CASE f.type = "silence"
  BY <1>6, <1>7, <1>5, <1>3, <1>2 DEF Arrive, NotHeard, Heeds, receiver
<1>8. CASE f.type = "ack"
  <2>1. HearAck(f.packets)
    BY <1>4, <1>6, <1>8 DEF Arrive
  <2> QED
    BY <1>2, <1>3, <1>5, <1>8, <2>1 DEF Heeds, HearAck, receiver
<1>9. CASE f.type = "data"
  <2>1. f.slot \in recvSlots
    BY <1>6, <1>9 DEF Shared
  <2>2. HearData(f.packet)
    BY <1>4, <1>6, <1>9, <2>1 DEF Arrive
  <2>3. f.packet \in Packets
    BY <1>6, <1>9 DEF Frames, Silence
  <2>4. f.slot = slot /\ ms - Lead + 1 - 1 \in 1 .. DataMs
    BY <1>2, <1>5, <1>9 DEF Timely, Placed
  <2>5. ms - Lead \in 1 .. DataMs /\ slot \in recvSlots
    BY <2>1, <2>4, TimelyTypes, ConstantTypes DEF Numbers
  <2>6. Heeded(buffer, buffer', f.packet)
    <3>1. CASE Len(buffer) + 1 >= BufferSize
      <4>1. buffer' = <<>> /\ AddAck(Append(buffer, f.packet))
        BY <2>2, <3>1 DEF HearData
      <4>2. acks' = [acks EXCEPT ![slot].data = Append(@, Append(buffer, f.packet))]
        BY <1>1, <2>5, <4>1, HeardRoom, AddAckHere
      <4> QED
        BY <3>1, <4>1, <4>2 DEF Heeded
    <3>2. CASE ~(Len(buffer) + 1 >= BufferSize)
      <4>1. buffer' = Append(buffer, f.packet) /\ acks' = acks
        BY <2>2, <3>2 DEF HearData
      <4>2. Len(buffer) + 1 < BufferSize
        BY <3>2, TimelyTypes, ConstantTypes DEF Numbers
      <4> QED
        BY <4>1, <4>2 DEF Heeded
    <3> QED
      BY <3>1, <3>2
  <2>7. left' = left
    BY <2>2 DEF HearData
  <2> QED
    BY <1>2, <1>3, <1>5, <1>6, <1>9, <2>3, <2>4, <2>5, <2>6, <2>7 DEF Heeds
<1> QED
  BY <1>6, <1>7, <1>8, <1>9 DEF Arrive

LEMMA ReceiveShared ==
  ASSUME AcksFit, Types, Types', Timely, Shared, Receive, faults' = faults
  PROVE  Shared'
<1>1. /\ phase = "rx" /\ phase' = "other" /\ UNCHANGED <<sendSlots, recvSlots>>
      /\ ms \in 0 .. SlotLen - 1 /\ (Waiting = 0 <=> acks[slot].data = <<>>)
  BY ClockStep, TimelyTypes DEF Numbers
<1>2. /\ Heeds(air[1]) /\ Len(air') = 2 /\ \A i \in 1 .. 2 : air'[i] = air[i + 1]
      /\ Len(air) = 3
  BY CalmArrival
<1>3. \A i \in 1 .. 2 : air'[i].type # "silence" => air'[i].slot \in sendSlots
  <2>1. \A i \in 1 .. 2 : i + 1 \in 1 .. 3
    OBVIOUS
  <2> QED
    BY <1>2, <2>1 DEF Shared
<1>4. buffer' # <<>> \/ Waiting' > 0 => slot' \in sendSlots
  <2>1. CASE ms = SlotLen - 1
    <3>1. buffer = <<>> /\ UNCHANGED <<buffer, acks>> /\ Timely'
      BY <1>1, <2>1, ReceiveAcross DEF Shared
    <3>2. ms' = 0
      BY <2>1, ClockStep
    <3>3. SlotBegins'
      BY <1>1, <3>2 DEF SlotBegins
    <3>4. Waiting' = 0
      BY <3>1, <3>3 DEF Timely, Begins
    <3> QED
      BY <3>1, <3>4
  <2>2. CASE ms < SlotLen - 1
    <3>1. slot' = slot
      BY <2>2, ClockStep
    <3>2. CASE UNCHANGED <<buffer, acks>>
      BY <3>1, <3>2 DEF Shared, Waiting
    <3> QED
      BY <1>2, <3>1, <3>2 DEF Heeds
  <2> QED
    BY <1>1, <2>1, <2>2, ConstantTypes
<1> QED
  BY <1>1, <1>2, <1>3, <1>4 DEF Shared

LEMMA ReceiveCalm ==
  ASSUME AcksFit, Patient, Types, Types', Timely, Fate, Calm, Receive, faults' = faults
  PROVE  Calm'
<1>1. /\ phase = "rx" /\ UNCHANGED <<failed, sends, next>> /\ AgeTimers /\ AgeQueue
  BY DEF Receive
<1>2. /\ Heeds(air[1]) /\ Len(air') = 2 /\ \A i \in 1 .. 2 : air'[i] = air[i + 1]
      /\ Len(air) = 3
  BY CalmArrival DEF Calm
<1>3. Shared'
  BY ReceiveShared DEF Calm
<1>4. \A p : Has(queue', p) <=> Has(queue, p)
  BY <1>1, AgedMembers DEF AgeQueue, Types, SenderState, Fate
<1>5. \A p \in Packets : left'[p] = left[p] \/ left'[p] = 0
  <2>1. left \in [Packets -> 0 .. Tries]
    BY DEF Types, SenderState
  <2>2. CASE left' = left
    BY <2>2
  <2>3. CASE HearAck(air[1].packets)
    BY <2>3 DEF HearAck
  <2> QED
    BY <1>2, <2>2, <2>3 DEF Heeds
<1>6. /\ ms \in 0 .. SlotLen - 1 /\ SlotLen \in Nat /\ Lead = 2 /\ slot \in Slots
      /\ buffer \in Seq(Packets) /\ acks[slot].data \in Seq(Seq(Packets))
      /\ acks \in [Slots -> [data : Seq(Seq(Packets)), sent : Nat]]
      /\ (Waiting = 0 <=> acks[slot].data = <<>>)
  BY TimelyTypes, ConstantTypes DEF Numbers
<1>7. ASSUME NEW p \in Packets, left[p] > 0, left'[p] = left[p] PROVE OnTheWay(p)'
  <2>1. OnTheWay(p)
    BY <1>7 DEF Calm, OnTime
  <2>2. timer[p] \in Nat /\ timer[p] <= Timeout
    BY <2>1, OnTheWayTimer
  <2>3. timer'[p] = timer[p] + 1
    BY <1>1, <2>2, ConstantTypes DEF AgeTimers, Older
  <2>4. ASSUME NEW i \in 2 .. 3, Carried(p, i) PROVE OnTheWay(p)'
    <3>1. i - 1 \in 1 .. 2 /\ (i - 1) + 1 = i
      OBVIOUS
    <3>2. air'[i - 1] = air[i]
      BY <1>2, <3>1
    <3>3. /\ timer[p] = Lead + 1 - i => timer'[p] = Lead + 1 - (i - 1)
          /\ timer[p] <= SlotLen - 2 + Lead + 1 - i
               => timer'[p] <= SlotLen - 2 + Lead + 1 - (i - 1)
      BY <1>6, <2>2, <2>3
    <3>4. Carried(p, i - 1)'
      BY <2>4, <3>2, <3>3 DEF Carried
    <3> QED
      BY <1>2, <3>1, <3>4 DEF OnTheWay
  <2>5. ASSUME Kept(p), timer[p] <= ms - 1 PROVE OnTheWay(p)'
    <3>1. ms < SlotLen - 1
      <4> SUFFICES ASSUME ms = SlotLen - 1 PROVE FALSE
        BY <1>6
      <4>1. buffer = <<>> /\ acks[slot].data = <<>>
        BY <1>1, <1>6 DEF Calm, Shared
      <4> QED
        BY <2>5, <4>1 DEF Kept, Holds, Names
    <3>2. ms' = ms + 1 /\ slot' = slot
      BY <3>1, ClockStep
    <3>3. Kept(p)'
      <4>1. CASE UNCHANGED <<buffer, acks>>
        BY <2>5, <3>2, <4>1 DEF Kept
      <4>2. ASSUME air[1].packet \in Packets, Heeded(buffer, buffer', air[1].packet)
            PROVE  Kept(p)'
        BY <1>6, <2>5, <3>2, <4>2, HeededKept
      <4> QED
        BY <1>2, <4>1, <4>2 DEF Heeds
    <3>4. timer'[p] <= ms' - 1
      BY <1>6, <2>2, <2>3, <2>5, <3>2
    <3> QED
      BY <3>3, <3>4 DEF OnTheWay
  <2>6. ASSUME Carried(p, 1) PROVE OnTheWay(p)'
    <3>1. CASE air[1].type = "data"
      <4>1. air[1].packet = p /\ timer[p] = 2
        BY <1>6, <2>6, <3>1 DEF Carried
      <4>2. ms - Lead \in 1 .. DataMs /\ Heeded(buffer, buffer', p)
        BY <1>2, <3>1, <4>1 DEF Heeds
      <4>3. ms < SlotLen - 1
        BY <1>6, <4>2, ConstantTypes DEF SlotLen, AcksFit
      <4>4. ms' = ms + 1 /\ slot' = slot
        BY <4>3, ClockStep
      <4>5. Kept(p)'
        BY <1>6, <4>2, <4>4, HeededKept
      <4>6. timer'[p] <= ms' - 1
        BY <1>6, <2>3, <4>1, <4>2, <4>4
      <4> QED
        BY <4>5, <4>6 DEF OnTheWay
    <3>2. CASE air[1].type = "ack"
      <4>1. Names(air[1].packets, p) /\ HearAck(air[1].packets)
        BY <1>2, <2>6, <3>2 DEF Carried, Heeds
      <4>2. FALSE
        <5>1. air[1] \in Frames
          BY <1>2 DEF Types, Channel
        <5>2. left'[p] = 0
          BY <3>2, <4>1, <5>1, NamedGone
        <5> QED
          BY <1>7, <5>2
      <4> QED
        BY <4>2
    <3> QED
      BY <2>6, <3>1, <3>2 DEF Carried
  <2>7. \A i \in 1 .. 3 : i = 1 \/ i \in 2 .. 3
    OBVIOUS
  <2> QED
    BY <1>2, <2>1, <2>4, <2>5, <2>6, <2>7 DEF OnTheWay
<1>8. ASSUME NEW p \in Packets PROVE OnTime(p)'
  <2>1. OnTime(p)
    BY DEF Calm
  <2>2. left'[p] > 0 => left[p] > 0 /\ left'[p] = left[p]
    BY <1>5
  <2>3. left[p] = 0 => left'[p] = 0
    BY <1>5
  <2> QED
    BY <1>1, <1>4, <1>7, <2>1, <2>2, <2>3 DEF OnTime
<1> QED
  BY <1>1, <1>3, <1>8 DEF Calm

(* The tables: a timeslot that is removed counts as a fault. *)
LEMMA UnchangedCalm ==
  ASSUME Calm, UNCHANGED <<slot, ms, phase, queue, left, timer, sends, next, failed, buffer, acks, air>>,
         sendSlots \subseteq sendSlots', sendSlots' \subseteq recvSlots'
  PROVE  Calm'
<1>1. Waiting' = Waiting
  BY DEF Waiting
<1>2. Shared'
  BY <1>1 DEF Calm, Shared
<1>3. \A p : (OnTheWay(p)' <=> OnTheWay(p)) /\ (Has(queue', p) <=> Has(queue, p))
  BY DEF OnTheWay, Kept, Carried
<1> QED
  BY <1>2, <1>3 DEF Calm, OnTime

LEMMA CellsCalm ==
  ASSUME Types, Calm, NEW s \in Slots, faults' = faults,
         ReceiverAdds(s) \/ SenderAdds(s) \/ ReceiverRemoves(s) \/ SenderRemoves(s)
  PROVE  Calm'
<1>1. faults \in Nat
  BY ConstantTypes DEF Types, Environment
<1>2. ReceiverAdds(s) \/ SenderAdds(s)
  BY <1>1 DEF ReceiverRemoves, SenderRemoves
<1>3. /\ UNCHANGED <<slot, ms, phase, queue, left, timer, sends, next, failed, buffer, acks, air>>
      /\ sendSlots \subseteq sendSlots'
  BY <1>2 DEF ReceiverAdds, SenderAdds, sender, receiver, history
<1>4. sendSlots' \subseteq recvSlots'
  BY <1>2 DEF ReceiverAdds, SenderAdds, Calm, Shared
<1> QED
  BY <1>3, <1>4, UnchangedCalm

(* Without faults so far there were none before. *)
LEMMA FaultsStay ==
  ASSUME Types, [Next]_vars, faults' = 0
  PROVE  faults = 0 /\ faults' = faults
<1>1. faults \in Nat
  BY ConstantTypes DEF Types, Environment
<1>2. faults' = faults \/ faults' = faults + 1
  <2>1. CASE Accept \/ ProcessOther \/ TxMac \/ UNCHANGED vars
    BY <2>1 DEF Accept, ProcessOther, TxMac, vars
  <2>2. CASE Receive
    BY <2>2 DEF Receive, Arrive, NotHeard, Lost, HearData, HearAck
  <2>3. ASSUME NEW s \in Slots,
               ReceiverAdds(s) \/ SenderAdds(s) \/ ReceiverRemoves(s) \/ SenderRemoves(s)
        PROVE  faults' = faults \/ faults' = faults + 1
    BY <2>3 DEF ReceiverAdds, SenderAdds, ReceiverRemoves, SenderRemoves
  <2> QED
    BY <2>1, <2>2, <2>3, Zenon DEF Next, Milliseconds
<1> QED
  BY <1>1, <1>2

CalmSoFar == faults = 0 => Calm

LEMMA NextCalm ==
  AcksFit /\ Patient /\ Types /\ Types' /\ AckSlotBounded /\ Timely /\ Fate /\ CalmSoFar /\ [Next]_vars
    => CalmSoFar'
<1> SUFFICES ASSUME AcksFit, Patient, Types, Types', AckSlotBounded, Timely, Fate, CalmSoFar,
                    [Next]_vars, faults' = 0
             PROVE  Calm'
  BY DEF CalmSoFar
<1>1. Calm /\ faults' = faults
  BY FaultsStay DEF CalmSoFar
<1>2. CASE UNCHANGED vars
  <2>1. UNCHANGED <<slot, ms, phase, queue, left, timer, sends, next, failed, buffer, acks, air,
                    sendSlots, recvSlots>>
    BY <1>2 DEF vars, sender, receiver, history, cells
  <2> QED
    BY <1>1, <2>1, UnchangedCalm DEF Calm, Shared
<1>3. ASSUME NEW s \in Slots,
             ReceiverAdds(s) \/ SenderAdds(s) \/ ReceiverRemoves(s) \/ SenderRemoves(s)
      PROVE  Calm'
  BY <1>1, <1>3, CellsCalm
<1>4. CASE Accept
  BY <1>1, <1>4, AcceptCalm
<1>5. CASE ProcessOther
  BY <1>1, <1>5, ProcessOtherCalm
<1>6. CASE TxMac
  BY <1>1, <1>6, TxMacCalm
<1>7. CASE Receive
  BY <1>1, <1>7, ReceiveCalm
<1> QED
  BY <1>2, <1>3, <1>4, <1>5, <1>6, <1>7, Zenon DEF Next, Milliseconds

(* While no frame is lost and no timeslot removed, every entry of S is for  *)
(* a packet, or an acknowledgement, that is on its way.                     *)
THEOREM CalmHolds == AcksFit /\ Patient => (Spec => []CalmSoFar)
<1> SUFFICES ASSUME AcksFit, Patient PROVE Spec => []CalmSoFar
  OBVIOUS
<1>1. Init => CalmSoFar
  BY InitCalm DEF CalmSoFar
<1>2. Types /\ Types' /\ AckSlotBounded /\ Timely /\ Fate /\ CalmSoFar /\ [Next]_vars => CalmSoFar'
  BY NextCalm
<1> QED
  BY <1>1, <1>2, TransferTypes, AckSlotBoundedHolds, TimelyHolds, FateHolds, PTL DEF Spec

(* While no frame is lost and no timeslot removed, no packet is sent twice *)
(* and none is given up: the timeout is longer than the wait for the       *)
(* acknowledgement, whatever the application sends and whichever timeslots *)
(* are added.                                                              *)
THEOREM NoFalseAlarmHolds == AcksFit /\ Patient => (Spec => []NoFalseAlarm)
<1> SUFFICES ASSUME AcksFit, Patient PROVE Spec => []NoFalseAlarm
  OBVIOUS
<1>1. CalmSoFar => NoFalseAlarm
  BY DEF CalmSoFar, Calm, OnTime, NoFalseAlarm
<1>2. Spec => []CalmSoFar
  BY CalmHolds
<1> QED
  BY <1>1, <1>2, PTL

=============================================================================
