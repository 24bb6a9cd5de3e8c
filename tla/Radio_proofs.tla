---------------------------- MODULE Radio_proofs ----------------------------
(***************************************************************************)
(* Proofs about the queue of the wireless channel, and about what a        *)
(* station hears of it: that it hears only frames that are alone on their  *)
(* channel, that its pending event is always in time, and that its radio   *)
(* is on the right channel for every cell it knew when it last looked at   *)
(* its table.  For every number of channels and timeslots, every placing   *)
(* of the broadcasts and every length of the timeslot.                     *)
(***************************************************************************)
EXTENDS Radio, FunctionTheorems, FiniteSetTheorems, TLAPS

-----------------------------------------------------------------------------
(* One queue *)

Frame == [wait : 0 .. Lead, channel : Channels, mine : BOOLEAN]

LEMMA FrameFields ==
  ASSUME NEW f \in Frame
  PROVE  f.wait \in 0 .. Lead /\ f.channel \in Channels /\ f.mine \in BOOLEAN
BY DEF Frame

LEMMA Waiting ==
  ASSUME NEW f \in Frame, NEW w \in 0 .. Lead
  PROVE  /\ [f EXCEPT !.wait = w] \in Frame
         /\ [f EXCEPT !.wait = w].wait = w
         /\ [f EXCEPT !.wait = w].channel = f.channel
         /\ [f EXCEPT !.wait = w].mine = f.mine
BY DEF Frame

(* A way to list a finite set in order lists all of it. *)
LEMMA InOrderOnto ==
  ASSUME NEW S \in SUBSET Nat, IsFiniteSet(S), NEW m \in InOrder(S)
  PROVE  \A x \in S : \E i \in DOMAIN m : m[i] = x
<1>1. /\ Cardinality(S) \in Nat
      /\ IsFiniteSet(1 .. Cardinality(S))
      /\ Cardinality(1 .. Cardinality(S)) = Cardinality(S)
  BY FS_CardinalityType, FS_Interval
<1>2. m \in [1 .. Cardinality(S) -> S] /\ \A i, j \in DOMAIN m : i < j => m[i] < m[j]
  BY DEF InOrder
<1>3. ASSUME NEW i \in 1 .. Cardinality(S), NEW j \in 1 .. Cardinality(S), m[i] = m[j]
      PROVE  i = j
  <2>1. m[i] \in S /\ m[j] \in S
    BY <1>2
  <2>2. m[i] \in Nat /\ m[j] \in Nat
    BY <2>1, Zenon
  <2>3. i \in Nat /\ j \in Nat
    BY <1>1
  <2>4. ~(i < j) /\ ~(j < i)
    BY <1>2, <1>3, <2>2
  <2> QED
    BY <2>3, <2>4
<1>4. m \in Injection(1 .. Cardinality(S), S)
  BY <1>2, <1>3 DEF Injection, IsInjective
<1>5. m \in Surjection(1 .. Cardinality(S), S)
  BY <1>1, <1>4, FS_Injection
<1> QED
  BY <1>5 DEF Surjection

LEMMA KeptFinite ==
  ASSUME NEW q \in Seq(Frame)
  PROVE  Kept(q) \in SUBSET Nat /\ IsFiniteSet(Kept(q)) /\ Kept(q) \subseteq DOMAIN q \ {1}
<1>1. IsFiniteSet(2 .. Len(q))
  BY FS_Interval
<1>2. Kept(q) \subseteq 2 .. Len(q)
  BY DEF Kept
<1> QED
  BY <1>1, <1>2, FS_Subset

(* What Send leaves is a queue of the channel again, in order. *)
LEMMA PickedOrdered ==
  ASSUME NEW q \in Seq(Frame), Ordered(q), NEW m \in InOrder(Kept(q))
  PROVE  Picked(q, m) \in Seq(Frame) /\ Ordered(Picked(q, m))
<1>1. /\ m \in [1 .. Cardinality(Kept(q)) -> Kept(q)]
      /\ \A i, j \in DOMAIN m : i < j => m[i] < m[j]
  BY DEF InOrder
<1>2. Cardinality(Kept(q)) \in Nat
  BY KeptFinite, FS_CardinalityType
<1>3. \A i \in DOMAIN m : m[i] \in DOMAIN q
  BY <1>1, KeptFinite
<1>4. Picked(q, m) \in [1 .. Cardinality(Kept(q)) -> Frame]
  BY <1>1, <1>3 DEF Picked
<1>5. Ordered(Picked(q, m))
  BY <1>1, <1>3 DEF Ordered, Picked
<1> QED
  BY <1>2, <1>4, <1>5

(* Handing a frame over keeps the order: no frame waits longer than Lead. *)
LEMMA AddPacketOrdered ==
  ASSUME NEW q \in Seq(Frame), Ordered(q), NEW f \in Frame, f.wait = Lead
  PROVE  AddPacket(q, f) \in Seq(Frame) /\ Ordered(AddPacket(q, f))
<1>1. AddPacket(q, f) \in Seq(Frame)
  BY DEF AddPacket
<1>2. /\ DOMAIN AddPacket(q, f) = 1 .. Len(q) + 1
      /\ \A i \in 1 .. Len(q) : AddPacket(q, f)[i] = q[i]
      /\ AddPacket(q, f)[Len(q) + 1] = f
  BY DEF AddPacket
<1>3. \A i \in 1 .. Len(q) : q[i] \in Frame /\ q[i].wait \in 0 .. Lead
  BY FrameFields
<1>4. ASSUME NEW i \in 1 .. Len(q) + 1, NEW j \in 1 .. Len(q) + 1, i < j
      PROVE  AddPacket(q, f)[i].wait <= AddPacket(q, f)[j].wait
  BY <1>2, <1>3, <1>4 DEF Ordered, Lead
<1> QED
  BY <1>1, <1>2, <1>4 DEF Ordered

(* A millisecond brings every frame closer, unless one is due. *)
LEMMA CloserOrdered ==
  ASSUME NEW q \in Seq(Frame), Ordered(q), ~SendDue(q)
  PROVE  /\ Closer(q) \in Seq(Frame) /\ Ordered(Closer(q))
         /\ DOMAIN Closer(q) = DOMAIN q
         /\ \A i \in DOMAIN q : /\ Closer(q)[i].wait = q[i].wait - 1
                               /\ Closer(q)[i].channel = q[i].channel
                               /\ Closer(q)[i].mine = q[i].mine
<1>1. ASSUME NEW i \in DOMAIN q PROVE q[i].wait \in 1 .. Lead
  <2>1. q[1].wait # 0 /\ q[1] \in Frame /\ q[i] \in Frame /\ 1 \in DOMAIN q /\ 1 <= i
    BY <1>1 DEF SendDue
  <2>2. q[1].wait <= q[i].wait
    BY <2>1 DEF Ordered, Frame
  <2> QED
    BY <2>1, <2>2 DEF Frame, Lead
<1>2. ASSUME NEW i \in DOMAIN q
      PROVE  /\ Closer(q)[i] \in Frame
             /\ Closer(q)[i].wait = q[i].wait - 1
             /\ Closer(q)[i].channel = q[i].channel
             /\ Closer(q)[i].mine = q[i].mine
  <2>1. q[i].wait - 1 \in 0 .. Lead
    BY <1>1 DEF Lead
  <2>2. q[i] \in Frame /\ Closer(q)[i] = [q[i] EXCEPT !.wait = q[i].wait - 1]
    BY DEF Closer
  <2> QED
    BY <2>1, <2>2, Waiting
<1>3. DOMAIN Closer(q) = DOMAIN q /\ DOMAIN q = 1 .. Len(q)
  BY DEF Closer
<1>4. Ordered(Closer(q))
  BY <1>1, <1>2, <1>3 DEF Ordered, Lead
<1>5. Closer(q) \in [1 .. Len(q) -> Frame]
  BY <1>2, <1>3 DEF Closer
<1> QED
  BY <1>2, <1>3, <1>4, <1>5

-----------------------------------------------------------------------------
(* What is heard *)

(* A due frame for the station on a channel that is not lone is not alone. *)
Accounted(q, S) ==
  \A i \in DOMAIN q :
    q[i].wait = 0 /\ q[i].mine /\ q[i].channel \notin S =>
      \E j \in DOMAIN q : j # i /\ q[j].wait = 0 /\ q[j].channel = q[i].channel

(* The first frame of a due queue was dropped, or heard, with all others of *)
(* its channel: those are looked at before the loop breaks off.             *)
LEMMA CollisionComplete ==
  ASSUME NEW q \in Seq(Frame), Ordered(q), SendDue(q), NEW j \in DOMAIN q,
         j # 1, q[j].wait = 0, q[j].channel = q[1].channel
  PROVE  j \in Dropped(q)
<1>1. \A i \in DOMAIN q : q[i] \in Frame /\ q[i].wait \in 0 .. Lead
  BY FrameFields
<1>2. j \in 2 .. Len(q) /\ q[1].wait = 0
  BY DEF SendDue
<1>3. ASSUME NEW i \in 2 .. j PROVE q[i].wait = q[1].wait
  <2>1. i \in DOMAIN q /\ (i = j \/ i < j)
    BY <1>2, <1>3
  <2>2. q[i].wait <= q[j].wait
    BY <1>1, <2>1 DEF Ordered
  <2> QED
    BY <1>1, <1>2, <2>1, <2>2 DEF Lead
<1> QED
  BY <1>2, <1>3 DEF Dropped, Looked

LEMMA SendAccounted ==
  ASSUME NEW q \in Seq(Frame), Ordered(q), SendDue(q), NEW S, Accounted(q, S),
         NEW m \in InOrder(Kept(q))
  PROVE  Accounted(Picked(q, m), S)
<1>1. /\ DOMAIN Picked(q, m) = DOMAIN m
      /\ \A i \in DOMAIN m : Picked(q, m)[i] = q[m[i]]
  BY DEF Picked
<1>2. ASSUME NEW i \in DOMAIN m PROVE m[i] \in Kept(q) /\ m[i] \in DOMAIN q \ {1}
  BY <1>2, KeptFinite DEF InOrder
<1>3. SUFFICES ASSUME NEW i \in DOMAIN m, q[m[i]].wait = 0, q[m[i]].mine,
                      q[m[i]].channel \notin S
               PROVE  \E j \in DOMAIN m : /\ j # i /\ q[m[j]].wait = 0
                                          /\ q[m[j]].channel = q[m[i]].channel
  BY <1>1 DEF Accounted
<1>4. PICK j \in DOMAIN q : /\ j # m[i] /\ q[j].wait = 0
                            /\ q[j].channel = q[m[i]].channel
  BY <1>2, <1>3 DEF Accounted
<1>5. q[m[i]].channel # q[1].channel
  BY <1>2, <1>3, CollisionComplete DEF Kept
<1>6. j \in Kept(q)
  <2>1. j # 1
    BY <1>4, <1>5
  <2>2. j \in 2 .. Len(q)
    BY <2>1
  <2> QED
    BY <1>4, <1>5, <2>2 DEF Kept, Dropped
<1>7. PICK k \in DOMAIN m : m[k] = j
  BY <1>6, KeptFinite, InOrderOnto
<1> QED
  BY <1>4, <1>7

LEMMA AddPacketAccounted ==
  ASSUME NEW q \in Seq(Frame), NEW S, Accounted(q, S), NEW f \in Frame, f.wait = Lead
  PROVE  Accounted(AddPacket(q, f), S)
<1>1. /\ DOMAIN AddPacket(q, f) = 1 .. Len(q) + 1 /\ DOMAIN q = 1 .. Len(q)
      /\ \A i \in 1 .. Len(q) : AddPacket(q, f)[i] = q[i]
      /\ AddPacket(q, f)[Len(q) + 1] = f
  BY DEF AddPacket
<1>2. f.wait # 0
  BY DEF Lead
<1>3. SUFFICES ASSUME NEW i \in DOMAIN q, q[i].wait = 0, q[i].mine, q[i].channel \notin S
               PROVE  \E j \in DOMAIN q : /\ j # i /\ q[j].wait = 0
                                          /\ q[j].channel = q[i].channel
  <2> SUFFICES ASSUME NEW i \in DOMAIN AddPacket(q, f), AddPacket(q, f)[i].wait = 0,
                      AddPacket(q, f)[i].mine, AddPacket(q, f)[i].channel \notin S
               PROVE  \E j \in DOMAIN AddPacket(q, f) :
                         /\ j # i /\ AddPacket(q, f)[j].wait = 0
                         /\ AddPacket(q, f)[j].channel = AddPacket(q, f)[i].channel
    BY DEF Accounted
  <2>1. i \in DOMAIN q /\ AddPacket(q, f)[i] = q[i]
    BY <1>1, <1>2
  <2>2. PICK j \in DOMAIN q : j # i /\ q[j].wait = 0 /\ q[j].channel = q[i].channel
    BY <1>3, <2>1
  <2> QED
    BY <1>1, <2>1, <2>2
<1> QED
  BY <1>3 DEF Accounted

Inv == /\ queue \in Seq(Frame) /\ Ordered(queue)
       /\ Accounted(queue, lone)
       /\ OnlyLoneFramesHeard

LEMMA InitInv == Init => Inv
BY DEF Init, Inv, Ordered, Accounted, OnlyLoneFramesHeard

LEMMA TickInv == Inv /\ Tick => Inv'
<1> SUFFICES ASSUME Inv, Tick PROVE Inv'
  OBVIOUS
<1>1. queue' = Closer(queue) /\ ~SendDue(queue) /\ heard' = {}
  BY DEF Tick
<1>2. /\ queue' \in Seq(Frame) /\ Ordered(queue') /\ DOMAIN queue' = DOMAIN queue
      /\ \A i \in DOMAIN queue : /\ queue'[i].wait = queue[i].wait - 1
                                 /\ queue'[i].channel = queue[i].channel
                                 /\ queue'[i].mine = queue[i].mine
  BY <1>1, CloserOrdered DEF Inv
<1>3. \A i \in DOMAIN queue : queue[i].wait \in 0 .. Lead /\ queue[i].channel \in Channels
  BY FrameFields DEF Inv
<1>4. ASSUME NEW i \in DOMAIN queue, queue'[i].wait = 0, queue'[i].mine,
             queue'[i].channel \notin lone'
      PROVE  \E j \in DOMAIN queue : /\ j # i /\ queue'[j].wait = 0
                                     /\ queue'[j].channel = queue'[i].channel
  <2> DEFINE c == queue[i].channel
  <2>1. queue[i].wait = 1 /\ c \in Channels /\ queue[i].mine
    BY <1>2, <1>3, <1>4 DEF Lead
  <2>2. i \in OnAirNext(c)
    BY <2>1 DEF OnAirNext
  <2>3. ~(OnAirNext(c) = {i} /\ queue[i].mine)
    BY <1>2, <1>4, <2>1, <2>2 DEF Tick
  <2>4. PICK j \in OnAirNext(c) : j # i
    BY <2>1, <2>2, <2>3
  <2>5. j \in DOMAIN queue /\ queue[j].wait = 1 /\ queue[j].channel = c
    BY <2>4 DEF OnAirNext
  <2> QED
    BY <1>2, <2>4, <2>5
<1>5. Accounted(queue', lone')
  BY <1>2, <1>4 DEF Accounted
<1> QED
  BY <1>1, <1>2, <1>5 DEF Inv, OnlyLoneFramesHeard

LEMMA SendInv == Inv /\ Send => Inv'
<1> SUFFICES ASSUME Inv, Send PROVE Inv'
  OBVIOUS
<1>1. SendDue(queue) /\ lone' = lone
  BY DEF Send
<1>2. PICK m \in InOrder(Kept(queue)) : queue' = Picked(queue, m)
  BY DEF Send
<1>3. queue' \in Seq(Frame) /\ Ordered(queue') /\ Accounted(queue', lone)
  BY <1>1, <1>2, PickedOrdered, SendAccounted DEF Inv
<1>4. ASSUME ~Collision(queue), queue[1].mine, queue[1].channel = radio PROVE radio \in lone
  <2>1. SUFFICES ASSUME queue[1].channel \notin lone PROVE FALSE
    BY <1>4
  <2>2. 1 \in DOMAIN queue /\ queue[1].wait = 0
    BY <1>1 DEF SendDue, Inv
  <2>3. PICK j \in DOMAIN queue : /\ j # 1 /\ queue[j].wait = 0
                                  /\ queue[j].channel = queue[1].channel
    BY <1>4, <2>1, <2>2 DEF Inv, Accounted
  <2> QED
    BY <1>1, <1>4, <2>3, CollisionComplete DEF Collision, Inv
<1>5. heard' \subseteq lone'
  BY <1>1, <1>4 DEF Send, Inv, OnlyLoneFramesHeard
<1> QED
  BY <1>1, <1>3, <1>5 DEF Inv, OnlyLoneFramesHeard

LEMMA TransmitInv ==
  ASSUME Inv, NEW c \in Channels, NEW mine \in BOOLEAN, Transmit(c, mine)
  PROVE  Inv'
<1> DEFINE f == [wait |-> Lead, channel |-> c, mine |-> mine]
<1>1. f \in Frame /\ f.wait = Lead
  BY DEF Frame, Lead
<1>2. queue' = AddPacket(queue, f) /\ lone' = lone /\ heard' = heard
  BY DEF Transmit
<1> QED
  BY <1>1, <1>2, AddPacketOrdered, AddPacketAccounted DEF Inv, OnlyLoneFramesHeard

LEMMA NextInv == Inv /\ [Next]_vars => Inv'
<1> SUFFICES ASSUME Inv, [Next]_vars PROVE Inv'
  OBVIOUS
<1>1. ASSUME UNCHANGED <<queue, lone, heard>> PROVE Inv'
  BY <1>1 DEF Inv, OnlyLoneFramesHeard
<1>2. CASE RxStart \/ RxFirst \/ RxSecond \/ UNCHANGED vars
  BY <1>1, <1>2, Zenon DEF RxStart, RxFirst, RxSecond, vars
<1>3. ASSUME NEW c \in Channels, NEW s \in Slots, NEW type, TableAdd(c, s, type) PROVE Inv'
  BY <1>1, <1>3, Zenon DEF TableAdd
<1>4. ASSUME NEW cell \in Cell, TableRemove(cell) PROVE Inv'
  BY <1>1, <1>4, Zenon DEF TableRemove
<1> QED
  BY <1>2, <1>3, <1>4, TickInv, SendInv, TransmitInv, Zenon DEF Next

(* The queue of the channel stays in the order of the timestamps, whatever   *)
(* the stations hand over and whenever: AddPacket appends, and that is right *)
(* because every frame is handed over Lead ms before it is sent.             *)
THEOREM ChannelOrdered == Spec => [](queue \in Seq(Frame) /\ Ordered(queue))
<1>1. Inv => queue \in Seq(Frame) /\ Ordered(queue)
  BY DEF Inv
<1> QED
  BY <1>1, InitInv, NextInv, PTL DEF Spec

(* Only a frame that is alone on its channel in its ms is heard, for every   *)
(* number of channels and frames.                                            *)
THEOREM OnlyLoneFramesHeardHolds == Spec => []OnlyLoneFramesHeard
<1>1. Inv => OnlyLoneFramesHeard
  BY DEF Inv
<1> QED
  BY <1>1, InitInv, NextInv, PTL DEF Spec

-----------------------------------------------------------------------------
(* The clock *)

LEMMA RadioConstants ==
  /\ NumSlots \in Nat \ {0} /\ NumChannels \in Nat \ {0} /\ SlotMs \in Nat /\ SlotMs >= 4
  /\ AckMs \in Nat \ {0} /\ AckMs + 3 <= SlotMs /\ Lead = 2 /\ Guard = 1 /\ RxOffset = 2
  /\ NoChannel \notin Channels /\ FrameMs = NumSlots * SlotMs /\ FrameMs \in Nat \ {0}
  /\ FrameMs >= SlotMs /\ MaxChanges \in Nat
<1>1. /\ NumSlots \in Nat \ {0} /\ SlotMs \in Nat /\ SlotMs >= 4 /\ NumSlots - 1 \in Nat
  BY RadioAssumption DEF RadioAssumption, Lead, Guard
<1>2. NumSlots * SlotMs = (NumSlots - 1) * SlotMs + SlotMs /\ (NumSlots - 1) * SlotMs \in Nat
  BY <1>1
<1>3. FrameMs \in Nat \ {0} /\ FrameMs >= SlotMs
  BY <1>1, <1>2 DEF FrameMs
<1> QED
  BY <1>1, <1>3, RadioAssumption
     DEF RadioAssumption, Lead, Guard, RxOffset, NoChannel, Channels, FrameMs

(* q times b and r is what a divided by b gives. *)
Parts(a, b, q, r) == a \div b = q /\ a % b = r

LEMMA DivMod ==
  ASSUME NEW b \in Nat \ {0}, NEW q \in Nat, NEW r \in 0 .. b - 1, NEW a, a = q * b + r
  PROVE  Parts(a, b, q, r)
<1>1. q * b \in Nat /\ a \in Nat
  OBVIOUS
<1>2. PICK x, y : x = a \div b /\ y = a % b
  OBVIOUS
<1>3. x \in Int /\ y \in 0 .. b - 1 /\ a = b * x + y
  BY <1>1, <1>2
<1>4. x >= 0
  <2> SUFFICES ASSUME x < 0 PROVE FALSE
    BY <1>3
  <2>1. PICK z \in Nat : x = -1 - z
    <3>1. -1 - x \in Nat
      BY <1>3
    <3> QED
      BY <1>3, <3>1
  <2>2. b * x = -b - b * z /\ b * z \in Nat
    BY <2>1
  <2> QED
    BY <1>1, <1>3, <2>2
<1>5. ~(x > q)
  <2> SUFFICES ASSUME x > q PROVE FALSE
    OBVIOUS
  <2>1. PICK z \in Nat : x = q + 1 + z
    <3>1. x - q - 1 \in Nat
      BY <1>3
    <3> QED
      BY <1>3, <3>1
  <2>2. b * x = q * b + b + b * z /\ b * z \in Nat
    BY <2>1
  <2> QED
    BY <1>1, <1>3, <2>2
<1>6. ~(x < q)
  <2> SUFFICES ASSUME x < q PROVE FALSE
    OBVIOUS
  <2>1. PICK z \in Nat : q = x + 1 + z
    <3>1. q - x - 1 \in Nat
      BY <1>3
    <3> QED
      BY <1>3, <3>1
  <2>2. q * b = b * x + b + b * z /\ b * z \in Nat /\ b * x \in Int
    BY <1>3, <2>1
  <2> QED
    BY <1>1, <1>3, <2>2
<1>7. x = q
  BY <1>3, <1>5, <1>6
<1>8. y = r
  <2>1. q * b = b * x
    BY <1>3, <1>7
  <2>2. b * x \in Int
    BY <1>3
  <2> QED
    BY <1>3, <2>1, <2>2
<1> QED
  BY <1>2, <1>7, <1>8 DEF Parts

LEMMA ModSmall ==
  ASSUME NEW b \in Nat \ {0}, NEW t \in 0 .. b - 1
  PROVE  t % b = t
<1>1. t = 0 * b + t /\ 0 \in Nat
  OBVIOUS
<1>2. Parts(t, b, 0, t)
  BY <1>1, DivMod
<1> QED
  BY <1>2 DEF Parts

(* The parts of a moment of the superframe. *)
LEMMA ClockParts ==
  ASSUME NEW s \in Slots, NEW m \in 0 .. SlotMs - 1, NEW t, t = s * SlotMs + m
  PROVE  t \in 0 .. FrameMs - 1 /\ SlotOf(t) = s /\ MsOf(t) = m
<1>1. /\ NumSlots \in Nat \ {0} /\ SlotMs \in Nat \ {0} /\ FrameMs \in Nat \ {0}
      /\ FrameMs = NumSlots * SlotMs /\ s \in 0 .. NumSlots - 1
  BY RadioConstants DEF Slots
<1>2. PICK d \in Nat : NumSlots = s + 1 + d
  <2>1. NumSlots - s - 1 \in Nat
    BY <1>1
  <2> QED
    BY <1>1, <2>1
<1>3. FrameMs = s * SlotMs + SlotMs + d * SlotMs /\ d * SlotMs \in Nat /\ s * SlotMs \in Nat
  BY <1>1, <1>2
<1>4. t \in 0 .. FrameMs - 1
  BY <1>1, <1>3
<1>5. t % FrameMs = t
  BY <1>1, <1>4, ModSmall
<1>6. MsOf(t) = m
  <2>1. Parts(t, SlotMs, s, m)
    BY <1>1, DivMod
  <2>2. t % SlotMs = m
    BY <2>1 DEF Parts
  <2> QED
    BY <1>5, <2>2, Zenon DEF MsOf
<1>7. SlotOf(t) = s
  <2>1. PICK x : x = m * NumSlots
    OBVIOUS
  <2>2. t * NumSlots = s * FrameMs + x
    BY <1>1, <2>1
  <2>3. x \in 0 .. FrameMs - 1
    <3>1. PICK e \in Nat : SlotMs = m + 1 + e
      <4>1. SlotMs - m - 1 \in Nat
        BY <1>1
      <4> QED
        BY <1>1, <4>1
    <3>2. FrameMs = m * NumSlots + NumSlots + e * NumSlots /\ e * NumSlots \in Nat
      BY <1>1, <3>1
    <3> QED
      BY <1>1, <2>1, <3>2
  <2>4. Parts(t * NumSlots, FrameMs, s, x)
    <3>1. PICK y : y = t * NumSlots
      OBVIOUS
    <3>2. y = s * FrameMs + x /\ s \in Nat
      BY <1>1, <2>2, <3>1
    <3>3. Parts(y, FrameMs, s, x)
      BY <1>1, <2>3, <3>2, DivMod
    <3> QED
      BY <3>1, <3>3
  <2>5. (t * NumSlots) \div FrameMs = s
    BY <2>4, Zenon DEF Parts
  <2> QED
    BY <1>5, <2>5, Zenon DEF SlotOf
<1> QED
  BY <1>4, <1>6, <1>7

LEMMA ClockAt ==
  ASSUME NEW t \in 0 .. FrameMs - 1
  PROVE  /\ SlotOf(t) \in Slots /\ MsOf(t) \in 0 .. SlotMs - 1
         /\ t = SlotOf(t) * SlotMs + MsOf(t)
<1>1. /\ NumSlots \in Nat \ {0} /\ SlotMs \in Nat \ {0} /\ FrameMs \in Nat \ {0}
      /\ FrameMs = NumSlots * SlotMs
  BY RadioConstants
<1>2. PICK q, r : q = t \div SlotMs /\ r = t % SlotMs
  OBVIOUS
<1>3. q \in Nat /\ r \in 0 .. SlotMs - 1 /\ t = SlotMs * q + r
  BY <1>1, <1>2
<1>4. q < NumSlots
  <2> SUFFICES ASSUME q >= NumSlots PROVE FALSE
    BY <1>1, <1>3
  <2>1. PICK d \in Nat : q = NumSlots + d
    <3>1. q - NumSlots \in Nat
      BY <1>1, <1>3
    <3> QED
      BY <1>1, <1>3, <3>1
  <2>2. SlotMs * q = FrameMs + SlotMs * d /\ SlotMs * d \in Nat
    BY <1>1, <2>1
  <2> QED
    BY <1>1, <1>3, <2>2
<1>5. q \in Slots /\ t = q * SlotMs + r
  BY <1>1, <1>3, <1>4 DEF Slots
<1> QED
  BY <1>3, <1>5, ClockParts

(* Some milliseconds later, in the a-th timeslot from this one. *)
LEMMA ClockAhead ==
  ASSUME NEW t \in 0 .. FrameMs - 1, NEW k \in Nat, NEW a \in Nat, NEW b \in 0 .. SlotMs - 1,
         MsOf(t) + k = a * SlotMs + b
  PROVE  /\ (SlotOf(t) + a) % NumSlots \in Slots
         /\ SlotOf(t + k) = (SlotOf(t) + a) % NumSlots /\ MsOf(t + k) = b
         /\ (t + k) % FrameMs \in 0 .. FrameMs - 1
         /\ SlotOf((t + k) % FrameMs) = (SlotOf(t) + a) % NumSlots
         /\ MsOf((t + k) % FrameMs) = b
<1>1. /\ NumSlots \in Nat \ {0} /\ SlotMs \in Nat \ {0} /\ FrameMs \in Nat \ {0}
      /\ FrameMs = NumSlots * SlotMs
  BY RadioConstants
<1>2. PICK s, m : s = SlotOf(t) /\ m = MsOf(t)
  OBVIOUS
<1>3. s \in 0 .. NumSlots - 1 /\ m \in 0 .. SlotMs - 1 /\ t = s * SlotMs + m
  BY <1>2, ClockAt DEF Slots
<1>4. PICK q, r : q = (s + a) \div NumSlots /\ r = (s + a) % NumSlots
  OBVIOUS
<1>5. q \in Nat /\ r \in 0 .. NumSlots - 1 /\ s + a = NumSlots * q + r
  BY <1>1, <1>3, <1>4
<1>6. PICK u : u = r * SlotMs + b
  OBVIOUS
<1>7. u \in 0 .. FrameMs - 1 /\ SlotOf(u) = r /\ MsOf(u) = b /\ r \in Slots
  BY <1>5, <1>6, ClockParts DEF Slots
<1>8. t + k = q * FrameMs + u
  <2>1. t + k = s * SlotMs + a * SlotMs + b
    <3>1. m + k = a * SlotMs + b
      BY <1>2
    <3>2. s * SlotMs \in Nat /\ a * SlotMs \in Nat
      BY <1>1, <1>3
    <3> QED
      BY <1>3, <3>1, <3>2
  <2>2. s * SlotMs + a * SlotMs = (s + a) * SlotMs
    BY <1>1, <1>3
  <2>3. (s + a) * SlotMs = (NumSlots * q) * SlotMs + r * SlotMs
    BY <1>1, <1>3, <1>5
  <2>4. (NumSlots * q) * SlotMs = q * FrameMs
    BY <1>1, <1>5
  <2>5. r * SlotMs \in Nat /\ q * FrameMs \in Nat /\ s * SlotMs \in Nat /\ a * SlotMs \in Nat
    BY <1>1, <1>3, <1>5
  <2> QED
    BY <1>6, <2>1, <2>2, <2>3, <2>4, <2>5
<1>9. (t + k) % FrameMs = u
  <2>1. Parts(t + k, FrameMs, q, u)
    BY <1>1, <1>5, <1>7, <1>8, DivMod
  <2> QED
    BY <2>1, Zenon DEF Parts
<1>10. u % FrameMs = u
  BY <1>1, <1>7, ModSmall
<1>11. SlotOf(t + k) = SlotOf(u) /\ MsOf(t + k) = MsOf(u)
  BY <1>9, <1>10, Zenon DEF SlotOf, MsOf
<1> QED
  BY <1>2, <1>4, <1>7, <1>9, <1>11

(* The timeslots come round. *)
LEMMA SlotsRound ==
  ASSUME NEW s \in Slots, NEW e \in Nat
  PROVE  /\ (s + 0) % NumSlots = s
         /\ (((s + 1) % NumSlots) + e) % NumSlots = (s + (e + 1)) % NumSlots
<1>1. NumSlots \in Nat \ {0} /\ s \in 0 .. NumSlots - 1
  BY RadioConstants DEF Slots
<1>2. (s + 0) % NumSlots = s
  <2>1. s + 0 = s /\ s % NumSlots = s
    BY <1>1, ModSmall
  <2> QED
    BY <2>1
<1>3. CASE s + 1 < NumSlots
  <2>1. s + 1 \in 0 .. NumSlots - 1
    BY <1>1, <1>3
  <2>2. (s + 1) % NumSlots = s + 1
    BY <1>1, <2>1, ModSmall
  <2> QED
    BY <1>1, <1>2, <2>2
<1>4. CASE s + 1 = NumSlots
  <2>1. s + 1 = 1 * NumSlots + 0 /\ 0 \in 0 .. NumSlots - 1
    BY <1>1, <1>4
  <2>2. (s + 1) % NumSlots = 0
    <3>1. Parts(s + 1, NumSlots, 1, 0)
      BY <1>1, <2>1, DivMod
    <3> QED
      BY <3>1, Zenon DEF Parts
  <2>3. PICK q, r : q = e \div NumSlots /\ r = e % NumSlots
    OBVIOUS
  <2>4. q \in Nat /\ r \in 0 .. NumSlots - 1 /\ e = NumSlots * q + r
    BY <1>1, <2>3
  <2>5. s + (e + 1) = (q + 1) * NumSlots + r /\ 0 + e = q * NumSlots + r
    BY <1>1, <1>4, <2>4
  <2>6. (s + (e + 1)) % NumSlots = r /\ (0 + e) % NumSlots = r
    <3>1. PICK x, y, z : x = s + (e + 1) /\ y = 0 + e /\ z = q + 1
      OBVIOUS
    <3>2. x = z * NumSlots + r /\ y = q * NumSlots + r /\ z \in Nat
      BY <2>4, <2>5, <3>1
    <3>3. Parts(x, NumSlots, z, r)
      BY <1>1, <2>4, <3>2, DivMod
    <3>4. Parts(y, NumSlots, q, r)
      BY <1>1, <2>4, <3>2, DivMod
    <3> QED
      BY <3>1, <3>3, <3>4, Zenon DEF Parts
  <2> QED
    BY <1>2, <2>2, <2>6
<1> QED
  BY <1>1, <1>3, <1>4
-----------------------------------------------------------------------------
(* The station's table and its timers *)

Mu    == MsOf(now)
Sigma == SlotOf(now)
Gap   == SlotMs - AckMs

Tuned == Channels \cup {NoChannel}
Events ==
  [name : {"start", "first", "second"}, in : 0 .. FrameMs, first : Tuned, second : Tuned,
   change : 0 .. SlotMs, wkup : 0 .. SlotMs]

Types ==
  /\ now \in 0 .. FrameMs - 1
  /\ table \in [Cell -> {"NONE", "BROADCAST", "RECEIVE", "SEND"}]
  /\ radio \in Tuned /\ timer \in Events
  /\ added \subseteq Cell /\ lone \subseteq Channels
  /\ changes \in 0 .. MaxChanges

(* A timeslot has one broadcast cell and no other, or one cell of each kind. *)
Apart(c, d, s) == table[<<c, s>>] # "NONE" => table[<<d, s>>] \notin {table[<<c, s>>], "BROADCAST"}
OneEach ==
  /\ \A s \in Slots, c \in Channels, d \in Channels : c # d => Apart(c, d, s)
  /\ \A cell \in Broadcast : table[cell] = "BROADCAST"

(* The cells of a kind that the station knew when it last looked are on one  *)
(* channel at most.                                                          *)
Only(type, s, ch) ==
  \A c \in Channels : table[<<c, s>>] = type /\ <<c, s>> \notin added => c = ch
Quiet(s) == Only("BROADCAST", s, radio) /\ Only("RECEIVE", s, radio) /\ Only("SEND", s, radio)
NoBroadcast(s) == \A c \in Channels : table[<<c, s>>] # "BROADCAST"

(* The station looks at its table when it boots, with the radio off, and at  *)
(* the first ms of a timeslot.                                               *)
Booting == now = 1 /\ radio = NoChannel /\ lone = {}
Begins  == Booting \/ (Mu = 0 /\ radio \in Channels)

(* What the pending event is, and what the radio already hears: the station  *)
(* is about to look at its table;                                            *)
Looks == timer.name = "start" /\ timer.in = 0 /\ Begins

(* it needs no change until some timeslots from now;                         *)
SleepsFor(a) ==
  /\ Mu + timer.in = a * SlotMs
  /\ \A e \in 1 .. a - 1 : Quiet((Sigma + e) % NumSlots)
Sleeps ==
  /\ timer.name = "start" /\ timer.in > 0 /\ radio \in Channels
  /\ Only("BROADCAST", Sigma, radio) /\ Only("SEND", Sigma, radio)
  /\ Mu < Gap => Only("RECEIVE", Sigma, radio)
  /\ \E a \in 1 .. NumSlots : SleepsFor(a)

(* it tunes to the one channel of this timeslot;                             *)
TunesOnce ==
  /\ timer.name = "first" /\ timer.in = 0 /\ timer.first \in Channels
  /\ timer.second = NoChannel /\ timer.wkup = SlotMs - Mu /\ Begins
  /\ Only("BROADCAST", Sigma, timer.first) /\ Only("RECEIVE", Sigma, timer.first)
  /\ Only("SEND", Sigma, timer.first)

(* it tunes to the channel it receives data on, and is to change for the     *)
(* acknowledgements of its own data;                                         *)
TunesTwice ==
  /\ timer.name = "first" /\ timer.in = 0 /\ timer.first \in Channels
  /\ timer.second \in Channels /\ timer.change = Gap /\ timer.wkup = AckMs
  /\ Mu = 0 /\ radio \in Channels /\ NoBroadcast(Sigma)
  /\ Only("RECEIVE", Sigma, timer.first) /\ Only("SEND", Sigma, timer.second)

(* or it tunes in the gap, to hear those acknowledgements.                   *)
TunesInGap ==
  /\ timer.name \in {"first", "second"} /\ timer.in = Gap - Mu /\ Mu <= Gap
  /\ timer.first \in Channels /\ timer.second = NoChannel /\ timer.wkup = AckMs
  /\ radio \in Channels /\ NoBroadcast(Sigma)
  /\ Mu < Gap => Only("RECEIVE", Sigma, radio)
  /\ Only("SEND", Sigma, timer.first)

TimerOK == Looks \/ Sleeps \/ TunesOnce \/ TunesTwice \/ TunesInGap

(* A lone frame that the station is to hear has been heard or is still due.  *)
OnAirNow(c) == {i \in DOMAIN queue : queue[i].wait = 0 /\ queue[i].channel = c}
Pending(c)  == \E i \in OnAirNow(c) : queue[i].mine /\ OnAirNow(c) = {i}
Expected(c) == DueOn(table[<<c, Sigma>>]) /\ <<c, Sigma>> \notin added
Hears == \A c \in lone : Expected(c) => c \in heard \/ Pending(c)

RadioInv == Inv /\ Types /\ OneEach /\ TimerOK /\ Hears

LEMMA ClockNow ==
  ASSUME Types
  PROVE  /\ Sigma \in Slots /\ Mu \in 0 .. SlotMs - 1 /\ now \in 0 .. FrameMs - 1
         /\ Gap \in 1 .. SlotMs - 1 /\ Gap + AckMs = SlotMs /\ AckMs \in Nat /\ SlotMs \in Nat
BY ClockAt, RadioConstants DEF Types, Sigma, Mu, Gap

LEMMA CellOf ==
  ASSUME Types, NEW c \in Channels, NEW s \in Slots
  PROVE  /\ <<c, s>> \in Cell
         /\ table[<<c, s>>] \in {"NONE", "BROADCAST", "RECEIVE", "SEND"}
BY DEF Types, Cell

(* At the first ms of a timeslot nothing is due. *)
LEMMA NothingDue ==
  ASSUME Types, Begins, NEW c \in lone
  PROVE  ~Expected(c)
<1>1. Mu = 0
  BY DEF Begins, Booting
<1>2. ASSUME NEW type PROVE ~DueOn(type)
  BY <1>1, ClockNow, RadioConstants DEF DueOn, Mu, Gap
<1> QED
  BY <1>2 DEF Expected

(* The radio is where the station is to hear. *)
LEMMA RadioThere ==
  ASSUME Types, TimerOK, NEW c \in lone, Expected(c)
  PROVE  radio = c
<1>1. c \in Channels /\ Sigma \in Slots
  BY ClockNow DEF Types
<1>2. PICK type : type = table[<<c, Sigma>>]
  OBVIOUS
<1>3. /\ type = "BROADCAST" \/ (type = "RECEIVE" /\ Mu < Gap) \/ (type = "SEND" /\ Mu > Gap)
      /\ <<c, Sigma>> \notin added
  BY <1>2, ClockNow DEF Expected, DueOn, Mu, Gap
<1>4. ~Begins
  BY NothingDue
<1>5. CASE Sleeps
  BY <1>1, <1>2, <1>3, <1>5 DEF Sleeps, Only
<1>6. CASE TunesTwice
  BY <1>4, <1>6 DEF TunesTwice, Begins
<1>7. CASE TunesInGap
  <2>1. type # "BROADCAST"
    BY <1>1, <1>2, <1>7 DEF TunesInGap, NoBroadcast
  <2>2. Mu <= Gap /\ (Mu < Gap => Only("RECEIVE", Sigma, radio))
    BY <1>7 DEF TunesInGap
  <2>3. type = "RECEIVE" /\ Mu < Gap
    BY <1>3, <2>1, <2>2, ClockNow
  <2> QED
    BY <1>1, <1>2, <1>3, <2>2, <2>3 DEF Only
<1> QED
  BY <1>4, <1>5, <1>6, <1>7 DEF TimerOK, Looks, TunesOnce
-----------------------------------------------------------------------------
(* The steps that leave the clock alone *)

(* What the table and what the station knows of it lose or keep. *)
Fewer ==
  \A cell \in Cell :
    /\ table'[cell] = "BROADCAST" => table[cell] = "BROADCAST"
    /\ cell \notin added' => cell \notin added /\ table'[cell] \in {table[cell], "NONE"}

LEMMA FewerTimer ==
  ASSUME Types, TimerOK, Fewer, UNCHANGED <<now, radio, timer, lone>>
  PROVE  TimerOK'
<1>1. Sigma' = Sigma /\ Mu' = Mu /\ (Begins => Begins')
  BY Zenon DEF Sigma, Mu, Begins, Booting
<1>2. Sigma \in Slots /\ NumSlots \in Nat \ {0} /\ Slots = 0 .. NumSlots - 1
  BY ClockNow, RadioConstants DEF Slots
<1>3. \A c \in Channels, s \in Slots : <<c, s>> \in Cell
  BY DEF Cell
<1>4. ASSUME NEW type \in {"BROADCAST", "RECEIVE", "SEND"}, NEW s \in Slots, NEW ch, Only(type, s, ch)
      PROVE  \A c \in Channels : table'[<<c, s>>] = type /\ <<c, s>> \notin added' => c = ch
  BY <1>3, <1>4 DEF Only, Fewer
<1>5. NoBroadcast(Sigma) => NoBroadcast(Sigma)'
  BY <1>1, <1>2, <1>3 DEF NoBroadcast, Fewer
<1>6. ASSUME NEW s \in Slots, Quiet(s) PROVE Quiet(s)'
  BY <1>4, <1>6 DEF Quiet, Only
<1>7. CASE Looks
  BY <1>1, <1>7, Zenon DEF TimerOK, Looks
<1>8. CASE Sleeps
  <2>1. PICK a \in 1 .. NumSlots : SleepsFor(a)
    BY <1>8 DEF Sleeps
  <2>2. Mu' + timer'.in = a * SlotMs
    BY <1>1, <2>1 DEF SleepsFor
  <2>3. ASSUME NEW e \in 1 .. a - 1 PROVE Quiet((Sigma + e) % NumSlots)'
    <3>1. PICK s \in Slots : s = (Sigma + e) % NumSlots
      BY <1>2
    <3>2. Quiet(s)
      BY <2>1, <3>1 DEF SleepsFor
    <3>3. Quiet(s)'
      BY <1>6, <3>2
    <3>4. ((Sigma + e) % NumSlots)' = s
      BY <1>1, <3>1
    <3> QED
      BY <3>3, <3>4 DEF Quiet, Only
  <2>4. SleepsFor(a)'
    BY <2>2, <2>3 DEF SleepsFor
  <2>5. Sleeps'
    BY <1>1, <1>2, <1>4, <1>8, <2>4 DEF Sleeps, Only
  <2> QED
    BY <2>5 DEF TimerOK
<1>9. CASE TunesOnce
  <2>1. TunesOnce'
    BY <1>1, <1>2, <1>4, <1>9 DEF TunesOnce, Only
  <2> QED
    BY <2>1 DEF TimerOK
<1>10. CASE TunesTwice
  <2>1. TunesTwice'
    BY <1>1, <1>2, <1>4, <1>5, <1>10 DEF TunesTwice, Only
  <2> QED
    BY <2>1 DEF TimerOK
<1>11. CASE TunesInGap
  <2>1. TunesInGap'
    BY <1>1, <1>2, <1>4, <1>5, <1>11 DEF TunesInGap, Only
  <2> QED
    BY <2>1 DEF TimerOK
<1> QED
  BY <1>7, <1>8, <1>9, <1>10, <1>11 DEF TimerOK

LEMMA FewerHears ==
  ASSUME Types, Hears, Fewer, UNCHANGED <<now, queue, lone, heard>>
  PROVE  Hears'
<1>1. Sigma' = Sigma /\ Sigma \in Slots
  BY ClockNow DEF Sigma
<1>2. SUFFICES ASSUME NEW c \in lone, Expected(c)' PROVE c \in heard \/ Pending(c)'
  BY DEF Hears
<1>3. <<c, Sigma>> \in Cell
  BY <1>1 DEF Cell, Types
<1>4. <<c, Sigma>> \notin added' /\ DueOn(table'[<<c, Sigma>>])
  BY <1>1, <1>2 DEF Expected, DueOn
<1>5. table'[<<c, Sigma>>] # "NONE"
  BY <1>4 DEF DueOn
<1>6. Expected(c)
  BY <1>3, <1>4, <1>5 DEF Fewer, Expected
<1>7. Pending(c) => Pending(c)'
  BY DEF Pending, OnAirNow
<1> QED
  BY <1>6, <1>7 DEF Hears

LEMMA TableAddOK ==
  ASSUME RadioInv, NEW c \in Channels, NEW s \in Slots, NEW type \in {"RECEIVE", "SEND"},
         TableAdd(c, s, type)
  PROVE  Types' /\ OneEach' /\ TimerOK' /\ Hears'
<1>1. Types /\ OneEach /\ TimerOK /\ Hears
  BY DEF RadioInv
<1>2. /\ UNCHANGED <<now, radio, timer, queue, lone, heard>>
      /\ table' = [table EXCEPT ![<<c, s>>] = type] /\ added' = added \cup {<<c, s>>}
      /\ table[<<c, s>>] = "NONE" /\ \A d \in Channels : table[<<d, s>>] \notin {type, "BROADCAST"}
      /\ changes < MaxChanges /\ changes' = changes + 1
  BY DEF TableAdd
<1>3. <<c, s>> \in Cell /\ table \in [Cell -> {"NONE", "BROADCAST", "RECEIVE", "SEND"}]
  BY <1>1 DEF Cell, Types
<1>4. \A cell \in Cell : table'[cell] = IF cell = <<c, s>> THEN type ELSE table[cell]
  BY <1>2, <1>3
<1>5. changes' \in 0 .. MaxChanges
  BY <1>1, <1>2, RadioConstants DEF Types
<1>6. Types'
  BY <1>1, <1>2, <1>3, <1>5 DEF Types
<1>7. Fewer
  BY <1>2, <1>4 DEF Fewer
<1>8. OneEach'
  <2>1. ASSUME NEW t \in Slots, NEW d \in Channels, NEW e \in Channels, d # e PROVE Apart(d, e, t)'
    <3>1. <<d, t>> \in Cell /\ <<e, t>> \in Cell
      BY DEF Cell
    <3>2. Apart(d, e, t)
      BY <1>1, <2>1 DEF OneEach
    <3>3. CASE <<d, t>> = <<c, s>>
      BY <1>2, <1>4, <2>1, <3>1, <3>3 DEF Apart
    <3>4. CASE <<e, t>> = <<c, s>>
      BY <1>2, <1>4, <2>1, <3>1, <3>4 DEF Apart
    <3>5. CASE <<d, t>> # <<c, s>> /\ <<e, t>> # <<c, s>>
      BY <1>4, <3>1, <3>2, <3>5 DEF Apart
    <3> QED
      BY <3>3, <3>4, <3>5
  <2>2. \A cell \in Broadcast : table'[cell] = "BROADCAST"
    BY <1>1, <1>2, <1>4, RadioAssumption DEF OneEach, RadioAssumption
  <2> QED
    BY <2>1, <2>2 DEF OneEach
<1>9. TimerOK' /\ Hears'
  BY <1>1, <1>2, <1>7, FewerTimer, FewerHears
<1> QED
  BY <1>6, <1>8, <1>9

LEMMA TableRemoveOK ==
  ASSUME RadioInv, NEW cell \in Cell, TableRemove(cell)
  PROVE  Types' /\ OneEach' /\ TimerOK' /\ Hears'
<1>1. Types /\ OneEach /\ TimerOK /\ Hears
  BY DEF RadioInv
<1>2. /\ UNCHANGED <<now, radio, timer, queue, added, lone, heard>>
      /\ table' = [table EXCEPT ![cell] = "NONE"] /\ table[cell] \in {"RECEIVE", "SEND"}
      /\ changes < MaxChanges /\ changes' = changes + 1
  BY DEF TableRemove
<1>3. table \in [Cell -> {"NONE", "BROADCAST", "RECEIVE", "SEND"}]
  BY <1>1 DEF Types
<1>4. \A other \in Cell : table'[other] = IF other = cell THEN "NONE" ELSE table[other]
  BY <1>2, <1>3
<1>5. changes' \in 0 .. MaxChanges
  BY <1>1, <1>2, RadioConstants DEF Types
<1>6. Types'
  BY <1>1, <1>2, <1>3, <1>5 DEF Types
<1>7. Fewer
  BY <1>2, <1>4 DEF Fewer
<1>8. OneEach'
  <2>1. ASSUME NEW t \in Slots, NEW d \in Channels, NEW e \in Channels, d # e PROVE Apart(d, e, t)'
    <3>1. <<d, t>> \in Cell /\ <<e, t>> \in Cell
      BY DEF Cell
    <3>2. Apart(d, e, t)
      BY <1>1, <2>1 DEF OneEach
    <3> QED
      BY <1>4, <3>1, <3>2 DEF Apart
  <2>2. \A other \in Broadcast : table'[other] = "BROADCAST"
    BY <1>1, <1>2, <1>4, RadioAssumption DEF OneEach, RadioAssumption
  <2> QED
    BY <2>1, <2>2 DEF OneEach
<1>9. TimerOK' /\ Hears'
  BY <1>1, <1>2, <1>7, FewerTimer, FewerHears
<1> QED
  BY <1>6, <1>8, <1>9
LEMMA StillOK ==
  ASSUME Types, OneEach, TimerOK, UNCHANGED <<now, table, radio, timer, added, lone, changes>>
  PROVE  Types' /\ OneEach' /\ TimerOK' /\ \A c \in lone : Expected(c)' => Expected(c)
<1>1. Types'
  BY DEF Types
<1>2. OneEach'
  BY Zenon DEF OneEach, Apart
<1>3. Fewer
  BY DEF Fewer
<1>4. TimerOK'
  BY <1>3, FewerTimer
<1>5. Sigma' = Sigma
  BY DEF Sigma
<1>6. \A c \in lone : Expected(c)' => Expected(c)
  BY <1>5 DEF Expected, DueOn
<1> QED
  BY <1>1, <1>2, <1>4, <1>6

LEMMA TransmitOK ==
  ASSUME RadioInv, NEW c \in Channels, NEW mine \in BOOLEAN, Transmit(c, mine)
  PROVE  Types' /\ OneEach' /\ TimerOK' /\ Hears'
<1>1. Types /\ OneEach /\ TimerOK /\ Hears /\ queue \in Seq(Frame)
  BY DEF RadioInv, Inv
<1>2. /\ UNCHANGED <<now, table, radio, timer, added, lone, heard, changes>>
      /\ \E f : f.wait = Lead /\ queue' = Append(queue, f)
  <2>1. [wait |-> Lead, channel |-> c, mine |-> mine].wait = Lead
    OBVIOUS
  <2> QED
    BY <2>1 DEF Transmit, AddPacket
<1>3. Types' /\ OneEach' /\ TimerOK' /\ \A d \in lone : Expected(d)' => Expected(d)
  BY <1>1, <1>2, StillOK
<1>4. PICK f : f.wait = Lead /\ queue' = Append(queue, f)
  BY <1>2
<1>5. /\ DOMAIN queue' = 1 .. Len(queue) + 1 /\ DOMAIN queue = 1 .. Len(queue)
      /\ \A i \in 1 .. Len(queue) : queue'[i] = queue[i]
      /\ queue'[Len(queue) + 1] = f /\ f.wait # 0 /\ Len(queue) \in Nat
  BY <1>1, <1>4, RadioConstants
<1>6. ASSUME NEW d PROVE OnAirNow(d)' = OnAirNow(d)
  BY <1>5 DEF OnAirNow
<1>7. ASSUME NEW d, Pending(d) PROVE Pending(d)'
  <2>1. PICK i \in OnAirNow(d) : queue[i].mine /\ OnAirNow(d) = {i}
    BY <1>7 DEF Pending
  <2>2. i \in DOMAIN queue
    BY <2>1 DEF OnAirNow
  <2>3. queue'[i] = queue[i]
    BY <1>5, <2>2
  <2> QED
    BY <1>6, <2>1, <2>3 DEF Pending
<1>8. Hears'
  BY <1>1, <1>2, <1>3, <1>7 DEF Hears
<1> QED
  BY <1>3, <1>8

LEMMA SendOK ==
  ASSUME RadioInv, Send
  PROVE  Types' /\ OneEach' /\ TimerOK' /\ Hears'
<1>1. Types /\ OneEach /\ TimerOK /\ Hears /\ queue \in Seq(Frame) /\ Ordered(queue)
  BY DEF RadioInv, Inv
<1>2. /\ UNCHANGED <<now, table, radio, timer, added, lone, changes>> /\ SendDue(queue)
      /\ heard' = IF ~Collision(queue) /\ queue[1].mine /\ queue[1].channel = radio
                  THEN heard \cup {radio} ELSE heard
      /\ \E m \in InOrder(Kept(queue)) : queue' = Picked(queue, m)
  BY DEF Send
<1>3. Types' /\ OneEach' /\ TimerOK' /\ \A d \in lone : Expected(d)' => Expected(d)
  BY <1>1, <1>2, StillOK
<1>4. PICK m \in InOrder(Kept(queue)) : queue' = Picked(queue, m)
  BY <1>2
<1>5. /\ DOMAIN queue' = DOMAIN m
      /\ \A i \in DOMAIN m : queue'[i] = queue[m[i]]
  BY <1>4 DEF Picked
<1>6. /\ m \in [1 .. Cardinality(Kept(queue)) -> Kept(queue)]
      /\ \A i, j \in DOMAIN m : i < j => m[i] < m[j]
  BY <1>4 DEF InOrder
<1>7. ASSUME NEW i \in DOMAIN m PROVE m[i] \in Kept(queue) /\ m[i] \in DOMAIN queue \ {1}
  BY <1>1, <1>6, <1>7, KeptFinite
<1>8. ASSUME NEW i \in DOMAIN m, NEW j \in DOMAIN m, m[i] = m[j] PROVE i = j
  <2>1. Cardinality(Kept(queue)) \in Nat
    BY <1>1, KeptFinite, FS_CardinalityType
  <2>2. i \in Nat /\ j \in Nat
    BY <1>6, <2>1
  <2>3. m[i] \in Nat /\ m[j] \in Nat
    BY <1>1, <1>7
  <2>4. ~(i < j) /\ ~(j < i)
    BY <1>6, <1>8, <2>3
  <2> QED
    BY <2>2, <2>4
<1>9. 1 \in DOMAIN queue /\ queue[1].wait = 0
  BY <1>1, <1>2 DEF SendDue
<1>10. ASSUME NEW c \in lone, Expected(c), Pending(c) PROVE c \in heard' \/ Pending(c)'
  <2>1. PICK i \in OnAirNow(c) : queue[i].mine /\ OnAirNow(c) = {i}
    BY <1>10 DEF Pending
  <2>2. i \in DOMAIN queue /\ queue[i].wait = 0 /\ queue[i].channel = c
    BY <2>1 DEF OnAirNow
  <2>3. CASE i = 1
    <3>1. radio = c
      BY <1>1, <1>10, RadioThere
    <3>2. ~Collision(queue)
      <4> SUFFICES ASSUME Collision(queue) PROVE FALSE
        OBVIOUS
      <4>1. PICK j \in Dropped(queue) : TRUE
        BY DEF Collision
      <4>2. /\ j \in 2 .. Len(queue) /\ queue[j].channel = queue[1].channel
            /\ queue[j].wait = queue[1].wait
        BY <4>1 DEF Dropped, Looked
      <4>3. j \in OnAirNow(c) /\ j # 1
        BY <1>1, <1>9, <2>2, <2>3, <4>2 DEF OnAirNow
      <4> QED
        BY <2>1, <2>3, <4>3
    <3> QED
      BY <1>2, <2>1, <2>2, <2>3, <3>1, <3>2
  <2>4. CASE i # 1
    <3>1. queue[1].channel # c
      BY <1>9, <2>1, <2>4 DEF OnAirNow
    <3>2. i \in 2 .. Len(queue)
      BY <1>1, <2>2, <2>4
    <3>3. i \in Kept(queue)
      BY <2>2, <3>1, <3>2 DEF Kept, Dropped
    <3>4. PICK k \in DOMAIN m : m[k] = i
      BY <1>1, <3>3, KeptFinite, InOrderOnto
    <3>5. k \in OnAirNow(c)' /\ queue'[k].mine
      BY <1>5, <2>1, <2>2, <3>4 DEF OnAirNow
    <3>6. ASSUME NEW j \in OnAirNow(c)' PROVE j = k
      <4>1. j \in DOMAIN m /\ queue[m[j]].wait = 0 /\ queue[m[j]].channel = c
        BY <1>5, <3>6 DEF OnAirNow
      <4>2. m[j] \in OnAirNow(c)
        BY <1>7, <4>1 DEF OnAirNow
      <4>3. m[j] = m[k]
        BY <2>1, <3>4, <4>2
      <4> QED
        BY <1>8, <4>1, <4>3
    <3>7. OnAirNow(c)' = {k}
      BY <3>5, <3>6
    <3> QED
      BY <3>5, <3>7 DEF Pending
  <2> QED
    BY <2>3, <2>4
<1>11. heard \subseteq heard'
  BY <1>2
<1>12. Hears'
  BY <1>1, <1>2, <1>3, <1>10, <1>11 DEF Hears
<1> QED
  BY <1>3, <1>12
-----------------------------------------------------------------------------
(* The steps that tune the radio *)

LEMMA EventFields ==
  ASSUME NEW name, NEW in, NEW first, NEW second, NEW change, NEW wkup, NEW e,
         e = Event(name, in, first, second, change, wkup)
  PROVE  /\ e.name = name /\ e.in = in /\ e.first = first /\ e.second = second
         /\ e.change = change /\ e.wkup = wkup
         /\ (name \in {"start", "first", "second"} /\ in \in 0 .. FrameMs /\ first \in Tuned
             /\ second \in Tuned /\ change \in 0 .. SlotMs /\ wkup \in 0 .. SlotMs => e \in Events)
BY DEF Event, Events

LEMMA StartFields ==
  ASSUME NEW in \in 0 .. FrameMs, NEW e, e = Start(in)
  PROVE  e.name = "start" /\ e.in = in /\ e \in Events
<1>1. NoChannel \in Tuned /\ 0 \in 0 .. SlotMs
  BY RadioConstants DEF Tuned
<1> QED
  BY <1>1, EventFields DEF Start

(* Whether anything is due does not depend on the radio or the timer. *)
LEMMA TuneHears ==
  ASSUME Types, Hears, UNCHANGED <<now, table, queue, added, lone, heard>>
  PROVE  Hears'
<1>1. Sigma' = Sigma
  BY DEF Sigma
<1>2. ASSUME NEW c \in lone PROVE (Expected(c)' => Expected(c)) /\ (Pending(c) => Pending(c)')
  BY <1>1 DEF Expected, DueOn, Pending, OnAirNow
<1> QED
  BY <1>2 DEF Hears

LEMMA RxFirstOK ==
  ASSUME RadioInv, RxFirst
  PROVE  Types' /\ OneEach' /\ TimerOK' /\ Hears'
<1>1. Types /\ OneEach /\ TimerOK /\ Hears
  BY DEF RadioInv
<1>2. /\ UNCHANGED <<now, table, queue, added, lone, heard, changes>>
      /\ timer.name = "first" /\ timer.in = 0 /\ radio' = timer.first
      /\ timer' = IF timer.second = NoChannel THEN Start(timer.wkup)
                  ELSE Event("second", timer.change, timer.second, NoChannel, 0, timer.wkup)
  BY DEF RxFirst
<1>3. Sigma' = Sigma /\ Mu' = Mu
  BY <1>2 DEF Sigma, Mu
<1>4. Sigma \in Slots /\ Mu \in 0 .. SlotMs - 1 /\ Gap \in 1 .. SlotMs - 1
      /\ Gap + AckMs = SlotMs /\ AckMs \in Nat /\ SlotMs \in Nat /\ Gap' = Gap
  BY <1>1, ClockNow DEF Gap
<1>5. /\ SlotMs <= FrameMs /\ FrameMs \in Nat /\ NoChannel \notin Channels /\ AckMs # 0
      /\ NumSlots \in Nat \ {0}
  BY RadioConstants
<1>6. Hears'
  BY <1>1, <1>2, TuneHears
<1>7. OneEach'
  BY <1>1, <1>2 DEF OneEach, Apart
<1>8. timer.first \in Channels
  BY <1>1, <1>2 DEF TimerOK, Looks, Sleeps, TunesOnce, TunesTwice, TunesInGap
<1>9. CASE timer.second = NoChannel
  <2>1. timer' = Start(timer.wkup) /\ (TunesOnce \/ TunesInGap)
    BY <1>1, <1>2, <1>5, <1>9 DEF TimerOK, Looks, Sleeps, TunesTwice
  <2>2. timer.wkup = SlotMs - Mu
    <3>1. CASE TunesOnce
      BY <3>1 DEF TunesOnce
    <3>2. CASE TunesInGap
      <4>1. Gap - Mu = 0 /\ timer.wkup = AckMs
        BY <1>2, <3>2 DEF TunesInGap
      <4> QED
        BY <1>4, <4>1
    <3> QED
      BY <2>1, <3>1, <3>2
  <2>3. timer.wkup \in 0 .. FrameMs /\ timer.wkup > 0 /\ Mu + timer.wkup = SlotMs
    BY <1>4, <1>5, <2>2
  <2>4. timer'.name = "start" /\ timer'.in = timer.wkup /\ timer' \in Events
    BY <2>1, <2>3, StartFields
  <2>5. Types'
    BY <1>1, <1>2, <1>8, <2>4 DEF Types, Tuned
  <2>6. SleepsFor(1)'
    <3>1. Mu' + timer'.in = 1 * SlotMs
      BY <1>3, <1>4, <2>3, <2>4
    <3>2. 1 .. 1 - 1 = {}
      OBVIOUS
    <3> QED
      BY <3>1, <3>2 DEF SleepsFor
  <2>7. /\ Only("BROADCAST", Sigma, timer.first) /\ Only("SEND", Sigma, timer.first)
        /\ Mu < Gap => Only("RECEIVE", Sigma, timer.first)
    <3>1. CASE TunesOnce
      BY <3>1 DEF TunesOnce
    <3>2. CASE TunesInGap
      <4>1. ~(Mu < Gap) /\ Only("SEND", Sigma, timer.first) /\ NoBroadcast(Sigma)
        <5>1. Gap - Mu = 0 /\ Only("SEND", Sigma, timer.first) /\ NoBroadcast(Sigma)
          BY <1>2, <3>2 DEF TunesInGap
        <5> QED
          BY <1>4, <5>1
      <4> QED
        BY <4>1 DEF NoBroadcast, Only
    <3> QED
      BY <2>1, <3>1, <3>2
  <2>8. 1 \in 1 .. NumSlots
    BY <1>5
  <2>9. Sleeps'
    BY <1>2, <1>3, <1>4, <1>8, <2>3, <2>4, <2>6, <2>7, <2>8 DEF Sleeps, Only
  <2> QED
    BY <1>6, <1>7, <2>5, <2>9 DEF TimerOK
<1>10. CASE timer.second # NoChannel
  <2>1. TunesTwice
    BY <1>1, <1>2, <1>10 DEF TimerOK, Looks, Sleeps, TunesOnce, TunesInGap
  <2>2. timer' = Event("second", Gap, timer.second, NoChannel, 0, AckMs)
    BY <1>2, <1>10, <2>1 DEF TunesTwice
  <2>3. Gap \in 0 .. FrameMs /\ timer.second \in Tuned /\ NoChannel \in Tuned
        /\ 0 \in 0 .. SlotMs /\ AckMs \in 0 .. SlotMs
    BY <1>4, <1>5, <2>1 DEF TunesTwice, Tuned
  <2>4. /\ timer'.name = "second" /\ timer'.in = Gap /\ timer'.first = timer.second
        /\ timer'.second = NoChannel /\ timer'.wkup = AckMs /\ timer' \in Events
    BY <2>2, <2>3, EventFields
  <2>5. Types'
    BY <1>1, <1>2, <1>8, <2>4 DEF Types, Tuned
  <2>6. /\ Mu = 0 /\ NoBroadcast(Sigma) /\ Only("RECEIVE", Sigma, timer.first)
        /\ Only("SEND", Sigma, timer.second) /\ timer.second \in Channels
    BY <2>1 DEF TunesTwice
  <2>7. Gap = Gap - 0 /\ 0 <= Gap
    BY <1>4
  <2>8. TunesInGap'
    BY <1>2, <1>3, <1>4, <1>8, <2>4, <2>6, <2>7 DEF TunesInGap, Only, NoBroadcast
  <2> QED
    BY <1>6, <1>7, <2>5, <2>8 DEF TimerOK
<1> QED
  BY <1>9, <1>10

LEMMA RxSecondOK ==
  ASSUME RadioInv, RxSecond
  PROVE  Types' /\ OneEach' /\ TimerOK' /\ Hears'
<1>1. Types /\ OneEach /\ TimerOK /\ Hears
  BY DEF RadioInv
<1>2. /\ UNCHANGED <<now, table, queue, added, lone, heard, changes>>
      /\ timer.name = "second" /\ timer.in = 0 /\ radio' = timer.first
      /\ timer' = Start(timer.wkup)
  BY DEF RxSecond
<1>3. Sigma' = Sigma /\ Mu' = Mu /\ Gap' = Gap
  BY <1>2 DEF Sigma, Mu, Gap
<1>4. Sigma \in Slots /\ Mu \in 0 .. SlotMs - 1 /\ Gap \in 1 .. SlotMs - 1
      /\ Gap + AckMs = SlotMs /\ AckMs \in Nat \ {0} /\ SlotMs \in Nat
  BY <1>1, ClockNow, RadioConstants
<1>5. SlotMs <= FrameMs /\ FrameMs \in Nat /\ NumSlots \in Nat \ {0}
  BY RadioConstants
<1>6. Hears'
  BY <1>1, <1>2, TuneHears
<1>7. OneEach'
  BY <1>1, <1>2 DEF OneEach, Apart
<1>8. TunesInGap
  BY <1>1, <1>2 DEF TimerOK, Looks, Sleeps, TunesOnce, TunesTwice
<1>9. /\ timer.first \in Channels /\ Gap - Mu = 0 /\ timer.wkup = AckMs
      /\ Only("SEND", Sigma, timer.first) /\ NoBroadcast(Sigma)
  BY <1>2, <1>8 DEF TunesInGap
<1>10. AckMs \in 0 .. FrameMs /\ AckMs > 0 /\ Mu + AckMs = SlotMs /\ ~(Mu < Gap)
  BY <1>4, <1>5, <1>9
<1>11. timer'.name = "start" /\ timer'.in = AckMs /\ timer' \in Events
  BY <1>2, <1>9, <1>10, StartFields
<1>12. Types'
  BY <1>1, <1>2, <1>9, <1>11 DEF Types, Tuned
<1>13. SleepsFor(1)'
  <2>1. Mu' + timer'.in = 1 * SlotMs
    BY <1>3, <1>4, <1>10, <1>11
  <2>2. 1 .. 1 - 1 = {}
    OBVIOUS
  <2> QED
    BY <2>1, <2>2 DEF SleepsFor
<1>14. 1 \in 1 .. NumSlots
  BY <1>5
<1>15. Only("BROADCAST", Sigma, timer.first)
  BY <1>9 DEF NoBroadcast, Only
<1>16. Sleeps'
  BY <1>2, <1>3, <1>9, <1>10, <1>11, <1>13, <1>14, <1>15 DEF Sleeps, Only
<1> QED
  BY <1>6, <1>7, <1>12, <1>16 DEF TimerOK
(* The cells of a kind are on one channel at most, known or not. *)
AtMost(type, s, ch) == \A c \in Channels : table[<<c, s>>] = type => c = ch
Settled(s) ==
  AtMost("BROADCAST", s, radio) /\ AtMost("RECEIVE", s, radio) /\ AtMost("SEND", s, radio)

(* What one cell of a kind in a timeslot says of the others. *)
LEMMA OneKnown ==
  ASSUME Types, OneEach, NEW s \in Slots, NEW c \in Channels, table[<<c, s>>] # "NONE"
  PROVE  /\ AtMost(table[<<c, s>>], s, c)
         /\ table[<<c, s>>] # "BROADCAST" => NoBroadcast(s)
         /\ table[<<c, s>>] = "BROADCAST" =>
              \A d \in Channels : d # c => table[<<d, s>>] = "NONE"
<1>1. ASSUME NEW d \in Channels, d # c
      PROVE  Apart(c, d, s) /\ Apart(d, c, s)
  BY <1>1 DEF OneEach
<1>2. ASSUME NEW d \in Channels, d # c
      PROVE  table[<<d, s>>] # table[<<c, s>>] /\ table[<<d, s>>] # "BROADCAST"
  BY <1>1, <1>2 DEF Apart
<1>3. AtMost(table[<<c, s>>], s, c)
  BY <1>2 DEF AtMost
<1>4. table[<<c, s>>] # "BROADCAST" => NoBroadcast(s)
  BY <1>2 DEF NoBroadcast
<1>5. ASSUME table[<<c, s>>] = "BROADCAST", NEW d \in Channels, d # c PROVE table[<<d, s>>] = "NONE"
  BY <1>1, <1>5 DEF Apart
<1> QED
  BY <1>3, <1>4, <1>5

(* When and for which timeslot the station plans. *)
LEMMA Planned ==
  ASSUME Types, Begins
  PROVE  /\ Mu \in {0, 1} /\ SlotOf(now + Lead) = Sigma /\ MsOf(now + Lead) = Mu + 2
         /\ radio \notin Channels => Mu = 1 /\ Sigma = 0 /\ radio = NoChannel
         /\ radio \in Channels => Mu = 0
<1>1. NumSlots \in Nat \ {0} /\ SlotMs \in Nat /\ SlotMs >= 4 /\ Lead = 2 /\ NoChannel \notin Channels
  BY RadioConstants
<1>2. ASSUME now = 1 PROVE Mu = 1 /\ Sigma = 0
  <2>1. 0 \in Slots /\ 1 \in 0 .. SlotMs - 1 /\ now = 0 * SlotMs + 1
    BY <1>1, <1>2 DEF Slots
  <2> QED
    BY <2>1, ClockParts DEF Mu, Sigma
<1>3. /\ Mu \in {0, 1}
      /\ radio \notin Channels => Mu = 1 /\ Sigma = 0 /\ radio = NoChannel
      /\ radio \in Channels => Mu = 0
  BY <1>1, <1>2 DEF Begins, Booting
<1>4. PICK b : b = Mu + 2
  OBVIOUS
<1>5. b \in 0 .. SlotMs - 1 /\ Mu + Lead = 0 * SlotMs + b /\ 0 \in Nat /\ Lead \in Nat
  BY <1>1, <1>3, <1>4
<1>6. MsOf(now) + Lead = 0 * SlotMs + b /\ now \in 0 .. FrameMs - 1
  BY <1>5, ClockNow DEF Mu
<1>7. SlotOf(now + Lead) = (Sigma + 0) % NumSlots /\ MsOf(now + Lead) = b
  BY <1>5, <1>6, ClockAhead DEF Sigma
<1>8. (Sigma + 0) % NumSlots = Sigma
  BY ClockNow, SlotsRound
<1> QED
  BY <1>3, <1>4, <1>7, <1>8

LEMMA RxStartOK ==
  ASSUME RadioInv, RxStart
  PROVE  Types' /\ OneEach' /\ TimerOK' /\ Hears'
<1>1. Types /\ OneEach /\ TimerOK /\ Hears
  BY DEF RadioInv
<1>2. /\ UNCHANGED <<now, table, radio, queue, lone, heard, changes>> /\ added' = {}
      /\ timer.name = "start" /\ timer.in = 0
      /\ \E e : /\ e = SlotMs - MsOf(now + Lead) + RxOffset
                /\ Plan(SlotOf(now + Lead), e, e - AckMs)
  BY DEF RxStart
<1>3. Begins
  BY <1>1, <1>2 DEF TimerOK, Looks, Sleeps, TunesOnce, TunesTwice, TunesInGap
<1>4. Begins' /\ Sigma' = Sigma /\ Mu' = Mu /\ Gap' = Gap
  BY <1>2, <1>3 DEF Begins, Booting, Sigma, Mu, Gap
<1>5. Sigma \in Slots /\ Mu \in {0, 1} /\ Gap \in 1 .. SlotMs - 1
      /\ Gap + AckMs = SlotMs /\ AckMs \in Nat \ {0} /\ SlotMs \in Nat /\ SlotMs >= 4
  BY <1>1, <1>3, ClockNow, Planned, RadioConstants
<1>6. /\ SlotMs <= FrameMs /\ FrameMs \in Nat /\ NumSlots \in Nat \ {0} /\ NoChannel \notin Channels
      /\ FrameMs = NumSlots * SlotMs /\ Slots = 0 .. NumSlots - 1
  BY RadioConstants DEF Slots
<1>7. PICK e : e = SlotMs - MsOf(now + Lead) + RxOffset /\ Plan(SlotOf(now + Lead), e, e - AckMs)
  BY <1>2
<1>8. /\ e = SlotMs - Mu /\ e - AckMs = Gap - Mu /\ e - (Gap - Mu) = AckMs
      /\ e \in 0 .. SlotMs /\ Gap - Mu \in 0 .. SlotMs
      /\ AckMs \in 0 .. SlotMs /\ 0 \in 0 .. SlotMs /\ 0 \in 0 .. FrameMs /\ Gap - Mu \in 0 .. FrameMs
  <2>1. RxOffset = 2 /\ MsOf(now + Lead) = Mu + 2
    BY <1>1, <1>3, Planned, RadioConstants
  <2>2. e = SlotMs - (Mu + 2) + 2
    BY <1>7, <2>1
  <2> QED
    BY <1>5, <1>6, <2>2
<1>9. Plan(Sigma, e, Gap - Mu)
  BY <1>1, <1>3, <1>7, <1>8, Planned
<1>10. Hears'
  <2>1. ASSUME NEW c \in lone PROVE ~Expected(c)'
    <3>1. Mu = 0
      BY <1>3, <2>1 DEF Begins, Booting
    <3>2. ASSUME NEW type PROVE ~DueOn(type)
      BY <1>5, <3>1, RadioConstants DEF DueOn, Mu, Gap
    <3> QED
      BY <1>2, <1>4, <3>2 DEF Expected, DueOn
  <2> QED
    BY <1>2, <2>1 DEF Hears
<1>11. OneEach'
  BY <1>1, <1>2 DEF OneEach, Apart
<1>12. timer' \in Events => Types'
  BY <1>1, <1>2 DEF Types
<1>13. SUFFICES timer' \in Events /\ TimerOK'
  BY <1>10, <1>11, <1>12
<1>14. NoChannel \in Tuned /\ Channels \subseteq Tuned
  BY DEF Tuned
(* A broadcast. *)
<1>15. ASSUME NEW c \in Wanted("BROADCAST", Sigma), timer' = Event("first", 0, c, NoChannel, 0, e)
       PROVE  timer' \in Events /\ TimerOK'
  <2>1. c \in Channels /\ table[<<c, Sigma>>] = "BROADCAST"
    BY <1>15 DEF Wanted
  <2>2. \A d \in Channels : d # c => table[<<d, Sigma>>] = "NONE"
    BY <1>1, <1>5, <2>1, OneKnown
  <2>3. /\ timer'.name = "first" /\ timer'.in = 0 /\ timer'.first = c /\ timer'.second = NoChannel
        /\ timer'.wkup = e /\ timer' \in Events
    BY <1>8, <1>14, <1>15, <2>1, EventFields
  <2>4. TunesOnce'
    BY <1>2, <1>4, <1>8, <2>1, <2>2, <2>3 DEF TunesOnce, Only, AtMost
  <2> QED
    BY <2>3, <2>4 DEF TimerOK
<1>16. ASSUME Wanted("BROADCAST", Sigma) = {}
       PROVE  radio \in Channels /\ Mu = 0
  <2>1. SUFFICES ASSUME radio \notin Channels PROVE FALSE
    BY <1>1, <1>3, Planned
  <2>2. Sigma = 0 /\ radio = NoChannel
    BY <1>1, <1>3, <2>1, Planned
  <2>3. PICK c \in Channels : <<c, 0>> \in Broadcast
    BY RadioAssumption DEF RadioAssumption
  <2>4. table[<<c, 0>>] = "BROADCAST" /\ c # radio
    BY <1>1, <2>1, <2>3 DEF OneEach
  <2> QED
    BY <1>16, <2>2, <2>3, <2>4 DEF Wanted
(* Data to receive, and perhaps acknowledgements after it. *)
<1>17. ASSUME Wanted("BROADCAST", Sigma) = {}, NEW c \in Wanted("RECEIVE", Sigma),
              \/ SecondChannel(Sigma) = {} /\ timer' = Event("first", 0, c, NoChannel, 0, e)
              \/ \E d \in SecondChannel(Sigma) :
                   timer' = Event("first", 0, c, d, Gap - Mu, e - (Gap - Mu))
       PROVE  timer' \in Events /\ TimerOK'
  <2>1. c \in Channels /\ table[<<c, Sigma>>] = "RECEIVE"
    BY <1>17 DEF Wanted
  <2>2. AtMost("RECEIVE", Sigma, c) /\ NoBroadcast(Sigma)
    BY <1>1, <1>5, <2>1, OneKnown
  <2>3. radio \in Channels /\ Mu = 0
    BY <1>16, <1>17
  <2>4. CASE SecondChannel(Sigma) = {} /\ timer' = Event("first", 0, c, NoChannel, 0, e)
    <3>1. /\ timer'.name = "first" /\ timer'.in = 0 /\ timer'.first = c /\ timer'.second = NoChannel
          /\ timer'.wkup = e /\ timer' \in Events
      BY <1>8, <1>14, <2>1, <2>4, EventFields
    <3>2. \A d \in Channels : table[<<d, Sigma>>] # "SEND"
      BY <2>4 DEF SecondChannel, Sending
    <3>3. TunesOnce'
      BY <1>2, <1>4, <1>8, <2>1, <2>2, <3>1, <3>2 DEF TunesOnce, Only, AtMost, NoBroadcast
    <3> QED
      BY <3>1, <3>3 DEF TimerOK
  <2>5. CASE \E d \in SecondChannel(Sigma) :
               timer' = Event("first", 0, c, d, Gap - Mu, e - (Gap - Mu))
    <3>1. PICK d \in SecondChannel(Sigma) :
            timer' = Event("first", 0, c, d, Gap - Mu, e - (Gap - Mu))
      BY <2>5
    <3>2. d \in Channels /\ table[<<d, Sigma>>] = "SEND"
      BY DEF SecondChannel, Sending
    <3>3. AtMost("SEND", Sigma, d)
      BY <1>1, <1>5, <3>2, OneKnown
    <3>4. timer' = Event("first", 0, c, d, Gap - Mu, AckMs)
      BY <1>8, <3>1
    <3>5. /\ timer'.name = "first" /\ timer'.in = 0 /\ timer'.first = c /\ timer'.second = d
          /\ timer'.change = Gap - Mu /\ timer'.wkup = AckMs /\ timer' \in Events
      BY <1>8, <1>14, <2>1, <3>2, <3>4, EventFields
    <3>6. Gap - Mu = Gap
      BY <1>5, <2>3
    <3>7. TunesTwice'
      BY <1>2, <1>4, <2>1, <2>2, <2>3, <3>2, <3>3, <3>5, <3>6 DEF TunesTwice, Only, AtMost, NoBroadcast
    <3> QED
      BY <3>5, <3>7 DEF TimerOK
  <2> QED
    BY <1>17, <2>4, <2>5
(* Acknowledgements only. *)
<1>18. ASSUME Wanted("BROADCAST", Sigma) = {}, Wanted("RECEIVE", Sigma) = {},
              NEW c \in Wanted("SEND", Sigma),
              timer' = Event("first", Gap - Mu, c, NoChannel, 0, e - (Gap - Mu))
       PROVE  timer' \in Events /\ TimerOK'
  <2>1. c \in Channels /\ table[<<c, Sigma>>] = "SEND"
    BY <1>18 DEF Wanted
  <2>2. AtMost("SEND", Sigma, c) /\ NoBroadcast(Sigma)
    BY <1>1, <1>5, <2>1, OneKnown
  <2>3. radio \in Channels /\ Mu = 0 /\ Mu <= Gap
    BY <1>5, <1>16, <1>18
  <2>4. AtMost("RECEIVE", Sigma, radio)
    BY <1>18 DEF Wanted, Only, AtMost
  <2>5. timer' = Event("first", Gap - Mu, c, NoChannel, 0, AckMs)
    BY <1>8, <1>18
  <2>6. /\ timer'.name = "first" /\ timer'.in = Gap - Mu /\ timer'.first = c
        /\ timer'.second = NoChannel /\ timer'.wkup = AckMs /\ timer' \in Events
    BY <1>8, <1>14, <2>1, <2>5, EventFields
  <2>7. TunesInGap'
    BY <1>2, <1>4, <2>1, <2>2, <2>3, <2>4, <2>6 DEF TunesInGap, Only, AtMost, NoBroadcast
  <2> QED
    BY <2>6, <2>7 DEF TimerOK
(* Nothing to change in this timeslot. *)
<1>19. ASSUME Asks(Sigma) = {},
              \/ Ahead(Sigma) = {} /\ timer' = Start(SlotMs)
              \/ \E d \in Ahead(Sigma) :
                   (\A f \in Ahead(Sigma) : d <= f) /\ timer' = Start(SlotMs * d)
       PROVE  timer' \in Events /\ TimerOK'
  <2>1. Wanted("BROADCAST", Sigma) = {} /\ Wanted("RECEIVE", Sigma) = {} /\ Wanted("SEND", Sigma) = {}
    BY <1>19 DEF Asks
  <2>2. radio \in Channels /\ Mu = 0
    BY <1>16, <2>1
  <2>3. ASSUME NEW s \in Slots, Asks(s) = {}
        PROVE  Settled(s)
    BY <2>3 DEF Asks, Wanted, Settled, Only, AtMost
  <2>4. \E a \in 1 .. NumSlots : /\ timer' = Start(SlotMs * a)
                                 /\ \A f \in 1 .. a - 1 : Settled((Sigma + f) % NumSlots)
    <3>1. CASE Ahead(Sigma) = {} /\ timer' = Start(SlotMs)
      <4>1. SlotMs = SlotMs * 1 /\ 1 \in 1 .. NumSlots /\ 1 .. 1 - 1 = {}
        BY <1>5, <1>6
      <4> QED
        BY <3>1, <4>1
    <3>2. CASE \E d \in Ahead(Sigma) :
                 (\A f \in Ahead(Sigma) : d <= f) /\ timer' = Start(SlotMs * d)
      <4>1. PICK d \in Ahead(Sigma) :
              (\A f \in Ahead(Sigma) : d <= f) /\ timer' = Start(SlotMs * d)
        BY <3>2
      <4>2. d \in 1 .. NumSlots
        BY DEF Ahead
      <4>3. ASSUME NEW f \in 1 .. d - 1 PROVE Settled((Sigma + f) % NumSlots)
        <5>1. f \notin Ahead(Sigma) /\ f \in 1 .. NumSlots
          BY <1>6, <4>1, <4>2
        <5>2. PICK s \in Slots : s = (Sigma + f) % NumSlots
          BY <1>5, <1>6, <5>1
        <5>3. Asks(s) = {}
          BY <5>1, <5>2 DEF Ahead
        <5> QED
          BY <2>3, <5>2, <5>3
      <4> QED
        BY <4>1, <4>2, <4>3
    <3> QED
      BY <1>19, <3>1, <3>2
  <2>5. PICK a \in 1 .. NumSlots : /\ timer' = Start(SlotMs * a)
                                   /\ \A f \in 1 .. a - 1 : Settled((Sigma + f) % NumSlots)
    BY <2>4
  <2>6. PICK in : in = SlotMs * a
    OBVIOUS
  <2>7. in \in 0 .. FrameMs /\ in > 0 /\ 0 + in = a * SlotMs
    <3>1. PICK k \in Nat : NumSlots = a + k
      <4>1. NumSlots - a \in Nat
        BY <1>6
      <4> QED
        BY <1>6, <4>1
    <3>2. PICK b \in Nat : a = b + 1
      <4>1. a - 1 \in Nat
        OBVIOUS
      <4> QED
        BY <4>1
    <3>3. FrameMs = SlotMs * a + SlotMs * k /\ SlotMs * k \in Nat
      BY <1>5, <1>6, <3>1
    <3>4. SlotMs * a = SlotMs * b + SlotMs /\ SlotMs * b \in Nat /\ a * SlotMs = SlotMs * a
      BY <1>5, <3>2
    <3> QED
      BY <1>5, <1>6, <2>6, <3>3, <3>4
  <2>8. timer'.name = "start" /\ timer'.in = in /\ timer' \in Events
    BY <2>5, <2>6, <2>7, StartFields
  <2>9. Mu' + timer'.in = a * SlotMs
    BY <1>4, <2>2, <2>7, <2>8
  <2>10. ASSUME NEW f \in 1 .. a - 1 PROVE Quiet((Sigma + f) % NumSlots)'
    <3>1. Settled((Sigma + f) % NumSlots) /\ ((Sigma + f) % NumSlots)' = (Sigma + f) % NumSlots
      BY <1>4, <2>5
    <3> QED
      BY <1>2, <3>1 DEF Quiet, Settled, Wanted, Only, AtMost
  <2>11. SleepsFor(a)'
    BY <2>9, <2>10 DEF SleepsFor
  <2>12. Settled(Sigma)
    BY <1>5, <1>19, <2>3
  <2>13. Sleeps'
    BY <1>2, <1>4, <2>2, <2>7, <2>8, <2>11, <2>12 DEF Sleeps, Settled, Only, AtMost
  <2> QED
    BY <2>8, <2>13 DEF TimerOK
<1> QED
  BY <1>9, <1>15, <1>17, <1>18, <1>19 DEF Plan
-----------------------------------------------------------------------------
(* The step of the clock *)

LEMMA TickClock ==
  ASSUME Types, now' = (now + 1) % FrameMs
  PROVE  /\ now' \in 0 .. FrameMs - 1
         /\ Mu + 1 < SlotMs => Sigma' = Sigma /\ Mu' = Mu + 1
         /\ Mu + 1 = SlotMs => Sigma' = (Sigma + 1) % NumSlots /\ Mu' = 0
<1>1. /\ Sigma \in Slots /\ Mu \in 0 .. SlotMs - 1 /\ now \in 0 .. FrameMs - 1
      /\ SlotMs \in Nat /\ FrameMs \in Nat \ {0} /\ SlotMs >= 4
  BY ClockNow, RadioConstants
<1>2. now' \in 0 .. FrameMs - 1
  BY <1>1
<1>3. ASSUME Mu + 1 < SlotMs PROVE Sigma' = Sigma /\ Mu' = Mu + 1
  <2>1. PICK a, b : a = 0 /\ b = Mu + 1
    OBVIOUS
  <2>2. b \in 0 .. SlotMs - 1 /\ a \in Nat /\ 1 \in Nat /\ now \in 0 .. FrameMs - 1
    BY <1>1, <1>3, <2>1
  <2>3. MsOf(now) + 1 = a * SlotMs + b
    BY <1>1, <2>1 DEF Mu
  <2>4. SlotOf((now + 1) % FrameMs) = (SlotOf(now) + a) % NumSlots /\ MsOf((now + 1) % FrameMs) = b
    BY <2>2, <2>3, ClockAhead
  <2>5. (Sigma + a) % NumSlots = Sigma
    BY <1>1, <2>1, SlotsRound
  <2> QED
    BY <2>1, <2>4, <2>5 DEF Sigma, Mu
<1>4. ASSUME Mu + 1 = SlotMs PROVE Sigma' = (Sigma + 1) % NumSlots /\ Mu' = 0
  <2>1. 0 \in 0 .. SlotMs - 1 /\ Mu + 1 = 1 * SlotMs + 0 /\ 1 \in Nat
    BY <1>1, <1>4
  <2>2. MsOf(now) + 1 = 1 * SlotMs + 0
    BY <2>1 DEF Mu
  <2>3. SlotOf((now + 1) % FrameMs) = (SlotOf(now) + 1) % NumSlots /\ MsOf((now + 1) % FrameMs) = 0
    BY <1>1, <2>1, <2>2, ClockAhead
  <2> QED
    BY <2>3 DEF Sigma, Mu
<1> QED
  BY <1>2, <1>3, <1>4

LEMMA TickTimer ==
  ASSUME Types, TimerOK, Tick
  PROVE  TimerOK' /\ timer' \in Events
<1>1. /\ timer.in > 0 /\ now' = (now + 1) % FrameMs /\ timer' = [timer EXCEPT !.in = @ - 1]
      /\ UNCHANGED <<table, radio, added, changes>>
  BY DEF Tick
<1>2. Sigma \in Slots /\ Mu \in 0 .. SlotMs - 1 /\ Gap \in 1 .. SlotMs - 1
      /\ Gap + AckMs = SlotMs /\ AckMs \in Nat \ {0} /\ SlotMs \in Nat /\ Gap' = Gap
  BY ClockNow, RadioConstants DEF Gap
<1>3. NumSlots \in Nat \ {0} /\ FrameMs \in Nat /\ Slots = 0 .. NumSlots - 1
  BY RadioConstants DEF Slots
<1>4. /\ timer \in Events /\ timer.in \in 0 .. FrameMs
      /\ timer'.in = timer.in - 1 /\ timer'.name = timer.name /\ timer'.first = timer.first
      /\ timer'.second = timer.second /\ timer'.wkup = timer.wkup
  BY <1>1 DEF Types, Events
<1>5. timer' \in Events
  <2>1. PICK i : i = timer.in - 1
    OBVIOUS
  <2>2. i \in 0 .. FrameMs
    BY <1>1, <1>3, <1>4, <2>1
  <2> QED
    BY <1>1, <1>4, <2>1, <2>2 DEF Events
<1>6. Sleeps \/ TunesInGap
  BY <1>1 DEF TimerOK, Looks, TunesOnce, TunesTwice
<1>7. CASE Sleeps
  <2>1. PICK a \in 1 .. NumSlots : SleepsFor(a)
    BY <1>7 DEF Sleeps
  <2>2. Mu + timer.in = a * SlotMs /\ \A e \in 1 .. a - 1 : Quiet((Sigma + e) % NumSlots)
    BY <2>1 DEF SleepsFor
  <2>3. PICK b \in Nat : a = b + 1
    <3>1. a - 1 \in Nat
      OBVIOUS
    <3> QED
      BY <3>1
  <2>4. a * SlotMs = b * SlotMs + SlotMs /\ b * SlotMs \in Nat
    BY <1>2, <2>3
  <2>5. CASE Mu + 1 < SlotMs
    <3>1. Sigma' = Sigma /\ Mu' = Mu + 1
      BY <1>1, <2>5, TickClock
    <3>2. timer'.in > 0 /\ Mu' + timer'.in = a * SlotMs /\ (Mu' < Gap => Mu < Gap)
      BY <1>2, <1>4, <2>2, <2>4, <2>5, <3>1
    <3>3. ASSUME NEW e \in 1 .. a - 1 PROVE Quiet((Sigma + e) % NumSlots)'
      <4>1. Quiet((Sigma + e) % NumSlots) /\ ((Sigma + e) % NumSlots)' = (Sigma + e) % NumSlots
        BY <2>2, <3>1
      <4> QED
        BY <1>1, <4>1 DEF Quiet, Only
    <3>4. SleepsFor(a)'
      BY <3>2, <3>3 DEF SleepsFor
    <3>5. Sleeps'
      BY <1>1, <1>2, <1>4, <1>7, <3>1, <3>2, <3>4 DEF Sleeps, Only
    <3> QED
      BY <1>5, <3>5 DEF TimerOK
  <2>6. CASE Mu + 1 = SlotMs /\ a = 1
    <3>1. Mu' = 0
      BY <1>1, <2>6, TickClock
    <3>2. timer'.in = 0
      <4>1. b = 0 /\ a * SlotMs = SlotMs
        BY <1>2, <2>3, <2>6
      <4>2. Mu + timer.in = Mu + 1
        BY <2>2, <2>6, <4>1
      <4> QED
        BY <1>2, <1>4, <4>2
    <3>3. Looks'
      BY <1>1, <1>4, <1>7, <3>1, <3>2 DEF Looks, Begins, Sleeps
    <3> QED
      BY <1>5, <3>3 DEF TimerOK
  <2>7. CASE Mu + 1 = SlotMs /\ a # 1
    <3>1. Sigma' = (Sigma + 1) % NumSlots /\ Mu' = 0
      BY <1>1, <2>7, TickClock
    <3>2. Sigma' \in Slots /\ Sigma \in Nat
      BY <1>2, <1>3, <3>1
    <3>3. b \in 1 .. NumSlots /\ 1 \in 1 .. a - 1 /\ b # 0
      BY <1>3, <2>3, <2>7
    <3>4. Mu' + timer'.in = b * SlotMs
      BY <1>2, <1>4, <2>2, <2>4, <2>7, <3>1
    <3>5. timer'.in > 0
      <4>1. PICK d \in Nat : b = d + 1
        <5>1. b - 1 \in Nat
          BY <3>3
        <5> QED
          BY <5>1
      <4>2. b * SlotMs = d * SlotMs + SlotMs /\ d * SlotMs \in Nat
        BY <1>2, <4>1
      <4> QED
        BY <1>2, <1>4, <3>1, <3>4, <4>2
    <3>6. ASSUME NEW e \in 1 .. b - 1 PROVE Quiet((Sigma + e) % NumSlots)'
      <4>1. e + 1 \in 1 .. a - 1 /\ e \in Nat
        BY <2>3
      <4>2. PICK s : s = (Sigma + (e + 1)) % NumSlots
        OBVIOUS
      <4>3. Quiet(s)
        BY <2>2, <4>1, <4>2
      <4>4. (((Sigma + 1) % NumSlots) + e) % NumSlots = s
        BY <1>2, <4>1, <4>2, SlotsRound
      <4>5. ((Sigma + e) % NumSlots)' = s
        BY <3>1, <4>4
      <4> QED
        BY <1>1, <4>3, <4>5 DEF Quiet, Only
    <3>7. SleepsFor(b)'
      BY <3>4, <3>6 DEF SleepsFor
    <3>8. PICK s : s = (Sigma + 1) % NumSlots
      OBVIOUS
    <3>9. Quiet(s) /\ Sigma' = s
      BY <2>2, <3>1, <3>3, <3>8
    <3>10. Sleeps'
      BY <1>1, <1>4, <1>7, <3>3, <3>5, <3>7, <3>9 DEF Sleeps, Quiet, Only
    <3> QED
      BY <1>5, <3>10 DEF TimerOK
  <2>8. Mu + 1 < SlotMs \/ Mu + 1 = SlotMs
    BY <1>2
  <2> QED
    BY <2>5, <2>6, <2>7, <2>8
<1>8. CASE TunesInGap
  <2>1. timer.in = Gap - Mu /\ Mu < Gap /\ Mu + 1 < SlotMs /\ Mu + 1 <= Gap
    BY <1>1, <1>2, <1>8 DEF TunesInGap
  <2>2. Sigma' = Sigma /\ Mu' = Mu + 1
    BY <1>1, <2>1, TickClock
  <2>3. timer'.in = Gap - Mu' /\ Mu' <= Gap
    BY <1>2, <1>4, <2>1, <2>2
  <2>4. Only("RECEIVE", Sigma, radio) /\ Only("SEND", Sigma, timer.first) /\ NoBroadcast(Sigma)
    BY <1>8, <2>1 DEF TunesInGap
  <2>5. TunesInGap'
    BY <1>1, <1>2, <1>4, <1>8, <2>2, <2>3, <2>4 DEF TunesInGap, Only, NoBroadcast
  <2> QED
    BY <1>5, <2>5 DEF TimerOK
<1> QED
  BY <1>6, <1>7, <1>8

LEMMA TickOK ==
  ASSUME RadioInv, Tick
  PROVE  Types' /\ OneEach' /\ TimerOK' /\ Hears'
<1>1. Types /\ OneEach /\ TimerOK /\ queue \in Seq(Frame) /\ Ordered(queue)
  BY DEF RadioInv, Inv
<1>2. /\ UNCHANGED <<table, radio, added, changes>> /\ queue' = Closer(queue)
      /\ ~SendDue(queue) /\ now' = (now + 1) % FrameMs
      /\ lone' = {c \in Channels : \E i \in OnAirNext(c) : OnAirNext(c) = {i} /\ queue[i].mine}
  BY DEF Tick
<1>3. TimerOK' /\ timer' \in Events
  BY <1>1, TickTimer
<1>4. Types'
  BY <1>1, <1>2, <1>3, TickClock DEF Types
<1>5. OneEach'
  BY <1>1, <1>2 DEF OneEach, Apart
<1>6. /\ DOMAIN queue' = DOMAIN queue
      /\ \A i \in DOMAIN queue : /\ queue'[i].wait = queue[i].wait - 1
                                 /\ queue'[i].channel = queue[i].channel
                                 /\ queue'[i].mine = queue[i].mine
  BY <1>1, <1>2, CloserOrdered
<1>7. \A i \in DOMAIN queue : queue[i].wait \in 0 .. Lead
  BY <1>1, FrameFields
<1>8. ASSUME NEW c \in lone' PROVE Pending(c)'
  <2>1. PICK i \in OnAirNext(c) : OnAirNext(c) = {i} /\ queue[i].mine
    BY <1>2
  <2>2. OnAirNow(c)' = OnAirNext(c)
    BY <1>6, <1>7 DEF OnAirNow, OnAirNext, Lead
  <2>3. i \in DOMAIN queue
    BY <2>1 DEF OnAirNext
  <2> QED
    BY <1>6, <2>1, <2>2, <2>3 DEF Pending
<1>9. Hears'
  BY <1>8 DEF Hears
<1> QED
  BY <1>3, <1>4, <1>5, <1>9

-----------------------------------------------------------------------------
(* Of the specification *)

LEMMA RadioInit == Init => RadioInv
<1> SUFFICES ASSUME Init PROVE RadioInv
  OBVIOUS
<1>1. /\ now = 1 /\ radio = NoChannel /\ timer = Start(0) /\ lone = {} /\ added = {} /\ changes = 0
      /\ table = [c \in Cell |-> IF c \in Broadcast THEN "BROADCAST" ELSE "NONE"]
  BY DEF Init
<1>2. Inv
  BY InitInv
<1>3. 0 \in 0 .. FrameMs /\ 1 \in 0 .. FrameMs - 1 /\ 0 \in 0 .. MaxChanges /\ NoChannel \in Tuned
  BY RadioConstants DEF Tuned
<1>4. timer.name = "start" /\ timer.in = 0 /\ timer \in Events
  BY <1>1, <1>3, StartFields
<1>5. Types
  BY <1>1, <1>3, <1>4 DEF Types
<1>6. OneEach
  <2>1. ASSUME NEW s \in Slots, NEW c \in Channels, NEW d \in Channels, c # d PROVE Apart(c, d, s)
    <3>1. <<c, s>> \in Cell /\ <<d, s>> \in Cell
      BY DEF Cell
    <3>2. <<c, s>> \in Broadcast /\ <<d, s>> \in Broadcast => c = d
      BY RadioAssumption DEF RadioAssumption
    <3> QED
      BY <1>1, <2>1, <3>1, <3>2 DEF Apart
  <2>2. \A cell \in Broadcast : table[cell] = "BROADCAST"
    BY <1>1, RadioAssumption DEF RadioAssumption
  <2> QED
    BY <2>1, <2>2 DEF OneEach
<1>7. TimerOK
  BY <1>1, <1>4 DEF TimerOK, Looks, Begins, Booting
<1>8. Hears
  BY <1>1 DEF Hears
<1> QED
  BY <1>2, <1>5, <1>6, <1>7, <1>8 DEF RadioInv

LEMMA RadioStutters ==
  ASSUME RadioInv, UNCHANGED vars
  PROVE  Types' /\ OneEach' /\ TimerOK' /\ Hears'
<1>1. UNCHANGED <<now, table, radio, timer, queue, added, lone, heard, changes>>
  BY DEF vars
<1> QED
  BY <1>1, StillOK, TuneHears DEF RadioInv

LEMMA RadioNext == RadioInv /\ [Next]_vars => RadioInv'
<1> SUFFICES ASSUME RadioInv, [Next]_vars PROVE RadioInv'
  OBVIOUS
<1>1. Inv'
  BY NextInv DEF RadioInv
<1>2. Types' /\ OneEach' /\ TimerOK' /\ Hears'
  <2>1. CASE RxStart
    BY <2>1, RxStartOK
  <2>2. CASE RxFirst
    BY <2>2, RxFirstOK
  <2>3. CASE RxSecond
    BY <2>3, RxSecondOK
  <2>4. CASE \E c \in Channels, s \in Slots, type \in {"RECEIVE", "SEND"} : TableAdd(c, s, type)
    BY <2>4, TableAddOK
  <2>5. CASE \E cell \in Cell : TableRemove(cell)
    BY <2>5, TableRemoveOK
  <2>6. CASE \E c \in Channels, mine \in BOOLEAN : Transmit(c, mine)
    BY <2>6, TransmitOK
  <2>7. CASE Send
    BY <2>7, SendOK
  <2>8. CASE Tick
    BY <2>8, TickOK
  <2>9. CASE UNCHANGED vars
    BY <2>9, RadioStutters
  <2> QED
    BY <2>1, <2>2, <2>3, <2>4, <2>5, <2>6, <2>7, <2>8, <2>9 DEF Next
<1> QED
  BY <1>1, <1>2 DEF RadioInv

LEMMA RadioAlways == Spec => []RadioInv
BY RadioInit, RadioNext, PTL DEF Spec

(* Every variable has its type, and the pending event is in its time: no     *)
(* change and no wake-up lies in the past, and the station looks at its      *)
(* table at the first ms of a timeslot and once a superframe at least.       *)
THEOREM RadioTypeCorrect == Spec => []RadioTypeOK
<1>1. ASSUME RadioInv PROVE RadioTypeOK
  <2>1. Types /\ TimerOK /\ queue \in Seq(Frame) /\ Ordered(queue) /\ heard \subseteq lone
    BY <1>1 DEF RadioInv, Inv, OnlyLoneFramesHeard
  <2>2. /\ timer.name \in {"start", "first", "second"} /\ timer.in \in 0 .. FrameMs
        /\ timer.change \in 0 .. SlotMs /\ timer.wkup \in 0 .. SlotMs
        /\ timer.first \in Tuned /\ timer.second \in Tuned
    BY <2>1 DEF Types, Events
  <2>3. \A i \in DOMAIN queue : queue[i].wait \in 0 .. Lead /\ queue[i].channel \in Channels
    BY <2>1, FrameFields
  <2>4. ASSUME radio # NoChannel, timer.name = "start" PROVE MsOf(now + timer.in) = 0
    <3>1. now \in 0 .. FrameMs - 1 /\ SlotMs \in Nat /\ 0 \in 0 .. SlotMs - 1
      BY <2>1, ClockNow, RadioConstants
    <3>2. Looks \/ Sleeps
      BY <2>1, <2>4 DEF TimerOK, TunesOnce, TunesTwice, TunesInGap
    <3>3. CASE Looks
      <4>1. timer.in = 0 /\ Mu = 0 /\ now + 0 = now
        BY <2>4, <3>1, <3>3 DEF Looks, Begins, Booting
      <4> QED
        BY <4>1 DEF Mu
    <3>4. CASE Sleeps
      <4>1. PICK a \in 1 .. NumSlots : Mu + timer.in = a * SlotMs
        BY <3>4 DEF Sleeps, SleepsFor
      <4>2. PICK k : k = timer.in
        OBVIOUS
      <4>3. a * SlotMs \in Nat /\ a \in Nat /\ k \in Nat
        BY <2>2, <3>1, <4>2
      <4>4. MsOf(now) + k = a * SlotMs + 0
        BY <4>1, <4>2, <4>3 DEF Mu
      <4> QED
        BY <3>1, <4>2, <4>3, <4>4, ClockAhead
    <3> QED
      BY <3>2, <3>3, <3>4
  <2> QED
    BY <2>1, <2>2, <2>3, <2>4 DEF RadioTypeOK, Types, Tuned
<1> QED
  BY <1>1, RadioAlways, PTL

(* A cell that was in the table when the station last looked is listened to  *)
(* in its time, for every table, every placing of the broadcasts and every   *)
(* length of the timeslot that leaves room for data: a frame that is alone   *)
(* on such a cell is heard.                                                  *)
THEOREM KnownCellsHeardHolds == Spec => []KnownCellsHeard
<1>1. ASSUME RadioInv PROVE KnownCellsHeard
  <2>1. Types /\ Hears /\ queue \in Seq(Frame) /\ Ordered(queue)
    BY <1>1 DEF RadioInv, Inv
  <2>2. SUFFICES ASSUME ~SendDue(queue), NEW c \in lone,
                        DueOn(table[<<c, SlotOf(now)>>]), <<c, SlotOf(now)>> \notin added
                 PROVE  c \in heard
    BY Zenon DEF KnownCellsHeard
  <2>3. Expected(c)
    BY <2>2 DEF Expected, Sigma
  <2>4. SUFFICES ASSUME Pending(c) PROVE FALSE
    BY <2>1, <2>3 DEF Hears
  <2>5. PICK i \in DOMAIN queue : queue[i].wait = 0
    BY <2>4 DEF Pending, OnAirNow
  <2>6. \A j \in DOMAIN queue : queue[j].wait \in 0 .. Lead
    BY <2>1, FrameFields
  <2>7. 1 \in DOMAIN queue /\ (i = 1 \/ 1 < i)
    BY <2>1, <2>5
  <2>8. queue[1].wait = 0
    BY <2>1, <2>5, <2>6, <2>7 DEF Ordered, Lead
  <2> QED
    BY <2>2, <2>7, <2>8 DEF SendDue
<1> QED
  BY <1>1, RadioAlways, PTL
=============================================================================
