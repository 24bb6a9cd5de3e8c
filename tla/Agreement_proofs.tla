-------------------------- MODULE Agreement_proofs --------------------------
(***************************************************************************)
(* Proofs about SlotProtocol, second part: on a radio that loses nothing   *)
(* and is in time, the table of a MAC and the grid of its slot selection   *)
(* agree between the instants.                                             *)
(*                                                                         *)
(* First the order of the messages within an instant (InstantInv), which   *)
(* holds on any radio.  Then the exchange that one station begins with     *)
(* another (ExchangeInv): its offer, the selection and the result are      *)
(* under way in one place at a time.  Then what the messages on a bus say  *)
(* of the cells in which table and grid differ (TablesInv).                *)
(***************************************************************************)
EXTENDS SlotProtocol_proofs

-----------------------------------------------------------------------------
(* The messages of a bus as a set, and what may be said of their order *)

Rest(b)    == {b[i] : i \in DOMAIN b \ {1}}
Sent(m, ms) == IF ms = <<m>> THEN {m} ELSE {}

(* At most one element of b is in S; those in S come before those in T. *)
Once(b, S)       == \A i, j \in DOMAIN b : b[i] \in S /\ b[j] \in S => i = j
Ordered(b, S, T) == \A i, j \in DOMAIN b : b[i] \in S /\ b[j] \in T => i < j

(* The set of messages when the head is handled, and when one is added. *)
HeadHandled(b, h, m, ms, c) ==
  Range(b) = {h} \cup Rest(b) /\ Range(c) = Rest(b) \cup Sent(m, ms)
OneAdded(b, m, ms, c) == Range(c) = Range(b) \cup Sent(m, ms)

LEMMA HeadRest ==
  ASSUME NEW b, IsSeq(b), b # <<>>, NEW h, h = Head(b),
         NEW m, NEW ms \in {<<>>, <<m>>}, NEW c, c = Tail(b) \o ms
  PROVE  HeadHandled(b, h, m, ms, c)
<1>1. TailShape(b, m, ms, c)
  BY TailPlus, Zenon
<1>2. Range(b) = {h} \cup Rest(b)
  BY <1>1 DEF TailShape, Range, Rest
<1>3. ASSUME NEW x \in Range(c) PROVE x \in Rest(b) \cup Sent(m, ms)
  <2>1. PICK j \in DOMAIN c : x = c[j]
    BY DEF Range
  <2>2. CASE j + 1 \in DOMAIN b /\ j + 1 # 1 /\ c[j] = b[j + 1]
    BY <2>1, <2>2 DEF Rest
  <2>3. CASE ms = <<m>> /\ c[j] = m
    BY <2>1, <2>3 DEF Sent
  <2> QED
    BY <1>1, <2>2, <2>3 DEF TailShape
<1>4. ASSUME NEW x \in Rest(b) PROVE x \in Range(c)
  <2>1. PICK i \in DOMAIN b : i # 1 /\ x = b[i]
    BY DEF Rest
  <2>2. i - 1 \in DOMAIN c /\ c[i - 1] = b[i]
    BY <1>1, <2>1 DEF TailShape
  <2> QED
    BY <2>1, <2>2 DEF Range
<1>5. ASSUME NEW x \in Sent(m, ms) PROVE x \in Range(c)
  <2>1. ms = <<m>> /\ x = m
    BY DEF Sent
  <2> QED
    BY <1>1, <2>1 DEF TailShape, Range
<1> QED
  BY <1>2, <1>3, <1>4, <1>5 DEF HeadHandled

LEMMA OnceHead ==
  ASSUME NEW b, IsSeq(b), b # <<>>, NEW S, Once(b, S), Head(b) \in S
  PROVE  Rest(b) \cap S = {}
<1>1. PICK m, ms, c : m = 0 /\ ms = <<>> /\ c = Tail(b) \o ms
  OBVIOUS
<1>2. TailShape(b, m, ms, c)
  BY <1>1, TailPlus
<1>3. 1 \in DOMAIN b /\ Head(b) = b[1]
  BY <1>2 DEF TailShape
<1> QED
  BY <1>3 DEF Once, Rest

LEMMA OnceTail ==
  ASSUME NEW b, IsSeq(b), b # <<>>, NEW m, NEW ms \in {<<>>, <<m>>}, NEW c, c = Tail(b) \o ms,
         NEW S, Once(b, S), ms = <<m>> /\ m \in S => Rest(b) \cap S = {}
  PROVE  Once(c, S)
<1>1. TailShape(b, m, ms, c)
  BY TailPlus, Zenon
<1> SUFFICES ASSUME NEW i \in DOMAIN c, NEW j \in DOMAIN c, c[i] \in S, c[j] \in S PROVE i = j
  BY DEF Once
<1>2. /\ \/ i + 1 \in DOMAIN b /\ i + 1 # 1 /\ c[i] = b[i + 1]
         \/ i = Len(b) /\ ms = <<m>> /\ c[i] = m
      /\ \/ j + 1 \in DOMAIN b /\ j + 1 # 1 /\ c[j] = b[j + 1]
         \/ j = Len(b) /\ ms = <<m>> /\ c[j] = m
      /\ i \in Nat /\ j \in Nat
  BY <1>1 DEF TailShape
<1>3. CASE i + 1 \in DOMAIN b /\ c[i] = b[i + 1] /\ j + 1 \in DOMAIN b /\ c[j] = b[j + 1]
  <2>1. i + 1 = j + 1
    BY <1>3 DEF Once
  <2> QED
    BY <1>2, <2>1
<1>4. CASE i = Len(b) /\ j = Len(b)
  BY <1>4
<1>5. CASE \/ i + 1 \in DOMAIN b /\ i + 1 # 1 /\ c[i] = b[i + 1] /\ ms = <<m>> /\ c[j] = m
           \/ j + 1 \in DOMAIN b /\ j + 1 # 1 /\ c[j] = b[j + 1] /\ ms = <<m>> /\ c[i] = m
  BY <1>5 DEF Rest
<1> QED
  BY <1>2, <1>3, <1>4, <1>5

LEMMA OrderedHead ==
  ASSUME NEW b, IsSeq(b), b # <<>>, NEW S, NEW T, Ordered(b, S, T), Head(b) \in T
  PROVE  Range(b) \cap S = {}
<1>1. PICK m, ms, c : m = 0 /\ ms = <<>> /\ c = Tail(b) \o ms
  OBVIOUS
<1>2. TailShape(b, m, ms, c)
  BY <1>1, TailPlus
<1>3. 1 \in DOMAIN b /\ Head(b) = b[1]
  BY <1>2 DEF TailShape
<1>4. \A i \in DOMAIN b : i \in Nat \ {0}
  BY DEF IsSeq
<1> QED
  BY <1>3, <1>4 DEF Ordered, Range

LEMMA OrderedTail ==
  ASSUME NEW b, IsSeq(b), b # <<>>, NEW m, NEW ms \in {<<>>, <<m>>}, NEW c, c = Tail(b) \o ms,
         NEW S, NEW T, Ordered(b, S, T), ms = <<m>> => m \notin S
  PROVE  Ordered(c, S, T)
<1>1. TailShape(b, m, ms, c)
  BY TailPlus, Zenon
<1>2. \A i \in DOMAIN b : i \in Nat /\ i <= Len(b) /\ Len(b) \in Nat
  BY DEF IsSeq
<1> SUFFICES ASSUME NEW i \in DOMAIN c, NEW j \in DOMAIN c, c[i] \in S, c[j] \in T PROVE i < j
  BY DEF Ordered
<1>3. /\ i + 1 \in DOMAIN b /\ c[i] = b[i + 1]
      /\ \/ j + 1 \in DOMAIN b /\ j + 1 # 1 /\ c[j] = b[j + 1]
         \/ j = Len(b) /\ ms = <<m>> /\ c[j] = m
      /\ i \in Nat /\ j \in Nat
  BY <1>1 DEF TailShape
<1>4. CASE j + 1 \in DOMAIN b /\ c[j] = b[j + 1]
  <2>1. i + 1 < j + 1
    BY <1>3, <1>4 DEF Ordered
  <2> QED
    BY <1>3, <2>1
<1>5. CASE j = Len(b)
  BY <1>2, <1>3, <1>5
<1> QED
  BY <1>3, <1>4, <1>5

(* The same for a message that is added. *)
LEMMA AddedRange ==
  ASSUME NEW b, IsSeq(b), NEW m, NEW ms \in {<<>>, <<m>>}, NEW c, c = b \o ms
  PROVE  OneAdded(b, m, ms, c)
<1>1. PlusShape(b, m, ms, c)
  BY Plus, Zenon
<1>2. ASSUME NEW x \in Range(c) PROVE x \in Range(b) \cup Sent(m, ms)
  BY <1>1 DEF PlusShape, Range, Sent
<1>3. ASSUME NEW x \in Range(b) PROVE x \in Range(c)
  BY <1>1 DEF PlusShape, Range
<1>4. ASSUME ms = <<m>> PROVE m \in Range(c)
  <2>1. PICK S : b \in Seq(S)
    BY DEF IsSeq
  <2>2. PICK T : T = S \cup {m}
    OBVIOUS
  <2>3. b \in Seq(T) /\ Len(b) \in Nat
    <3>1. b \in [1 .. Len(b) -> S] /\ Len(b) \in Nat
      BY <2>1
    <3>2. b \in [1 .. Len(b) -> T]
      BY <2>2, <3>1
    <3> QED
      BY <2>1, <2>2, <3>1
  <2>4. <<m>> \in Seq(T) /\ Len(<<m>>) = 1 /\ <<m>>[1] = m
    BY <2>2
  <2>5. Len(c) = Len(b) + 1 /\ c[Len(b) + 1] = m /\ c \in Seq(T)
    BY <1>4, <2>3, <2>4
  <2> QED
    BY <2>3, <2>5 DEF Range
<1> QED
  BY <1>2, <1>3, <1>4 DEF Sent, OneAdded

LEMMA AddedOnce ==
  ASSUME NEW b, IsSeq(b), NEW m, NEW ms \in {<<>>, <<m>>}, NEW c, c = b \o ms,
         NEW S, Once(b, S), ms = <<m>> /\ m \in S => Range(b) \cap S = {}
  PROVE  Once(c, S)
<1>1. PlusShape(b, m, ms, c)
  BY Plus, Zenon
<1> SUFFICES ASSUME NEW i \in DOMAIN c, NEW j \in DOMAIN c, c[i] \in S, c[j] \in S PROVE i = j
  BY DEF Once
<1> QED
  BY <1>1 DEF PlusShape, Once, Range

LEMMA AddedOrdered ==
  ASSUME NEW b, IsSeq(b), NEW m, NEW ms \in {<<>>, <<m>>}, NEW c, c = b \o ms,
         NEW S, NEW T, Ordered(b, S, T),
         ms = <<m>> /\ m \in S => Range(b) \cap T = {} /\ m \notin T
  PROVE  Ordered(c, S, T)
<1>1. PlusShape(b, m, ms, c)
  BY Plus, Zenon
<1>2. \A i \in DOMAIN b : i \in Nat /\ i < Len(b) + 1 /\ Len(b) \in Nat
  BY DEF IsSeq
<1> SUFFICES ASSUME NEW i \in DOMAIN c, NEW j \in DOMAIN c, c[i] \in S, c[j] \in T PROVE i < j
  BY DEF Ordered
<1> QED
  BY <1>1, <1>2 DEF PlusShape, Ordered, Range

-----------------------------------------------------------------------------
(* What follows what in an instant *)

(* The AI is asked to remove a cell of its own; the MAC has done so. *)
RemovalAsked(x)    == x.to = "MAC" /\ x.type = "SET_REMOVAL"
RemovalReported(x) == x.to = "AI" /\ x.type = "SETR"

(* What a packet brings and what comes of it; of that, what the MAC asks for a *)
(* packet and how the slot selection answers; what a timer of the MAC asks.    *)
Derived == {x \in Message :
  \/ x.to = "MAC" /\ x.type \in {"RECEIVE", "GETR_SELECTED"}
  \/ x.to = "MAC" /\ x.type = "SETR" /\ x.id # 0
  \/ x.to = "AI" /\ x.type \in {"GET_SELECTED", "SET_ALLOCATION", "SET_REMOVAL"}}
Started  == {x \in Message : x.to = "AI" /\ x.type \in {"SET_ALLOCATION", "SET_REMOVAL"}}
Answered == {x \in Message : x.to = "MAC" /\ x.type = "SETR" /\ x.id # 0}
Early    == {x \in Message : x.to = "AI" /\ x.type \in {"GET_PROPOSED", "STATS"}}

Marking(id) == {x \in Message : (RemovalAsked(x) \/ RemovalReported(x)) /\ x.id = id}

(* The message m that the handler of h sends, if it sends one. *)
Causes(h, m) ==
  \/ /\ h.to = "AI" /\ h.type \in {"SET_BC_SLOTS", "SET_ALLOCATION", "SET_REMOVAL"}
     /\ m.to = "MAC" /\ m.type = "SETR" /\ m.id = h.id
  \/ /\ h.to = "AI" /\ h.type = "GET_PROPOSED"
     /\ m.to = "MAC" /\ m.type = "GETR_PROPOSED" /\ m.mac = h.mac
  \/ /\ h.to = "AI" /\ h.type = "GET_SELECTED"
     /\ m.to = "MAC" /\ m.type = "GETR_SELECTED" /\ m.mac = h.mac
     /\ m.slot \in h.slots \cup {NoSlot}
  \/ h.to = "AI" /\ h.type = "STATS" /\ RemovalAsked(m)
  \/ RemovalAsked(h) /\ RemovalReported(m) /\ m.id = h.id
  \/ /\ h.to = "MAC" /\ h.type = "GETR_SELECTED" /\ h.slot # NoSlot
     /\ m.to = "AI" /\ m.type = "SET_ALLOCATION" /\ m.mode = "RX"
     /\ m.mac = h.mac /\ m.slot = h.slot
  \/ /\ h.to = "MAC" /\ h.type = "RECEIVE" /\ m.to = "AI"
     /\ \/ /\ h.packet.type = "ADD_SLOT" /\ m.type = "GET_SELECTED"
           /\ m.mac = h.src /\ m.slots = h.packet.slots
        \/ /\ h.packet.type = "RESULT" /\ m.type = "SET_ALLOCATION" /\ m.mode = "TX"
           /\ m.mac = h.src /\ m.slot \in h.packet.slots
        \/ /\ h.packet.type = "DELETE" /\ m.type = "SET_REMOVAL"
           /\ m.mac = h.src /\ m.slot \in h.packet.slots
        \/ m.type \in {"SET_EXTERNAL_USED", "SET_EXTERNAL_FREE"}

(* What a tick puts on a bus. *)
Arrives(m) == \/ m.to = "AI" /\ m.type \in {"GET_PROPOSED", "STATS"}
              \/ RemovalAsked(m)
              \/ m.to = "MAC" /\ m.type = "RECEIVE"

(* What may wait on a bus between the instants. *)
Rests(b) == \A x \in Range(b) : Arrives(x) \/ x.type = "SET_BC_SLOTS"

Vowed(p, x) ==
  /\ x.to = "AI" /\ x.type = "SET_ALLOCATION"
     => p[x.id] = [set |-> "ALLOCATION", mode |-> x.mode, mac |-> x.mac, slot |-> x.slot]
  /\ x.to = "AI" /\ x.type = "SET_REMOVAL"
     => p[x.id] = [set |-> "REMOVAL", mac |-> x.mac, slot |-> x.slot]
OldId(x, k) == RemovalAsked(x) \/ RemovalReported(x) => x.id \in Nat \ {0} /\ x.id < k
ZeroKept(p) == 0 \in DOMAIN p => p[0].set = "BC_SLOTS"

(* The messages of one packet follow each other one at a time, and nothing    *)
(* that the MAC's timers ask for comes after what the packet makes it set.    *)
InOrder(b) == /\ Once(b, Derived) /\ Ordered(b, Early, Started)
              /\ Range(b) \cap Answered # {} => Range(b) \cap Early = {}
              /\ \A id : Once(b, Marking(id))
Accounted(b, p, k, R) ==
  /\ \A x \in Range(b) : Vowed(p, x) /\ OldId(x, k)
  /\ ZeroKept(p)
  /\ k \in Nat /\ k >= 1 /\ \A id \in R : id \in Nat /\ id < k

InstantInv ==
  \A n \in Node : /\ InOrder(bus[n])
                  /\ Accounted(bus[n], procedures[n], nextId[n], removals[n])
                  /\ draining[n] = FALSE => Rests(bus[n])

LEMMA MessageSeq ==
  ASSUME NEW b \in Seq(Message)
  PROVE  IsSeq(b) /\ Range(b) \subseteq Message /\ (b # <<>> => Head(b) \in Message)
<1>1. IsSeq(b)
  BY DEF IsSeq
<1>2. Range(b) \subseteq Message
  BY DEF Range
<1> QED
  BY <1>1, <1>2, HeadTail

LEMMA HandledInOrder ==
  ASSUME NEW b, IsSeq(b), b # <<>>, InOrder(b), NEW h, h = Head(b), h \in Message,
         NEW m, NEW ms \in {<<>>, <<m>>}, NEW c, c = Tail(b) \o ms,
         NEW k \in Nat, \A x \in Range(b) : OldId(x, k),
         ms = <<m>> => Causes(h, m) /\ m \in Message,
         ms = <<m>> /\ RemovalAsked(m) => m.id = k
  PROVE  InOrder(c)
<1>1. Range(b) = {h} \cup Rest(b) /\ Range(c) = Rest(b) \cup Sent(m, ms)
  <2>1. HeadHandled(b, h, m, ms, c)
    BY HeadRest, Zenon
  <2> QED
    BY <2>1 DEF HeadHandled
<1>2. ASSUME ms = <<m>>
      PROVE  /\ m \in Derived => h \in Derived
             /\ m \notin Early
             /\ m \in Answered => h \in Started
             /\ RemovalReported(m) => RemovalAsked(h) /\ m.id = h.id
  <2>1. h.type = "SET_BC_SLOTS" /\ h.to = "AI" => h.id = 0
    BY RadioMessageAssumption
       DEF Message, ToAI, ToMac, MacRequest, GetProposed, GetSelected, SetAllocation, SetRemoval,
           SetExternalUsed, SetExternalFree, RemovalDone, Stats, SetBcSlots
  <2> QED
    BY <1>2, <2>1 DEF Causes, Derived, Early, Answered, Started, RemovalReported, RemovalAsked
<1>3. Once(c, Derived)
  <2>1. ms = <<m>> /\ m \in Derived => Rest(b) \cap Derived = {}
    BY <1>2, OnceHead DEF InOrder
  <2> QED
    BY <2>1, OnceTail DEF InOrder
<1>4. Ordered(c, Early, Started)
  BY <1>2, OrderedTail DEF InOrder
<1>5. Range(c) \cap Answered # {} => Range(c) \cap Early = {}
  <2>1. CASE ms = <<m>> /\ m \in Answered
    <3>1. Range(b) \cap Early = {}
      BY <1>2, <2>1, OrderedHead DEF InOrder
    <3> QED
      BY <1>1, <1>2, <2>1, <3>1 DEF Sent
  <2>2. CASE ~(ms = <<m>> /\ m \in Answered)
    BY <1>1, <1>2, <2>2 DEF Sent, InOrder
  <2> QED
    BY <2>1, <2>2
<1>6. ASSUME NEW id PROVE Once(c, Marking(id))
  <2>1. Once(b, Marking(id))
    BY DEF InOrder
  <2>2. ASSUME ms = <<m>>, m \in Marking(id) PROVE Rest(b) \cap Marking(id) = {}
    <3>1. CASE RemovalAsked(m)
      BY <1>1, <2>2, <3>1 DEF Marking, OldId
    <3>2. CASE RemovalReported(m)
      <4>1. h \in Marking(id)
        BY <1>2, <2>2, <3>2 DEF Marking
      <4> QED
        BY <2>1, <4>1, OnceHead
    <3> QED
      BY <2>2, <3>1, <3>2 DEF Marking
  <2> QED
    BY <2>1, <2>2, OnceTail
<1> QED
  BY <1>3, <1>4, <1>5, <1>6 DEF InOrder

LEMMA HandledAccounted ==
  ASSUME NEW b, IsSeq(b), b # <<>>, NEW h, h = Head(b),
         NEW m, NEW ms \in {<<>>, <<m>>}, NEW c, c = Tail(b) \o ms,
         NEW p, NEW k, NEW R, Accounted(b, p, k, R),
         NEW q, RestKept(b, p, q), ZeroKept(q), NEW l, l = k \/ l = k + 1,
         NEW S, \A id \in S : id \in R \/ (id = k /\ l = k + 1),
         ms = <<m>> => Causes(h, m) /\ Vowed(q, m),
         ms = <<m>> /\ RemovalAsked(m) => m.id = k /\ l = k + 1
  PROVE  Accounted(c, q, l, S)
<1>1. Range(b) = {h} \cup Rest(b) /\ Range(c) = Rest(b) \cup Sent(m, ms)
  <2>1. HeadHandled(b, h, m, ms, c)
    BY HeadRest, Zenon
  <2> QED
    BY <2>1 DEF HeadHandled
<1>2. k \in Nat /\ k >= 1 /\ \A id \in R : id \in Nat /\ id < k
  BY DEF Accounted
<1>3. ASSUME NEW x \in Rest(b) PROVE Vowed(q, x) /\ OldId(x, l)
  <2>1. PICK i \in DOMAIN b : i # 1 /\ x = b[i]
    BY DEF Rest
  <2>2. Vowed(p, x) /\ OldId(x, k)
    BY <1>1 DEF Accounted
  <2>3. Awaited(x) => q[x.id] = p[x.id]
    BY <2>1 DEF RestKept
  <2>4. Vowed(q, x)
    BY <2>2, <2>3 DEF Vowed, Awaited
  <2>5. OldId(x, l)
    BY <1>2, <2>2 DEF OldId
  <2> QED
    BY <2>4, <2>5
<1>4. ASSUME ms = <<m>> PROVE OldId(m, l)
  <2>1. CASE RemovalAsked(m)
    BY <1>2, <1>4, <2>1 DEF OldId
  <2>2. CASE RemovalReported(m)
    <3>1. RemovalAsked(h) /\ m.id = h.id
      BY <1>4, <2>2 DEF Causes, RemovalAsked, RemovalReported
    <3>2. OldId(h, k)
      BY <1>1 DEF Accounted
    <3> QED
      BY <1>2, <3>1, <3>2 DEF OldId
  <2> QED
    BY <2>1, <2>2 DEF OldId
<1>5. \A x \in Range(c) : Vowed(q, x) /\ OldId(x, l)
  BY <1>1, <1>3, <1>4 DEF Sent
<1>6. l \in Nat /\ l >= 1 /\ \A id \in S : id \in Nat /\ id < l
  BY <1>2
<1> QED
  BY <1>5, <1>6 DEF Accounted

LEMMA ArrivedInOrder ==
  ASSUME NEW b, IsSeq(b), InOrder(b), Rests(b), Range(b) \subseteq Message,
         NEW m, NEW ms \in {<<>>, <<m>>}, NEW c, c = b \o ms,
         NEW k \in Nat, \A x \in Range(b) : OldId(x, k),
         ms = <<m>> => Arrives(m) /\ m \in Message,
         ms = <<m>> /\ m.type = "RECEIVE" => \A x \in Range(b) : x.type # "RECEIVE",
         ms = <<m>> /\ RemovalAsked(m) => m.id = k
  PROVE  InOrder(c) /\ Rests(c)
<1>1. Range(c) = Range(b) \cup Sent(m, ms)
  <2>1. OneAdded(b, m, ms, c)
    BY AddedRange, Zenon
  <2> QED
    BY <2>1 DEF OneAdded
<1>2. \A x \in Range(b) : x \in Derived => x.type = "RECEIVE"
  BY DEF Rests, Arrives, RemovalAsked, Derived
<1>3. Once(c, Derived)
  <2>1. ms = <<m>> /\ m \in Derived => m.type = "RECEIVE"
    BY DEF Arrives, RemovalAsked, Derived
  <2>2. ms = <<m>> /\ m \in Derived => Range(b) \cap Derived = {}
    BY <1>2, <2>1
  <2> QED
    BY <2>2, AddedOnce DEF InOrder
<1>4. Ordered(c, Early, Started)
  <2>1. Range(b) \cap Started = {}
    BY DEF Rests, Arrives, RemovalAsked, Started
  <2>2. m \in Early => m \notin Started
    BY DEF Early, Started
  <2> QED
    BY <2>1, <2>2, AddedOrdered DEF InOrder
<1>5. Rests(c)
  BY <1>1 DEF Rests, Sent
<1>6. Range(c) \cap Answered = {}
  BY <1>5 DEF Rests, Arrives, RemovalAsked, Answered
<1>7. ASSUME NEW id PROVE Once(c, Marking(id))
  <2>1. ASSUME ms = <<m>>, m \in Marking(id) PROVE Range(b) \cap Marking(id) = {}
    <3>1. RemovalAsked(m)
      BY <2>1 DEF Marking, Arrives, RemovalReported
    <3> QED
      BY <2>1, <3>1 DEF Marking, OldId
  <2> QED
    BY <2>1, AddedOnce DEF InOrder
<1> QED
  BY <1>3, <1>4, <1>5, <1>6, <1>7 DEF InOrder

LEMMA ArrivedAccounted ==
  ASSUME NEW b, NEW m, NEW ms, NEW c, OneAdded(b, m, ms, c),
         NEW p, NEW k, NEW R, Accounted(b, p, k, R), NEW l, l = k \/ l = k + 1,
         NEW S, \A id \in S : id \in R \/ (id = k /\ l = k + 1),
         ms = <<m>> => Arrives(m),
         ms = <<m>> /\ RemovalAsked(m) => m.id = k /\ l = k + 1
  PROVE  Accounted(c, p, l, S)
<1>1. Range(c) = Range(b) \cup Sent(m, ms)
  BY DEF OneAdded
<1>2. k \in Nat /\ k >= 1 /\ \A id \in R : id \in Nat /\ id < k
  BY DEF Accounted
<1>3. ASSUME NEW x \in Range(b) PROVE Vowed(p, x) /\ OldId(x, l)
  BY <1>2 DEF Accounted, OldId
<1>4. ASSUME ms = <<m>> PROVE Vowed(p, m) /\ OldId(m, l)
  <2>1. Vowed(p, m)
    BY <1>4 DEF Arrives, RemovalAsked, Vowed
  <2>2. OldId(m, l)
    BY <1>2, <1>4 DEF Arrives, RemovalAsked, RemovalReported, OldId
  <2> QED
    BY <2>1, <2>2
<1> QED
  BY <1>1, <1>2, <1>3, <1>4 DEF Accounted, Sent

-----------------------------------------------------------------------------
(* A step of one station *)

OthersKeep(n) ==
  \A x \in Node \ {n} :
    /\ bus'[x] = bus[x] /\ nextId'[x] = nextId[x] /\ removals'[x] = removals[x]
    /\ grid'[x] = grid[x] /\ pendingTx'[x] = pendingTx[x]
    /\ table'[x] = table[x] /\ procedures'[x] = procedures[x]
    /\ queue'[x] = queue[x] /\ unacked'[x] = unacked[x] /\ draining'[x] = draining[x]

Domains ==
  /\ DOMAIN bus = Node /\ DOMAIN nextId = Node /\ DOMAIN removals = Node
  /\ DOMAIN grid = Node /\ DOMAIN pendingTx = Node
  /\ DOMAIN table = Node /\ DOMAIN procedures = Node
  /\ DOMAIN queue = Node /\ DOMAIN unacked = Node /\ DOMAIN draining = Node

LEMMA ProtocolDomains ==
  ASSUME ProtocolInv PROVE Domains
<1>1. DOMAIN bus = Node /\ DOMAIN nextId = Node /\ DOMAIN procedures = Node
      /\ DOMAIN draining = Node
  BY DEF ProtocolInv, ProcedureInv
<1>2. DOMAIN table = Node /\ DOMAIN queue = Node /\ DOMAIN unacked = Node
  BY DEF ProtocolInv, TableTyped, PacketsTyped
<1>3. DOMAIN removals = Node /\ DOMAIN grid = Node /\ DOMAIN pendingTx = Node
  BY StationAssumption DEF ProtocolInv, IInv, TypeOK
<1> QED
  BY <1>1, <1>2, <1>3 DEF Domains

LEMMA SelectionOthers ==
  ASSUME Domains, NEW n \in Node, SelectionHandles(n), UNCHANGED <<macVars, radioVars>>,
         Drained(n)
  PROVE  OthersKeep(n)
<1>1. \A x \in Node \ {n} : draining'[x] = draining[x]
  BY DEF Drained, Domains
<1>2. \A x \in Node \ {n} : /\ table'[x] = table[x] /\ procedures'[x] = procedures[x]
                            /\ queue'[x] = queue[x] /\ unacked'[x] = unacked[x]
  BY DEF macVars, radioVars
<1>3. \A x \in Node \ {n} : /\ bus'[x] = bus[x] /\ nextId'[x] = nextId[x]
                            /\ removals'[x] = removals[x]
                            /\ grid'[x] = grid[x] /\ pendingTx'[x] = pendingTx[x]
  <2>1. CASE \/ IgnoreRequest(n) \/ RefuseAllocation(n)
             \/ ExternalSlotsAllocated(n) \/ ExternalSlotRemoved(n)
    BY <2>1 DEF IgnoreRequest, RefuseAllocation, ExternalSlotsAllocated, ExternalSlotRemoved,
       Answers, gridVars, Domains
  <2>2. CASE AllocateReservedSlots(n) \/ RemoveSlot(n) \/ ProcessSetResponse(n)
    BY <2>2 DEF AllocateReservedSlots, RemoveSlot, ProcessSetResponse, Answers, Domains
  <2>3. CASE ProposeSlots(n)
    BY <2>3 DEF ProposeSlots, Answers, Domains
  <2>4. CASE SelectSlot(n)
    BY <2>4 DEF SelectSlot, Answers, Domains
  <2>5. CASE AllocateSlot(n)
    BY <2>5 DEF AllocateSlot, Answers, Domains
  <2>6. CASE ProcessStats(n)
    BY <2>6 DEF ProcessStats, TakeId, Answers, Domains
  <2> QED
    BY <2>1, <2>2, <2>3, <2>4, <2>5, <2>6 DEF SelectionHandles
<1> QED
  BY <1>1, <1>2, <1>3 DEF OthersKeep

LEMMA MacOthers ==
  ASSUME Domains, NEW n \in Node, MacHandles(n), UNCHANGED gridVars, Drained(n)
  PROVE  OthersKeep(n)
<1>1. \A x \in Node \ {n} : /\ draining'[x] = draining[x] /\ removals'[x] = removals[x]
                            /\ grid'[x] = grid[x] /\ pendingTx'[x] = pendingTx[x]
  BY DEF Drained, Domains, gridVars
<1>2. \A x \in Node \ {n} : /\ bus'[x] = bus[x] /\ nextId'[x] = nextId[x]
                            /\ table'[x] = table[x] /\ procedures'[x] = procedures[x]
                            /\ queue'[x] = queue[x] /\ unacked'[x] = unacked[x]
  <2>1. CASE SendProposal(n) \/ ReceiveAddSlot(n) \/ ReceiveAdvertisement(n)
             \/ ReceiveAckDelete(n)
    BY <2>1 DEF SendProposal, ReceiveAddSlot, ReceiveAdvertisement, ReceiveAckDelete, Sends,
       Answers, macVars, radioVars, Domains
  <2>2. CASE SendSelection(n) /\ Head(bus[n]).slot = NoSlot
    BY <2>2 DEF SendSelection, Answers, macVars, radioVars, Domains
  <2>3. CASE SendSelection(n) /\ Head(bus[n]).slot # NoSlot
    BY <2>3 DEF SendSelection, SetSlotAllocation, Remember, FreshId, Sends, Answers, Domains
  <2>4. CASE RemoveForSelection(n)
    BY <2>4, SMTT(30) DEF RemoveForSelection, RemoveTableSlot, Sends, Answers, Domains
  <2>5. CASE FinishAllocation(n)
    BY <2>5, ZenonT(60) DEF FinishAllocation, AddTableSlot, Forget, Sends, Answers, Domains
  <2>6. CASE FinishRemoval(n) \/ FinishOther(n)
    BY <2>6 DEF FinishRemoval, FinishOther, RemoveTableSlot, Forget, Sends, Answers, radioVars,
       Domains
  <2>7. CASE ReceiveResult(n)
    BY <2>7 DEF ReceiveResult, SetSlotAllocation, Remember, FreshId, Answers, radioVars, Domains
  <2>8. CASE ReceiveDelete(n)
    BY <2>8 DEF ReceiveDelete, SetSlotRemoval, Remember, FreshId, Answers, radioVars, Domains
  <2> QED
    BY <2>1, <2>2, <2>3, <2>4, <2>5, <2>6, <2>7, <2>8, SMTT(30) DEF MacHandles
<1> QED
  BY <1>1, <1>2 DEF OthersKeep

-----------------------------------------------------------------------------
(* What the handlers send and keep *)

KeepsAccount(n, m, ms) ==
  /\ ms = <<m>> => Vowed(procedures'[n], m)
  /\ RestKept(bus[n], procedures[n], procedures'[n])
  /\ ZeroKept(procedures[n]) /\ nextId[n] # 0 => ZeroKept(procedures'[n])
  /\ nextId'[n] = nextId[n] \/ nextId'[n] = nextId[n] + 1
  /\ ms = <<m>> /\ RemovalAsked(m) => m.id = nextId[n] /\ nextId'[n] = nextId[n] + 1
  /\ \A id \in removals'[n] :
       id \in removals[n] \/ (id = nextId[n] /\ nextId'[n] = nextId[n] + 1)

Handles(n, h, m, ms) ==
  /\ bus[n] # <<>> /\ h = Head(bus[n]) /\ ms \in {<<>>, <<m>>}
  /\ bus'[n] = Tail(bus[n]) \o ms
  /\ ms = <<m>> => Causes(h, m)
  /\ KeepsAccount(n, m, ms)

LEMMA SilentHandles ==
  ASSUME Domains, NEW n \in Node, bus[n] # <<>>, Answers(n, <<>>),
         RestKept(bus[n], procedures[n], procedures'[n]),
         ZeroKept(procedures[n]) => ZeroKept(procedures'[n]),
         nextId'[n] = nextId[n], removals'[n] \subseteq removals[n]
  PROVE  \E h, m, ms : Handles(n, h, m, ms)
<1>1. PICK h, m, ms : h = Head(bus[n]) /\ m = 0 /\ ms = <<>>
  OBVIOUS
<1>2. ms # <<m>> /\ ms \in {<<>>, <<m>>}
  BY <1>1
<1>3. KeepsAccount(n, m, ms)
  BY <1>2 DEF KeepsAccount
<1>4. bus'[n] = Tail(bus[n]) \o ms
  BY <1>1 DEF Answers, Domains
<1>5. Handles(n, h, m, ms)
  BY <1>1, <1>2, <1>3, <1>4 DEF Handles
<1> QED
  BY <1>5

LEMMA SendingHandles ==
  ASSUME Domains, NEW n \in Node, bus[n] # <<>>, NEW m, Answers(n, <<m>>),
         Causes(Head(bus[n]), m), KeepsAccount(n, m, <<m>>)
  PROVE  Handles(n, Head(bus[n]), m, <<m>>)
<1>1. PICK ms : ms = <<m>>
  OBVIOUS
<1>2. bus'[n] = Tail(bus[n]) \o ms
  BY <1>1 DEF Answers, Domains
<1>3. Handles(n, Head(bus[n]), m, ms)
  BY <1>1, <1>2 DEF Handles
<1> QED
  BY <1>1, <1>3

LEMMA SameProcedures ==
  ASSUME NEW b, NEW p PROVE RestKept(b, p, p)
BY DEF RestKept

LEMMA SelectionAccounts ==
  ASSUME Domains, NEW n \in Node, SelectionHandles(n), UNCHANGED <<macVars, radioVars>>
  PROVE  \E h, m, ms : Handles(n, h, m, ms)
<1>1. PICK h : h = Head(bus[n])
  OBVIOUS
<1>2. /\ procedures'[n] = procedures[n]
      /\ RestKept(bus[n], procedures[n], procedures'[n])
  BY SameProcedures DEF macVars
<1>3. ASSUME bus[n] # <<>>, NEW m, Answers(n, <<m>>), Causes(h, m), h.to = "AI",
             h.type # "STATS",
             nextId'[n] = nextId[n], removals'[n] = removals[n]
      PROVE  \E o, p, ms : Handles(n, o, p, ms)
  <2>1. ~RemovalAsked(m) /\ Vowed(procedures'[n], m)
    BY <1>3 DEF Causes, RemovalAsked, RemovalReported, Vowed
  <2>2. PICK ms : ms = <<m>>
    OBVIOUS
  <2>3. KeepsAccount(n, m, ms)
    BY <1>2, <1>3, <2>1, <2>2 DEF KeepsAccount
  <2>4. Handles(n, h, m, ms)
    BY <1>1, <1>3, <2>2, <2>3, SendingHandles
  <2> QED
    BY <2>4
<1>4. CASE \/ IgnoreRequest(n) \/ ProcessSetResponse(n) \/ ExternalSlotsAllocated(n)
           \/ ExternalSlotRemoved(n)
  <2>1. /\ bus[n] # <<>> /\ Answers(n, <<>>)
        /\ nextId'[n] = nextId[n] /\ removals'[n] \subseteq removals[n]
    BY <1>4 DEF IgnoreRequest, ProcessSetResponse, ExternalSlotsAllocated, ExternalSlotRemoved,
       Addressed, gridVars, Domains
  <2> QED
    BY <1>2, <2>1, SilentHandles
<1>5. CASE \/ AllocateReservedSlots(n) \/ AllocateSlot(n) \/ RefuseAllocation(n)
           \/ RemoveSlot(n)
  <2>1. /\ bus[n] # <<>> /\ \E ok : Answers(n, <<SetR(h.id, ok)>>)
        /\ h.to = "AI" /\ h.type \in {"SET_BC_SLOTS", "SET_ALLOCATION", "SET_REMOVAL"}
        /\ nextId'[n] = nextId[n] /\ removals'[n] = removals[n]
    <3>1. CASE AllocateReservedSlots(n)
      BY <1>1, <3>1 DEF AllocateReservedSlots, Addressed
    <3>2. CASE AllocateSlot(n)
      BY <1>1, <3>2 DEF AllocateSlot, Addressed
    <3>3. CASE RefuseAllocation(n)
      BY <1>1, <3>3 DEF RefuseAllocation, Addressed, gridVars
    <3>4. CASE RemoveSlot(n)
      BY <1>1, <3>4 DEF RemoveSlot, Addressed
    <3> QED
      BY <1>5, <3>1, <3>2, <3>3, <3>4
  <2>2. PICK ok : Answers(n, <<SetR(h.id, ok)>>)
    BY <2>1
  <2>3. PICK m : m = SetR(h.id, ok)
    OBVIOUS
  <2>4. Causes(h, m)
    BY <2>1, <2>3 DEF Causes, SetR
  <2>5. Answers(n, <<m>>)
    BY <2>2, <2>3
  <2> QED
    BY <1>3, <2>1, <2>4, <2>5
<1>6. CASE ProposeSlots(n)
  <2>1. PICK accepted : Answers(n, <<[to |-> "MAC", type |-> "GETR_PROPOSED", id |-> h.id,
                                      mac |-> h.mac, slots |-> accepted]>>)
    BY <1>1, <1>6 DEF ProposeSlots
  <2>2. PICK m : m = [to |-> "MAC", type |-> "GETR_PROPOSED", id |-> h.id,
                      mac |-> h.mac, slots |-> accepted]
    OBVIOUS
  <2>3. /\ nextId'[n] = nextId[n] /\ removals'[n] = removals[n] /\ bus[n] # <<>>
        /\ h.to = "AI" /\ h.type = "GET_PROPOSED"
    BY <1>1, <1>6 DEF ProposeSlots, Addressed
  <2>4. Causes(h, m)
    BY <2>2, <2>3 DEF Causes
  <2>5. Answers(n, <<m>>)
    BY <2>1, <2>2
  <2> QED
    BY <1>3, <2>3, <2>4, <2>5
<1>7. CASE SelectSlot(n)
  <2>1. PICK chosen : /\ Answers(n, <<[to |-> "MAC", type |-> "GETR_SELECTED", id |-> h.id,
                                       mac |-> h.mac, slot |-> chosen]>>)
                      /\ chosen \in h.slots \cup {NoSlot}
    BY <1>1, <1>7 DEF SelectSlot, RxCandidates
  <2>2. PICK m : m = [to |-> "MAC", type |-> "GETR_SELECTED", id |-> h.id,
                      mac |-> h.mac, slot |-> chosen]
    OBVIOUS
  <2>3. /\ nextId'[n] = nextId[n] /\ removals'[n] = removals[n] /\ bus[n] # <<>>
        /\ h.to = "AI" /\ h.type = "GET_SELECTED"
    BY <1>1, <1>7 DEF SelectSlot, Addressed
  <2>4. Causes(h, m)
    BY <2>1, <2>2, <2>3 DEF Causes
  <2>5. Answers(n, <<m>>)
    BY <2>1, <2>2
  <2> QED
    BY <1>3, <2>3, <2>4, <2>5
<1>8. CASE ProcessStats(n)
  <2>1. PICK due : /\ TakeId(n, due) /\ Answers(n, RemovalRequest(grid[n], due, nextId[n]))
                   /\ removals' = [removals EXCEPT ![n] = @ \cup NewRemoval(n, due)]
    BY <1>8 DEF ProcessStats
  <2>2. bus[n] # <<>> /\ h.to = "AI" /\ h.type = "STATS"
    BY <1>1, <1>8 DEF ProcessStats, Addressed
  <2>3. CASE due = NoSlot
    <3>1. Answers(n, <<>>) /\ nextId'[n] = nextId[n] /\ removals'[n] = removals[n]
      BY <2>1, <2>3 DEF TakeId, RemovalRequest, NewRemoval, Domains
    <3> QED
      BY <1>2, <2>2, <3>1, SilentHandles
  <2>4. CASE due # NoSlot
    <3>1. PICK m : m = [to |-> "MAC", type |-> "SET_REMOVAL", id |-> nextId[n],
                        mac |-> grid[n][due].mac, slot |-> due]
      OBVIOUS
    <3>2. PICK ms : ms = <<m>>
      OBVIOUS
    <3>3. /\ Answers(n, ms) /\ nextId'[n] = nextId[n] + 1
          /\ removals'[n] = removals[n] \cup {nextId[n]}
      BY <2>1, <2>4, <3>1, <3>2 DEF TakeId, RemovalRequest, NewRemoval, Domains
    <3>4. Causes(h, m) /\ Vowed(procedures'[n], m) /\ m.id = nextId[n]
      BY <2>2, <3>1 DEF Causes, RemovalAsked, Vowed
    <3>5. KeepsAccount(n, m, ms)
      BY <1>2, <3>2, <3>3, <3>4 DEF KeepsAccount
    <3>6. Handles(n, h, m, ms)
      BY <1>1, <2>2, <3>2, <3>3, <3>4, <3>5, SendingHandles
    <3> QED
      BY <3>6
  <2> QED
    BY <2>3, <2>4
<1> QED
  BY <1>4, <1>5, <1>6, <1>7, <1>8 DEF SelectionHandles

LEMMA RememberedKept ==
  ASSUME ProcedureInv, NEW n \in Node, NEW r, Remember(n, nextId[n], r)
  PROVE  /\ RestKept(bus[n], procedures[n], procedures'[n])
         /\ procedures'[n][nextId[n]] = r
         /\ ZeroKept(procedures[n]) /\ nextId[n] # 0 => ZeroKept(procedures'[n])
<1>1. RestKept(bus[n], procedures[n], procedures'[n]) /\ procedures'[n][nextId[n]] = r
  BY BegunKept
<1>2. procedures'[n] = [i \in DOMAIN procedures[n] \cup {nextId[n]} |->
                              IF i = nextId[n] THEN r ELSE procedures[n][i]]
  BY DEF ProcedureInv, Remember
<1>3. ZeroKept(procedures[n]) /\ nextId[n] # 0 => ZeroKept(procedures'[n])
  BY <1>2 DEF ZeroKept
<1> QED
  BY <1>1, <1>3

LEMMA ForgottenKept ==
  ASSUME ProcedureInv, NEW n \in Node, bus[n] # <<>>, Awaited(Head(bus[n])),
         Forget(n, Head(bus[n]).id)
  PROVE  /\ RestKept(bus[n], procedures[n], procedures'[n])
         /\ ZeroKept(procedures[n]) => ZeroKept(procedures'[n])
<1>1. RestKept(bus[n], procedures[n], procedures'[n])
  BY EndedKept
<1>2. PICK id : id = Head(bus[n]).id
  OBVIOUS
<1>3. procedures'[n] = [i \in DOMAIN procedures[n] \ {id} |-> procedures[n][i]]
  BY <1>2 DEF ProcedureInv, Forget
<1>4. ZeroKept(procedures[n]) => ZeroKept(procedures'[n])
  BY <1>3 DEF ZeroKept
<1> QED
  BY <1>1, <1>4

LEMMA MacAccounts ==
  ASSUME ProcedureInv, Domains, NEW n \in Node, MacHandles(n), UNCHANGED gridVars
  PROVE  \E h, m, ms : Handles(n, h, m, ms)
<1>1. PICK h : h = Head(bus[n])
  OBVIOUS
<1>2. removals'[n] = removals[n]
  BY DEF gridVars
<1>3. RestKept(bus[n], procedures[n], procedures[n])
  BY SameProcedures
<1>4. ASSUME bus[n] # <<>>, NEW m, Answers(n, <<m>>), Causes(h, m), h.to = "MAC",
             nextId'[n] = nextId[n], procedures'[n] = procedures[n],
             m.to = "AI", m.type \notin {"SET_ALLOCATION", "SET_REMOVAL"}
      PROVE  \E o, p, ms : Handles(n, o, p, ms)
  <2>1. ~RemovalAsked(m) /\ Vowed(procedures'[n], m)
    BY <1>4 DEF RemovalAsked, Vowed
  <2>2. PICK ms : ms = <<m>>
    OBVIOUS
  <2>3. KeepsAccount(n, m, ms)
    BY <1>2, <1>3, <1>4, <2>1, <2>2 DEF KeepsAccount
  <2>4. Handles(n, h, m, ms)
    BY <1>1, <1>4, <2>2, <2>3, SendingHandles
  <2> QED
    BY <2>4
<1>5. ASSUME bus[n] # <<>>, NEW m, Answers(n, <<m>>), Causes(h, m), m.to = "AI",
             FreshId(n), NEW r, Remember(n, nextId[n], r), m.id = nextId[n],
             m.type = "SET_ALLOCATION" => r = [set |-> "ALLOCATION", mode |-> m.mode,
                                               mac |-> m.mac, slot |-> m.slot],
             m.type = "SET_REMOVAL" => r = [set |-> "REMOVAL", mac |-> m.mac, slot |-> m.slot]
      PROVE  \E o, p, ms : Handles(n, o, p, ms)
  <2>1. /\ RestKept(bus[n], procedures[n], procedures'[n])
        /\ procedures'[n][nextId[n]] = r
        /\ ZeroKept(procedures[n]) /\ nextId[n] # 0 => ZeroKept(procedures'[n])
    BY <1>5, RememberedKept
  <2>2. ~RemovalAsked(m) /\ Vowed(procedures'[n], m)
    BY <1>5, <2>1 DEF RemovalAsked, Vowed
  <2>3. PICK ms : ms = <<m>>
    OBVIOUS
  <2>4. nextId'[n] = nextId[n] + 1
    BY <1>5 DEF FreshId, Domains
  <2>5. KeepsAccount(n, m, ms)
    BY <1>2, <2>1, <2>2, <2>3, <2>4 DEF KeepsAccount
  <2>6. Handles(n, h, m, ms)
    BY <1>1, <1>5, <2>3, <2>5, SendingHandles
  <2> QED
    BY <2>6
<1>6. CASE SendProposal(n) \/ (SendSelection(n) /\ Head(bus[n]).slot = NoSlot)
  <2>1. /\ bus[n] # <<>> /\ Answers(n, <<>>)
        /\ nextId'[n] = nextId[n] /\ procedures'[n] = procedures[n]
    BY <1>6 DEF SendProposal, SendSelection, Addressed, macVars
  <2> QED
    BY <1>2, <1>3, <2>1, SilentHandles
<1>7. CASE RemoveForSelection(n)
  <2>1. PICK m : m = [to |-> "AI", type |-> "SETR", id |-> h.id, result |-> "OK"]
    OBVIOUS
  <2>2. /\ bus[n] # <<>> /\ Answers(n, <<m>>) /\ RemovalAsked(h) /\ h.to = "MAC"
        /\ nextId'[n] = nextId[n] /\ procedures'[n] = procedures[n]
    BY <1>1, <1>7, <2>1 DEF RemoveForSelection, Addressed, RemovalAsked
  <2>3. Causes(h, m)
    BY <2>1, <2>2 DEF Causes, RemovalReported
  <2> QED
    BY <1>4, <2>1, <2>2, <2>3
<1>8. CASE ReceiveAddSlot(n) \/ ReceiveAdvertisement(n) \/ ReceiveAckDelete(n)
  <2>1. /\ bus[n] # <<>> /\ h.to = "MAC" /\ h.type = "RECEIVE"
        /\ nextId'[n] = nextId[n] /\ procedures'[n] = procedures[n]
    BY <1>1, <1>8 DEF ReceiveAddSlot, ReceiveAdvertisement, ReceiveAckDelete, Received,
       Addressed, macVars
  <2>2. \E m : /\ Answers(n, <<m>>) /\ Causes(h, m) /\ m.to = "AI"
               /\ m.type \in {"GET_SELECTED", "SET_EXTERNAL_USED", "SET_EXTERNAL_FREE"}
    <3>1. CASE ReceiveAddSlot(n)
      <4>1. PICK m : m = [to |-> "AI", type |-> "GET_SELECTED", id |-> 0, mac |-> h.src,
                          slots |-> h.packet.slots]
        OBVIOUS
      <4>2. Answers(n, <<m>>) /\ h.packet.type = "ADD_SLOT"
        BY <1>1, <3>1, <4>1 DEF ReceiveAddSlot, Received
      <4>3. Causes(h, m)
        BY <2>1, <4>1, <4>2 DEF Causes
      <4> QED
        BY <4>1, <4>2, <4>3
    <3>2. CASE ReceiveAdvertisement(n)
      <4>1. PICK m : m = [to |-> "AI", type |-> "SET_EXTERNAL_USED", src |-> h.src,
                          slots |-> h.packet.slots]
        OBVIOUS
      <4>2. Answers(n, <<m>>)
        BY <1>1, <3>2, <4>1 DEF ReceiveAdvertisement
      <4>3. Causes(h, m)
        BY <2>1, <4>1 DEF Causes
      <4> QED
        BY <4>1, <4>2, <4>3
    <3>3. CASE ReceiveAckDelete(n)
      <4>1. PICK c : Answers(n, <<[to |-> "AI", type |-> "SET_EXTERNAL_FREE", slot |-> c]>>)
        BY <3>3 DEF ReceiveAckDelete
      <4>2. PICK m : m = [to |-> "AI", type |-> "SET_EXTERNAL_FREE", slot |-> c]
        OBVIOUS
      <4>3. Causes(h, m)
        BY <2>1, <4>2 DEF Causes
      <4> QED
        BY <4>1, <4>2, <4>3
    <3> QED
      BY <1>8, <3>1, <3>2, <3>3
  <2>3. PICK m : /\ Answers(n, <<m>>) /\ Causes(h, m) /\ m.to = "AI"
                 /\ m.type \in {"GET_SELECTED", "SET_EXTERNAL_USED", "SET_EXTERNAL_FREE"}
    BY <2>2
  <2> QED
    BY <1>4, <2>1, <2>3
<1>9. CASE SendSelection(n) /\ Head(bus[n]).slot # NoSlot
  <2>1. /\ bus[n] # <<>> /\ h.to = "MAC" /\ h.type = "GETR_SELECTED" /\ h.slot # NoSlot
        /\ SetSlotAllocation(n, h.mac, "RX", h.slot)
    BY <1>1, <1>9 DEF SendSelection, Addressed
  <2>2. PICK m, r : /\ m = [to |-> "AI", type |-> "SET_ALLOCATION", id |-> nextId[n],
                            mac |-> h.mac, mode |-> "RX", slot |-> h.slot]
                    /\ r = [set |-> "ALLOCATION", mode |-> "RX", mac |-> h.mac,
                            slot |-> h.slot]
    OBVIOUS
  <2>3. Answers(n, <<m>>) /\ Remember(n, nextId[n], r) /\ FreshId(n)
    BY <2>1, <2>2 DEF SetSlotAllocation
  <2>4. Causes(h, m)
    BY <2>1, <2>2 DEF Causes
  <2>5. m.type = "SET_ALLOCATION" => r = [set |-> "ALLOCATION", mode |-> m.mode,
                                          mac |-> m.mac, slot |-> m.slot]
    BY <2>2
  <2>6. m.to = "AI" /\ m.id = nextId[n] /\ m.type = "SET_ALLOCATION"
    BY <2>2
  <2> QED
    BY <1>5, <2>1, <2>3, <2>4, <2>5, <2>6
<1>10. CASE ReceiveResult(n)
  <2>1. /\ bus[n] # <<>> /\ h.to = "MAC" /\ h.type = "RECEIVE" /\ h.packet.type = "RESULT"
        /\ \E c \in h.packet.slots : SetSlotAllocation(n, h.src, "TX", c)
    BY <1>1, <1>10 DEF ReceiveResult, Received, Addressed
  <2>2. PICK c \in h.packet.slots : SetSlotAllocation(n, h.src, "TX", c)
    BY <2>1
  <2>3. PICK m, r : /\ m = [to |-> "AI", type |-> "SET_ALLOCATION", id |-> nextId[n],
                            mac |-> h.src, mode |-> "TX", slot |-> c]
                    /\ r = [set |-> "ALLOCATION", mode |-> "TX", mac |-> h.src, slot |-> c]
    OBVIOUS
  <2>4. Answers(n, <<m>>) /\ Remember(n, nextId[n], r) /\ FreshId(n)
    BY <2>2, <2>3 DEF SetSlotAllocation
  <2>5. Causes(h, m)
    BY <2>1, <2>3 DEF Causes
  <2>6. m.type = "SET_ALLOCATION" => r = [set |-> "ALLOCATION", mode |-> m.mode,
                                          mac |-> m.mac, slot |-> m.slot]
    BY <2>3
  <2>7. m.to = "AI" /\ m.id = nextId[n] /\ m.type = "SET_ALLOCATION"
    BY <2>3
  <2> QED
    BY <1>5, <2>1, <2>4, <2>5, <2>6, <2>7
<1>11. CASE ReceiveDelete(n)
  <2>1. /\ bus[n] # <<>> /\ h.to = "MAC" /\ h.type = "RECEIVE" /\ h.packet.type = "DELETE"
        /\ \E c \in h.packet.slots : SetSlotRemoval(n, h.src, c)
    BY <1>1, <1>11 DEF ReceiveDelete, Received, Addressed
  <2>2. PICK c \in h.packet.slots : SetSlotRemoval(n, h.src, c)
    BY <2>1
  <2>3. PICK m, r : /\ m = [to |-> "AI", type |-> "SET_REMOVAL", id |-> nextId[n],
                            mac |-> h.src, slot |-> c]
                    /\ r = [set |-> "REMOVAL", mac |-> h.src, slot |-> c]
    OBVIOUS
  <2>4. Answers(n, <<m>>) /\ Remember(n, nextId[n], r) /\ FreshId(n)
    BY <2>2, <2>3 DEF SetSlotRemoval
  <2>5. Causes(h, m)
    BY <2>1, <2>3 DEF Causes
  <2>6. m.type = "SET_REMOVAL" => r = [set |-> "REMOVAL", mac |-> m.mac, slot |-> m.slot]
    BY <2>3
  <2>7. m.to = "AI" /\ m.id = nextId[n] /\ m.type = "SET_REMOVAL"
    BY <2>3
  <2> QED
    BY <1>5, <2>1, <2>4, <2>5, <2>6, <2>7
<1>12. CASE FinishAllocation(n) \/ FinishRemoval(n) \/ FinishOther(n)
  <2>1. /\ bus[n] # <<>> /\ Answers(n, <<>>) /\ h.to = "MAC" /\ h.type = "SETR"
        /\ nextId'[n] = nextId[n] /\ Forget(n, h.id)
    BY <1>1, <1>12 DEF FinishAllocation, FinishRemoval, FinishOther, Addressed
  <2>2. Awaited(h)
    BY <2>1 DEF Awaited
  <2>3. /\ RestKept(bus[n], procedures[n], procedures'[n])
        /\ ZeroKept(procedures[n]) => ZeroKept(procedures'[n])
    BY <1>1, <2>1, <2>2, ForgottenKept
  <2> QED
    BY <1>2, <2>1, <2>3, SilentHandles, SMTT(30)
<1> QED
  BY <1>6, <1>7, <1>8, <1>9, <1>10, <1>11, <1>12 DEF MacHandles

(* What is handled keeps the messages of an instant in order. *)
LEMMA HandledInstant ==
  ASSUME ProtocolInv, ProtocolInv', InstantInv, NEW n \in Node,
         NEW h, NEW m, NEW ms, Handles(n, h, m, ms)
  PROVE  /\ InOrder(bus'[n])
         /\ Accounted(bus'[n], procedures'[n], nextId'[n], removals'[n])
<1>1. PICK b, c, k, l, p, q, R, S :
        /\ b = bus[n] /\ c = Tail(b) \o ms /\ k = nextId[n] /\ l = nextId'[n]
        /\ p = procedures[n] /\ q = procedures'[n] /\ R = removals[n] /\ S = removals'[n]
  OBVIOUS
<1>2. bus'[n] = c
  BY <1>1 DEF Handles
<1>3. b \in Seq(Message) /\ c \in Seq(Message)
  <2>1. bus[n] \in Seq(Message)
    BY ProtocolStation
  <2>2. bus'[n] \in Seq(Message)
    BY StationAssumption DEF ProtocolInv, IInv, TypeOK, Message
  <2> QED
    BY <1>1, <1>2, <2>1, <2>2
<1>4. /\ IsSeq(b) /\ b # <<>> /\ h = Head(b) /\ h \in Message /\ ms \in {<<>>, <<m>>}
      /\ Range(c) \subseteq Message
  BY <1>1, <1>3, MessageSeq DEF Handles
<1>5. HeadHandled(b, h, m, ms, c)
  BY <1>1, <1>4, HeadRest
<1>6. ms = <<m>> => m \in Message
  BY <1>4, <1>5 DEF HeadHandled, Sent
<1>7. InOrder(b) /\ Accounted(b, p, k, R) /\ k \in Nat /\ k >= 1
  BY <1>1 DEF InstantInv, Accounted
<1>8. ms = <<m>> => Causes(h, m)
  BY DEF Handles
<1>9. /\ ms = <<m>> => Vowed(q, m)
      /\ RestKept(b, p, q)
      /\ ZeroKept(p) /\ k # 0 => ZeroKept(q)
      /\ l = k \/ l = k + 1
      /\ ms = <<m>> /\ RemovalAsked(m) => m.id = k /\ l = k + 1
      /\ \A id \in S : id \in R \/ (id = k /\ l = k + 1)
  BY <1>1 DEF Handles, KeepsAccount
<1>10. ZeroKept(q)
  BY <1>7, <1>9 DEF Accounted
<1>11. \A x \in Range(b) : OldId(x, k)
  BY <1>7 DEF Accounted
<1>12. InOrder(c)
  BY <1>1, <1>4, <1>6, <1>7, <1>8, <1>9, <1>11, HandledInOrder
<1>13. Accounted(c, q, l, S)
  BY <1>1, <1>4, <1>7, <1>8, <1>9, <1>10, HandledAccounted
<1> QED
  BY <1>1, <1>2, <1>12, <1>13

-----------------------------------------------------------------------------
(* What a tick adds *)

Adds(x, m, ms) ==
  /\ ms \in {<<>>, <<m>>} /\ bus'[x] = bus[x] \o ms
  /\ ms = <<m>> => Arrives(m)
  /\ ms = <<m>> /\ m.type = "RECEIVE" => \A y \in Range(bus[x]) : y.type # "RECEIVE"
  /\ nextId'[x] = nextId[x] \/ nextId'[x] = nextId[x] + 1
  /\ ms = <<m>> /\ RemovalAsked(m) => m.id = nextId[x] /\ nextId'[x] = nextId[x] + 1
  /\ \A id \in removals'[x] :
       id \in removals[x] \/ (id = nextId[x] /\ nextId'[x] = nextId[x] + 1)

LEMMA RequestAdds ==
  ASSUME ProtocolInv, NEW n \in Node, NEW m, Request(n, m),
         m.to = "AI", m.type \in {"GET_PROPOSED", "STATS"}
  PROVE  /\ Adds(n, m, <<m>>)
         /\ \A x \in Node \ {n} : bus'[x] = bus[x]
         /\ UNCHANGED <<grid, pendingTx, removals, nextId, procedures, table, queue, unacked>>
<1>1. Domains /\ IsSeq(bus[n])
  BY ProtocolDomains, ProtocolStation
<1>2. PICK ms : ms = <<m>>
  OBVIOUS
<1>3. UNCHANGED <<grid, pendingTx, removals, nextId, procedures, table, queue, unacked>>
  BY DEF Request, gridVars, macVars, radioVars
<1>4. bus'[n] = bus[n] \o ms /\ \A x \in Node \ {n} : bus'[x] = bus[x]
  <2>1. Append(bus[n], m) = bus[n] \o ms
    BY <1>1, <1>2, AppendIsConcat
  <2>2. bus' = [bus EXCEPT ![n] = Append(bus[n], m)]
    BY DEF Request
  <2>3. bus'[n] = Append(bus[n], m) /\ \A x \in Node \ {n} : bus'[x] = bus[x]
    BY <1>1, <2>2 DEF Domains
  <2> QED
    BY <2>1, <2>3
<1>5. Arrives(m) /\ ~RemovalAsked(m) /\ m.type # "RECEIVE"
  BY DEF Arrives, RemovalAsked
<1>6. Adds(n, m, ms)
  BY <1>2, <1>3, <1>4, <1>5 DEF Adds
<1> QED
  BY <1>2, <1>3, <1>4, <1>6

(* What the timers leave: the offers and marks that expired are gone, and one *)
(* idle cell may have been marked.                                            *)
TimedGrid(n, expiredTx, expiredRx, expiredRemovals) ==
  AbortPendingRemovals(
    AbortRXProposals(AbortTXProposals(grid[n], expiredTx), expiredRx), expiredRemovals)

TimersMark(n, g, due) ==
  /\ due \in Due(g, n)
  /\ grid'[n] = MarkRemoval(g, due, nextId[n])
  /\ bus'[n] = bus[n] \o RemovalRequest(g, due, nextId[n])
  /\ nextId'[n] = IF due = NoSlot THEN nextId[n] ELSE nextId[n] + 1

LEMMA TimersAdd ==
  ASSUME ProtocolInv, NEW n \in Node, SelectionTimers(n)
  PROVE  /\ \E m, ms : Adds(n, m, ms)
         /\ \E expiredTx, expiredRx, expiredRemovals, due :
              /\ TimersMark(n, TimedGrid(n, expiredTx, expiredRx, expiredRemovals), due)
              /\ pendingTx'[n] = pendingTx[n] \ expiredTx
              /\ removals'[n] = (removals[n] \ expiredRemovals) \cup NewRemoval(n, due)
         /\ \A x \in Node \ {n} : /\ bus'[x] = bus[x] /\ grid'[x] = grid[x]
                                  /\ pendingTx'[x] = pendingTx[x] /\ nextId'[x] = nextId[x]
                                  /\ removals'[x] = removals[x]
         /\ UNCHANGED <<procedures, table, queue, unacked>>
<1>1. Domains
  BY ProtocolDomains
<1>2. PICK expiredTx \in SUBSET pendingTx[n], expiredRx \in SUBSET pendingRx[n],
            expiredRemovals \in SUBSET removals[n], stale \in SUBSET external[n] :
        LET h == AbortPendingRemovals(
                   AbortRXProposals(AbortTXProposals(grid[n], expiredTx), expiredRx),
                   expiredRemovals)
        IN  \E due \in Due(h, n) :
              /\ grid'      = [grid EXCEPT ![n] = MarkRemoval(h, due, nextId[n])]
              /\ pendingTx' = [pendingTx EXCEPT ![n] = @ \ expiredTx]
              /\ pendingRx' = [pendingRx EXCEPT ![n] = @ \ expiredRx]
              /\ removals'  = [removals EXCEPT ![n] =
                                 (@ \ expiredRemovals) \cup NewRemoval(n, due)]
              /\ external'  = [external EXCEPT ![n] = @ \ stale]
              /\ TakeId(n, due)
              /\ bus'       = [bus EXCEPT ![n] = @ \o RemovalRequest(h, due, nextId[n])]
  <2>1. InterloopSteps(n)
    BY DEF SelectionTimers
  <2> QED
    BY <2>1, Zenon DEF InterloopSteps
<1>3. PICK g : g = TimedGrid(n, expiredTx, expiredRx, expiredRemovals)
  OBVIOUS
<1>4. PICK due \in Due(g, n) :
        /\ grid'      = [grid EXCEPT ![n] = MarkRemoval(g, due, nextId[n])]
        /\ pendingTx' = [pendingTx EXCEPT ![n] = @ \ expiredTx]
        /\ removals'  = [removals EXCEPT ![n] = (@ \ expiredRemovals) \cup NewRemoval(n, due)]
        /\ TakeId(n, due)
        /\ bus'       = [bus EXCEPT ![n] = @ \o RemovalRequest(g, due, nextId[n])]
  <2>1. g = AbortPendingRemovals(
              AbortRXProposals(AbortTXProposals(grid[n], expiredTx), expiredRx),
              expiredRemovals)
    BY <1>3 DEF TimedGrid
  <2> QED
    BY <1>2, <2>1
<1>5. \A x \in Node \ {n} : /\ bus'[x] = bus[x] /\ grid'[x] = grid[x]
                            /\ pendingTx'[x] = pendingTx[x] /\ nextId'[x] = nextId[x]
                            /\ removals'[x] = removals[x]
  BY <1>1, <1>4 DEF Domains, TakeId
<1>6. TimersMark(n, g, due)
  BY <1>1, <1>4 DEF TimersMark, Domains, TakeId
<1>7. /\ pendingTx'[n] = pendingTx[n] \ expiredTx
      /\ removals'[n] = (removals[n] \ expiredRemovals) \cup NewRemoval(n, due)
  BY <1>1, <1>4 DEF Domains
<1>8. \E m, ms : Adds(n, m, ms)
  <2>1. PICK m, ms : /\ m = [to |-> "MAC", type |-> "SET_REMOVAL", id |-> nextId[n],
                             mac |-> g[due].mac, slot |-> due]
                     /\ ms = RemovalRequest(g, due, nextId[n])
    OBVIOUS
  <2>2. ms = IF due = NoSlot THEN <<>> ELSE <<m>>
    BY <2>1 DEF RemovalRequest
  <2>3. Arrives(m) /\ m.type # "RECEIVE" /\ m.id = nextId[n]
    BY <2>1 DEF Arrives, RemovalAsked
  <2>4. \A id \in removals'[n] :
          id \in removals[n] \/ (id = nextId[n] /\ nextId'[n] = nextId[n] + 1)
    BY <1>6, <1>7 DEF TimersMark, NewRemoval
  <2>5. ms # <<>> => nextId'[n] = nextId[n] + 1
    BY <1>6, <2>2 DEF TimersMark
  <2>6. bus'[n] = bus[n] \o ms /\ (nextId'[n] = nextId[n] \/ nextId'[n] = nextId[n] + 1)
    BY <1>6, <2>1 DEF TimersMark
  <2>7. ms \in {<<>>, <<m>>} /\ (ms = <<m>> => ms # <<>>)
    BY <2>2
  <2>8. Adds(n, m, ms)
    BY <2>3, <2>4, <2>5, <2>6, <2>7 DEF Adds
  <2> QED
    BY <2>8
<1> QED
  BY <1>3, <1>5, <1>6, <1>7, <1>8 DEF SelectionTimers, macVars, radioVars

(* A packet is heard by some of those it is meant for. *)
Reaches(n, e, m, heard) ==
  /\ heard \subseteq Audience(n, e.packet) \cap Node
  /\ Reliable => heard = Audience(n, e.packet)
  /\ \A x \in heard : Adds(x, m, <<m>>)
  /\ \A x \in Node \ heard : bus'[x] = bus[x]

LEMMA TransmitAdds ==
  ASSUME ProtocolInv, NEW n \in Node, Transmit(n),
         NEW e, e = Head(queue[n]), NEW m, m = Reception(n, e.packet)
  PROVE  /\ queue[n] # <<>> /\ e \in Entry
         /\ \E heard : Reaches(n, e, m, heard)
         /\ queue'[n] = Tail(queue[n]) /\ \A x \in Node \ {n} : queue'[x] = queue[x]
         /\ \A x \in Node : Reliable \/ x # n => unacked'[x] = unacked[x]
         /\ UNCHANGED <<grid, pendingTx, removals, nextId, procedures, table>>
<1>1. Domains
  BY ProtocolDomains
<1>2. queue[n] # <<>> /\ e \in Entry
  <2>1. queue[n] \in Seq(Entry) /\ queue[n] # <<>>
    BY DEF ProtocolInv, PacketsTyped, Transmit
  <2> QED
    BY <2>1
<1>3. Audience(n, e.packet) \subseteq Node
  <2>1. e.packet.type \in Unicast => e.packet.dst \in Node
    BY <1>2 DEF Entry, Packet, Unicast, Broadcast
  <2> QED
    BY <2>1 DEF Audience
<1>4. PICK heard \in SUBSET Audience(n, e.packet) :
        /\ Reliable => heard = Audience(n, e.packet)
        /\ \A x \in heard : CanReceive(x)
        /\ bus' = [x \in Node |-> IF x \in heard THEN Append(bus[x], m) ELSE bus[x]]
  <2>1. PICK heard \in IF Reliable THEN {Audience(n, e.packet)}
                       ELSE SUBSET Audience(n, e.packet) :
          /\ \A x \in heard : CanReceive(x)
          /\ bus' = [x \in Node |-> IF x \in heard THEN Append(bus[x], Reception(n, e.packet))
                                                  ELSE bus[x]]
    BY ZenonT(60) DEF Transmit
  <2>2. heard \in SUBSET Audience(n, e.packet) /\ (Reliable => heard = Audience(n, e.packet))
    BY <2>1
  <2> QED
    BY <2>1, <2>2
<1>5. /\ UNCHANGED <<grid, pendingTx, removals, nextId, procedures, table>>
      /\ queue'[n] = Tail(queue[n]) /\ \A x \in Node \ {n} : queue'[x] = queue[x]
  BY <1>1 DEF Transmit, gridVars, macVars, Domains
<1>6. ASSUME NEW x \in heard PROVE Adds(x, m, <<m>>)
  <2>1. PICK ms : ms = <<m>>
    OBVIOUS
  <2>2. x \in Node /\ IsSeq(bus[x])
    BY <1>3, ProtocolStation
  <2>3. bus'[x] = bus[x] \o ms
    BY <1>4, <2>1, <2>2, AppendIsConcat
  <2>4. \A y \in Range(bus[x]) : y.type # "RECEIVE"
    BY <1>4 DEF CanReceive, Range
  <2>5. Arrives(m) /\ ~RemovalAsked(m)
    BY DEF Arrives, RemovalAsked, Reception
  <2>6. Adds(x, m, ms)
    BY <1>5, <2>1, <2>3, <2>4, <2>5 DEF Adds
  <2> QED
    BY <2>1, <2>6
<1>7. \A x \in Node \ heard : bus'[x] = bus[x]
  BY <1>4
<1>8. \A x \in Node : Reliable \/ x # n => unacked'[x] = unacked[x]
  BY <1>1 DEF Transmit, Domains
<1>9. heard \subseteq Audience(n, e.packet) \cap Node
  BY <1>3
<1>10. Reaches(n, e, m, heard)
  BY <1>4, <1>6, <1>7, <1>9 DEF Reaches
<1> QED
  BY <1>2, <1>5, <1>8, <1>10

LEMMA TickAdds ==
  ASSUME ProtocolInv, NEW n \in Node, Tick(n), NEW x \in Node
  PROVE  /\ \/ bus'[x] = bus[x] /\ nextId'[x] = nextId[x] /\ removals'[x] = removals[x]
            \/ \E m, ms : Adds(x, m, ms)
         /\ procedures'[x] = procedures[x] /\ draining'[x] = draining[x]
         /\ draining[x] = FALSE
<1>1. draining'[x] = draining[x] /\ draining[x] = FALSE
  BY Zenon DEF Tick, ProtocolInv, ProcedureInv
<1>2. CASE AppSend(n) \/ QueueTimeout(n) \/ SendStatistics(n)
  <2>1. PICK m : /\ Request(n, m) /\ m.to = "AI" /\ m.type \in {"GET_PROPOSED", "STATS"}
    BY <1>2, TickRequests
  <2>2. Adds(n, m, <<m>>) /\ (\A y \in Node \ {n} : bus'[y] = bus[y])
        /\ UNCHANGED <<removals, nextId, procedures>>
    BY <2>1, RequestAdds
  <2>3. CASE x = n
    BY <1>1, <2>2, <2>3
  <2>4. CASE x # n
    BY <1>1, <2>2, <2>4
  <2> QED
    BY <2>3, <2>4
<1>3. CASE SelectionTimers(n)
  <2>1. (\E m, ms : Adds(n, m, ms)) /\ UNCHANGED procedures
    BY <1>3, TimersAdd
  <2>2. \A y \in Node \ {n} : /\ bus'[y] = bus[y] /\ nextId'[y] = nextId[y]
                              /\ removals'[y] = removals[y]
    BY <1>3, TimersAdd
  <2>3. CASE x = n
    BY <1>1, <2>1, <2>3
  <2>4. CASE x # n
    BY <1>1, <2>1, <2>2, <2>4
  <2> QED
    BY <2>3, <2>4
<1>4. CASE Transmit(n)
  <2>1. PICK e, m : e = Head(queue[n]) /\ m = Reception(n, e.packet)
    OBVIOUS
  <2>2. PICK heard : /\ \A y \in heard : Adds(y, m, <<m>>)
                     /\ \A y \in Node \ heard : bus'[y] = bus[y]
    <3>1. \E heard : Reaches(n, e, m, heard)
      BY <1>4, <2>1, TransmitAdds
    <3> QED
      BY <3>1 DEF Reaches
  <2>3. UNCHANGED <<removals, nextId, procedures>>
    BY <1>4, <2>1, TransmitAdds
  <2>4. CASE x \in heard
    BY <1>1, <2>2, <2>3, <2>4
  <2>5. CASE x \notin heard
    BY <1>1, <2>2, <2>3, <2>5
  <2> QED
    BY <2>4, <2>5
<1>5. CASE Advertise(n) \/ Retransmit(n)
  BY <1>1, <1>5 DEF Advertise, Retransmit, selVars, macVars
<1> QED
  BY <1>2, <1>3, <1>4, <1>5 DEF Tick

LEMMA ArrivedInstant ==
  ASSUME ProtocolInv, ProtocolInv', InstantInv, NEW x \in Node, draining[x] = FALSE,
         procedures'[x] = procedures[x], NEW m, NEW ms, Adds(x, m, ms)
  PROVE  /\ InOrder(bus'[x]) /\ Rests(bus'[x])
         /\ Accounted(bus'[x], procedures'[x], nextId'[x], removals'[x])
<1>1. PICK b, c, k, l, p, R, S :
        /\ b = bus[x] /\ c = b \o ms /\ k = nextId[x] /\ l = nextId'[x]
        /\ p = procedures[x] /\ R = removals[x] /\ S = removals'[x]
  OBVIOUS
<1>2. bus'[x] = c
  BY <1>1 DEF Adds
<1>3. b \in Seq(Message) /\ c \in Seq(Message)
  <2>1. bus[x] \in Seq(Message)
    BY ProtocolStation
  <2>2. bus'[x] \in Seq(Message)
    BY StationAssumption DEF ProtocolInv, IInv, TypeOK, Message
  <2> QED
    BY <1>1, <1>2, <2>1, <2>2
<1>4. /\ IsSeq(b) /\ Range(b) \subseteq Message /\ Range(c) \subseteq Message
      /\ ms \in {<<>>, <<m>>}
  BY <1>3, MessageSeq DEF Adds
<1>5. OneAdded(b, m, ms, c)
  BY <1>1, <1>4, AddedRange
<1>6. ms = <<m>> => m \in Message /\ Arrives(m)
  BY <1>4, <1>5 DEF OneAdded, Sent, Adds
<1>7. InOrder(b) /\ Accounted(b, p, k, R) /\ Rests(b) /\ k \in Nat
  BY <1>1 DEF InstantInv, Accounted
<1>8. /\ ms = <<m>> /\ m.type = "RECEIVE" => \A y \in Range(b) : y.type # "RECEIVE"
      /\ l = k \/ l = k + 1
      /\ ms = <<m>> /\ RemovalAsked(m) => m.id = k /\ l = k + 1
      /\ \A id \in S : id \in R \/ (id = k /\ l = k + 1)
  BY <1>1 DEF Adds
<1>9. \A y \in Range(b) : OldId(y, k)
  BY <1>7 DEF Accounted
<1>10. InOrder(c) /\ Rests(c)
  BY <1>1, <1>4, <1>6, <1>7, <1>8, <1>9, ArrivedInOrder
<1>11. Accounted(c, p, l, S)
  <2>1. ms = <<m>> => Arrives(m)
    BY <1>6
  <2>2. Accounted(c, p, l, S)
    <3>2. Accounted(b, p, k, R) /\ (l = k \/ l = k + 1)
      BY <1>7, <1>8
    <3>3. \A id \in S : id \in R \/ (id = k /\ l = k + 1)
      BY <1>8
    <3>4. ms = <<m>> /\ RemovalAsked(m) => m.id = k /\ l = k + 1
      BY <1>8
    <3> QED
      BY <1>5, <2>1, <3>2, <3>3, <3>4, ArrivedAccounted
  <2> QED
    BY <2>2
<1> QED
  BY <1>1, <1>2, <1>10, <1>11

LEMMA DrainHandles ==
  ASSUME ProtocolInv, NEW n \in Node, Drain(n)
  PROVE  OthersKeep(n) /\ \E h, m, ms : Handles(n, h, m, ms)
<1>1. Domains /\ ProcedureInv
  BY ProtocolDomains DEF ProtocolInv
<1>2. Drained(n)
  BY DEF Drain, Drained
<1>3. CASE MacHandles(n) /\ UNCHANGED gridVars
  BY <1>1, <1>2, <1>3, MacOthers, MacAccounts
<1>4. CASE SelectionHandles(n) /\ UNCHANGED <<macVars, radioVars>>
  BY <1>1, <1>2, <1>4, SelectionOthers, SelectionAccounts
<1> QED
  BY <1>3, <1>4 DEF Drain

LEMMA InstantInvInductive ==
  ProtocolInv /\ ProtocolInv' /\ InstantInv /\ [ProtocolNext]_vars => InstantInv'
<1> SUFFICES ASSUME ProtocolInv, ProtocolInv', InstantInv, [ProtocolNext]_vars, NEW x \in Node
             PROVE  /\ InOrder(bus'[x])
                    /\ Accounted(bus'[x], procedures'[x], nextId'[x], removals'[x])
                    /\ draining'[x] = FALSE => Rests(bus'[x])
  BY DEF InstantInv
<1>1. ASSUME bus'[x] = bus[x], procedures'[x] = procedures[x], nextId'[x] = nextId[x],
             removals'[x] = removals[x], draining'[x] = draining[x]
      PROVE  /\ InOrder(bus'[x])
             /\ Accounted(bus'[x], procedures'[x], nextId'[x], removals'[x])
             /\ draining'[x] = FALSE => Rests(bus'[x])
  BY <1>1 DEF InstantInv
<1>2. CASE UNCHANGED vars
  BY <1>1, <1>2 DEF vars, selVars, macVars
<1>3. ASSUME NEW n \in Node, Drain(n)
      PROVE  /\ InOrder(bus'[x])
             /\ Accounted(bus'[x], procedures'[x], nextId'[x], removals'[x])
             /\ draining'[x] = FALSE => Rests(bus'[x])
  <2>1. OthersKeep(n) /\ \E h, m, ms : Handles(n, h, m, ms)
    BY <1>3, DrainHandles
  <2>2. CASE x # n
    BY <1>1, <2>1, <2>2 DEF OthersKeep
  <2>3. CASE x = n
    <3>1. PICK h, m, ms : Handles(n, h, m, ms)
      BY <2>1
    <3>2. /\ InOrder(bus'[n])
          /\ Accounted(bus'[n], procedures'[n], nextId'[n], removals'[n])
      BY <3>1, HandledInstant
    <3>3. draining'[n] = FALSE => bus'[n] = <<>>
      BY <1>3, ProtocolDomains DEF Domains, Drain
    <3>4. Rests(<<>>)
      BY DEF Rests, Range
    <3> QED
      BY <2>3, <3>2, <3>3, <3>4
  <2> QED
    BY <2>2, <2>3
<1>4. ASSUME NEW n \in Node, Tick(n)
      PROVE  /\ InOrder(bus'[x])
             /\ Accounted(bus'[x], procedures'[x], nextId'[x], removals'[x])
             /\ draining'[x] = FALSE => Rests(bus'[x])
  <2>1. /\ \/ bus'[x] = bus[x] /\ nextId'[x] = nextId[x] /\ removals'[x] = removals[x]
           \/ \E m, ms : Adds(x, m, ms)
        /\ procedures'[x] = procedures[x] /\ draining'[x] = draining[x]
        /\ draining[x] = FALSE
    BY <1>4, TickAdds
  <2>2. CASE bus'[x] = bus[x] /\ nextId'[x] = nextId[x] /\ removals'[x] = removals[x]
    BY <1>1, <2>1, <2>2
  <2>3. CASE \E m, ms : Adds(x, m, ms)
    BY <2>1, <2>3, ArrivedInstant
  <2> QED
    BY <2>1, <2>2, <2>3
<1> QED
  BY <1>2, <1>3, <1>4 DEF ProtocolNext

LEMMA InitInstant == ProtocolInit => InstantInv
<1> SUFFICES ASSUME ProtocolInit, NEW n \in Node
             PROVE  /\ InOrder(bus[n])
                    /\ Accounted(bus[n], procedures[n], nextId[n], removals[n])
                    /\ Rests(bus[n])
  BY DEF InstantInv
<1>1. /\ bus[n] = <<SetBcSlots>> /\ nextId[n] = 1 /\ removals[n] = {}
      /\ procedures[n] = [i \in {0} |-> [set |-> "BC_SLOTS"]]
  BY StationAssumption DEF ProtocolInit, Init
<1>2. PICK b : b = bus[n]
  OBVIOUS
<1>3. DOMAIN b = {1} /\ b[1] = SetBcSlots
  BY <1>1, <1>2
<1>4. Range(b) = {SetBcSlots}
  BY <1>3 DEF Range
<1>5. SetBcSlots.type = "SET_BC_SLOTS" /\ SetBcSlots.to = "AI"
  BY DEF SetBcSlots
<1>6. InOrder(b)
  BY <1>3, <1>4, <1>5 DEF InOrder, Once, Ordered, Early, Started, Answered
<1>7. Rests(b)
  BY <1>4, <1>5 DEF Rests
<1>8. Vowed(procedures[n], SetBcSlots) /\ OldId(SetBcSlots, 1) /\ ZeroKept(procedures[n])
  BY <1>1, <1>5 DEF Vowed, OldId, RemovalAsked, RemovalReported, ZeroKept
<1>9. Accounted(b, procedures[n], 1, {})
  BY <1>4, <1>8 DEF Accounted
<1> QED
  BY <1>1, <1>2, <1>6, <1>7, <1>9

-----------------------------------------------------------------------------
(* The stages of an exchange between a station that asks for a slot and its    *)
(* peer: 1 the offer is chosen, 2 it waits to be sent, 3 the peer has it, 4 the *)
(* peer selected a slot of it, 5 the result waits to be sent, 6 it has come     *)
(* back.  Has(k, n, p): what n holds of a stage k it shares with p, as the sets *)
(* of cells that are told.                                                      *)
Stage  == 1 .. 6
Asking == {1, 2, 6}   \* the stages that are with the station that asked

Bears(x, k, p) ==
  \/ k = 1 /\ x.to = "MAC" /\ x.type = "GETR_PROPOSED" /\ x.mac = p /\ x.slots # {}
  \/ k = 3 /\ x.to = "MAC" /\ Brought(x, "ADD_SLOT", p)
  \/ k = 3 /\ x.to = "AI" /\ x.type = "GET_SELECTED" /\ x.mac = p
  \/ k = 4 /\ x.to = "MAC" /\ x.type = "GETR_SELECTED" /\ x.mac = p /\ x.slot # NoSlot
  \/ k = 6 /\ x.to = "MAC" /\ Brought(x, "RESULT", p)
  \/ k = 6 /\ x.to = "AI" /\ x.type = "SET_ALLOCATION" /\ x.mode = "TX" /\ x.mac = p

Carries(e, k, p) == \/ k = 2 /\ IsPacket(e.packet, "ADD_SLOT", p)
                    \/ k = 5 /\ IsPacket(e.packet, "RESULT", p)

Told(x) == CASE x.type = "RECEIVE"                            -> x.packet.slots
             [] x.type \in {"GETR_PROPOSED", "GET_SELECTED"}  -> x.slots
             [] OTHER                                         -> {x.slot}

BusHas(b, k, p)   == {Told(x) : x \in {y \in Range(b) : Bears(y, k, p)}}
QueueHas(q, k, p) == {e.packet.slots : e \in {f \in Range(q) : Carries(f, k, p)}}
Has(k, n, p)      == BusHas(bus[n], k, p) \cup QueueHas(queue[n], k, p)

(* Of the exchange that n began with p. *)
Underway(k, n, p) == IF k \in Asking THEN Has(k, n, p) ELSE Has(k, p, n)

Bearing(k, p)  == {x \in Message : Bears(x, k, p)}
Carrying(k, p) == {e \in Entry : Carries(e, k, p)}

TxCell(g, c, p)  == g[c].state = "TX" /\ g[c].mac = p
RequestTo(x, p)  == x.to = "AI" /\ x.type = "GET_PROPOSED" /\ x.mac = p

Exclusive(n, p) ==
  \A k, l \in Stage : Underway(k, n, p) # {} /\ Underway(l, n, p) # {} => k = l
Unique(n, p) ==
  Once(bus[n], Bearing(1, p)) /\ \A k \in Stage : Once(queue[n], Carrying(k, p))
Asked(n, p) ==
  (\E x \in Range(bus[n]) : RequestTo(x, p)) /\ p \notin pendingTx[n]
    => \A k \in Stage : Underway(k, n, p) = {}
Untold(n, p) ==
  \A c \in Cell : TxCell(grid[n], c, p)
    => \A k \in Stage : \A told \in Underway(k, n, p) : c \notin told

ExchangeInv ==
  \A n \in Node : /\ unacked[n] = <<>>
                  /\ \A p \in Node : /\ Exclusive(n, p) /\ Unique(n, p)
                                     /\ Asked(n, p) /\ Untold(n, p)

-----------------------------------------------------------------------------
(* What is left of a bus and a queue *)

NewOn(m, ms, k, p) == {Told(x) : x \in {y \in Sent(m, ms) : Bears(y, k, p)}}

LEMMA BusLeft ==
  ASSUME NEW b, NEW h, NEW m, NEW ms, NEW c, HeadHandled(b, h, m, ms, c), NEW k, NEW p
  PROVE  BusHas(c, k, p) \subseteq BusHas(b, k, p) \cup NewOn(m, ms, k, p)
BY DEF HeadHandled, BusHas, NewOn

LEMMA BusEmptied ==
  ASSUME NEW b, NEW h, NEW m, NEW ms, NEW c, HeadHandled(b, h, m, ms, c), NEW S,
         Rest(b) \cap S = {}, NEW k, NEW p, \A x \in Range(b) : Bears(x, k, p) => x \in S
  PROVE  BusHas(c, k, p) \subseteq NewOn(m, ms, k, p)
BY DEF HeadHandled, BusHas, NewOn

LEMMA BusGrown ==
  ASSUME NEW b, NEW m, NEW ms, NEW c, OneAdded(b, m, ms, c), NEW k, NEW p
  PROVE  BusHas(c, k, p) \subseteq BusHas(b, k, p) \cup NewOn(m, ms, k, p)
BY DEF OneAdded, BusHas, NewOn

LEMMA BusDerived ==
  ASSUME NEW x \in Message, NEW k \in Stage, NEW p, Bears(x, k, p), k # 1
  PROVE  x \in Derived
BY DEF Bears, Brought, Derived

LEMMA HasNone ==
  ASSUME NEW b, NEW x \in Range(b), NEW k, NEW p, Bears(x, k, p)
  PROVE  Told(x) \in BusHas(b, k, p)
BY DEF BusHas

(* A packet that belongs to no exchange. *)
Plain(p) == p.type \notin {"ADD_SLOT", "RESULT"}

PlainGrown(q, r) ==
  /\ \A k, p : QueueHas(r, k, p) \subseteq QueueHas(q, k, p)
  /\ \A k, p : Once(q, Carrying(k, p)) => Once(r, Carrying(k, p))

EntryFor(p) == [packet |-> p, tries |-> Tries]

JoinShape(T, q, t, r) ==
  /\ r \in Seq(T) /\ Len(r) = Len(q) + Len(t) /\ Len(q) \in Nat /\ Len(t) \in Nat
  /\ \A j \in 1 .. Len(q) + Len(t) : r[j] = IF j <= Len(q) THEN q[j] ELSE t[j - Len(q)]

LEMMA Joined ==
  ASSUME NEW T, NEW q \in Seq(T), NEW t \in Seq(T), NEW r, r = q \o t
  PROVE  JoinShape(T, q, t, r)
BY DEF JoinShape

GrownBy(q, packets, r) ==
  /\ \A j \in DOMAIN r : \/ j \in DOMAIN q /\ r[j] = q[j]
                         \/ /\ j - Len(q) \in DOMAIN packets
                            /\ r[j] = EntryFor(packets[j - Len(q)])
  /\ Len(q) \in Nat /\ r \in Seq(Entry)

LEMMA QueueGrown ==
  ASSUME NEW q \in Seq(Entry), NEW packets \in Seq(Packet),
         NEW r, r = q \o [i \in DOMAIN packets |-> EntryFor(packets[i])]
  PROVE  GrownBy(q, packets, r)
<1>1. PICK t : t = [i \in DOMAIN packets |-> EntryFor(packets[i])]
  OBVIOUS
<1>2. \A i \in DOMAIN packets : t[i] = EntryFor(packets[i]) /\ t[i] \in Entry
  BY <1>1, RadioAssumption DEF EntryFor, Entry
<1>3. t \in Seq(Entry) /\ Len(t) = Len(packets) /\ DOMAIN t = DOMAIN packets
  <2>1. DOMAIN packets = 1 .. Len(packets) /\ Len(packets) \in Nat
    OBVIOUS
  <2>2. t \in [1 .. Len(packets) -> Entry]
    BY <1>1, <1>2, <2>1
  <2> QED
    BY <2>1, <2>2
<1>4. r = q \o t
  BY <1>1
<1>5. /\ r \in Seq(Entry) /\ Len(r) = Len(q) + Len(t) /\ Len(q) \in Nat /\ Len(t) \in Nat
      /\ \A j \in 1 .. Len(q) + Len(t) :
           r[j] = IF j <= Len(q) THEN q[j] ELSE t[j - Len(q)]
  <2>1. JoinShape(Entry, q, t, r)
    BY <1>3, <1>4, Joined, Zenon
  <2> QED
    BY <2>1 DEF JoinShape
<1>6. \A j \in DOMAIN r : \/ j \in DOMAIN q /\ r[j] = q[j]
                          \/ j - Len(q) \in DOMAIN t /\ r[j] = t[j - Len(q)]
  <2>1. DOMAIN r = 1 .. Len(q) + Len(t) /\ DOMAIN q = 1 .. Len(q) /\ DOMAIN t = 1 .. Len(t)
    BY <1>3, <1>5
  <2> QED
    BY <1>5, <2>1
<1> QED
  BY <1>2, <1>3, <1>5, <1>6 DEF GrownBy

LEMMA PlainAdded ==
  ASSUME NEW q \in Seq(Entry), NEW packets \in Seq(Packet),
         \A i \in DOMAIN packets : Plain(packets[i]),
         NEW r, r = q \o [i \in DOMAIN packets |-> EntryFor(packets[i])]
  PROVE  PlainGrown(q, r)
<1>1. \A j \in DOMAIN r : \/ j \in DOMAIN q /\ r[j] = q[j]
                          \/ /\ j - Len(q) \in DOMAIN packets
                             /\ r[j] = EntryFor(packets[j - Len(q)])
  <2>1. GrownBy(q, packets, r)
    BY QueueGrown, Zenon
  <2> QED
    BY <2>1 DEF GrownBy
<1>2. \A j \in DOMAIN r : \A k, p : Carries(r[j], k, p) => j \in DOMAIN q /\ r[j] = q[j]
  BY <1>1 DEF Plain, Carries, IsPacket, EntryFor
<1>3. ASSUME NEW k, NEW p PROVE QueueHas(r, k, p) \subseteq QueueHas(q, k, p)
  <2>1. ASSUME NEW e \in Range(r), Carries(e, k, p) PROVE e \in Range(q)
    BY <1>2, <2>1 DEF Range
  <2> QED
    BY <2>1 DEF QueueHas
<1>4. \A k, p : Once(q, Carrying(k, p)) => Once(r, Carrying(k, p))
  BY <1>2 DEF Once, Carrying
<1> QED
  BY <1>3, <1>4 DEF PlainGrown

(* One packet that does. *)
Posted(q, packet, r) ==
  /\ \A k, p : QueueHas(r, k, p) \subseteq
                 QueueHas(q, k, p) \cup
                 (IF Carries(EntryFor(packet), k, p) THEN {packet.slots} ELSE {})
  /\ \A k, p : /\ Once(q, Carrying(k, p))
               /\ Carries(EntryFor(packet), k, p) => QueueHas(q, k, p) = {}
               => Once(r, Carrying(k, p))

LEMMA OnePosted ==
  ASSUME NEW q \in Seq(Entry), NEW packet \in Packet, NEW packets, packets = <<packet>>,
         NEW r, r = q \o [i \in DOMAIN packets |-> EntryFor(packets[i])]
  PROVE  Posted(q, packet, r)
<1>1. packets \in Seq(Packet) /\ DOMAIN packets = {1} /\ packets[1] = packet
  OBVIOUS
<1>2. /\ \A j \in DOMAIN r : \/ j \in DOMAIN q /\ r[j] = q[j]
                             \/ /\ j - Len(q) \in DOMAIN packets
                                /\ r[j] = EntryFor(packets[j - Len(q)])
      /\ Len(q) \in Nat /\ r \in Seq(Entry)
  <2>1. GrownBy(q, packets, r)
    BY <1>1, QueueGrown
  <2> QED
    BY <2>1 DEF GrownBy
<1>3. \A j \in DOMAIN r : \/ j \in DOMAIN q /\ r[j] = q[j]
                          \/ j = Len(q) + 1 /\ r[j] = EntryFor(packet)
  <2>1. \A j \in DOMAIN r : j \in Nat
    BY <1>2
  <2> QED
    BY <1>1, <1>2, <2>1
<1>4. ASSUME NEW k, NEW p
      PROVE  QueueHas(r, k, p) \subseteq
               QueueHas(q, k, p) \cup
               (IF Carries(EntryFor(packet), k, p) THEN {packet.slots} ELSE {})
  <2>1. EntryFor(packet).packet = packet
    BY DEF EntryFor
  <2>2. \A e \in Range(r) : e \in Range(q) \/ e = EntryFor(packet)
    BY <1>3 DEF Range
  <2> QED
    BY <2>1, <2>2 DEF QueueHas
<1>5. ASSUME NEW k, NEW p, Once(q, Carrying(k, p)),
             Carries(EntryFor(packet), k, p) => QueueHas(q, k, p) = {}
      PROVE  Once(r, Carrying(k, p))
  <2>1. CASE Carries(EntryFor(packet), k, p)
    <3>1. \A i \in DOMAIN q : q[i] \notin Carrying(k, p)
      BY <1>5, <2>1 DEF QueueHas, Carrying, Range
    <3> QED
      BY <1>3, <3>1 DEF Once
  <2>2. CASE ~Carries(EntryFor(packet), k, p)
    BY <1>3, <1>5, <2>2 DEF Once, Carrying
  <2> QED
    BY <2>1, <2>2
<1> QED
  BY <1>4, <1>5 DEF Posted

(* The first packet leaves. *)
Unposted(q, e, r) ==
  /\ Range(r) \subseteq Range(q) /\ e \in Range(q)
  /\ \A k, p : Once(q, Carrying(k, p)) => Once(r, Carrying(k, p))
  /\ \A k, p : Once(q, Carrying(k, p)) /\ Carries(e, k, p) => QueueHas(r, k, p) = {}

LEMMA FirstLeaves ==
  ASSUME NEW q \in Seq(Entry), q # <<>>, NEW e, e = Head(q), NEW r, r = Tail(q)
  PROVE  Unposted(q, e, r)
<1>1. PICK m, ms : m = 0 /\ ms = <<>>
  OBVIOUS
<1>2. IsSeq(q) /\ ms \in {<<>>, <<m>>} /\ ms # <<m>>
  BY <1>1 DEF IsSeq
<1>3. r = Tail(q) \o ms
  BY <1>1
<1>4. HeadHandled(q, e, m, ms, r)
  BY <1>2, <1>3, HeadRest
<1>5. Range(q) = {e} \cup Rest(q) /\ Range(r) = Rest(q)
  BY <1>2, <1>4 DEF HeadHandled, Sent
<1>6. ASSUME NEW k, NEW p, Once(q, Carrying(k, p)) PROVE Once(r, Carrying(k, p))
  BY <1>2, <1>3, <1>6, OnceTail
<1>7. ASSUME NEW k, NEW p, Once(q, Carrying(k, p)), Carries(e, k, p)
      PROVE  QueueHas(r, k, p) = {}
  <2>1. Range(q) \subseteq Entry
    BY DEF Range
  <2>2. e \in Carrying(k, p)
    BY <1>5, <1>7, <2>1 DEF Carrying
  <2>3. Rest(q) \cap Carrying(k, p) = {}
    BY <1>2, <1>7, <2>2, OnceHead
  <2> QED
    BY <1>5, <2>1, <2>3 DEF QueueHas, Carrying
<1> QED
  BY <1>5, <1>6, <1>7 DEF Unposted

-----------------------------------------------------------------------------
(* What a handler does to the exchanges *)

(* The packet that the handler of h queues for an exchange. *)
Posts(h, packet) ==
  \/ /\ h.to = "MAC" /\ h.type = "GETR_PROPOSED" /\ h.slots # {}
     /\ packet = AddSlotPacket(h.mac, h.slots)
  \/ /\ h.to = "MAC" /\ h.type = "GETR_SELECTED" /\ h.slot # NoSlot
     /\ packet = ResultPacket(h.mac, h.slot)

QueueEffect(q, h, r) ==
  PlainGrown(q, r) \/ \E packet : Posts(h, packet) /\ Posted(q, packet, r)

GrantedBy(h, p) == h.to = "AI" /\ h.type = "SET_ALLOCATION" /\ h.mode = "TX" /\ h.mac = p

(* A cell becomes one to transmit in, and a proposal ends, by a grant. *)
GridEffect(g, P, h, f, Q) ==
  /\ \A c \in Cell : \A p : TxCell(f, c, p) => TxCell(g, c, p) \/ GrantedBy(h, p)
  /\ \A p : p \in P => p \in Q \/ GrantedBy(h, p)

(* What is proposed is offered, and to a peer that has no offer. *)
ProposalEffect(P, h, m, ms, f, Q) ==
  h.to = "AI" /\ h.type = "GET_PROPOSED" /\ ms = <<m>>
    => /\ h.mac \notin P /\ (m.slots # {} => h.mac \in Q)
       /\ \A c \in m.slots : \A p : ~TxCell(f, c, p)

Effects(n, h, m, ms) ==
  /\ Handles(n, h, m, ms)
  /\ QueueEffect(queue[n], h, queue'[n]) /\ unacked'[n] = unacked[n]
  /\ GridEffect(grid[n], pendingTx[n], h, grid'[n], pendingTx'[n])
  /\ ProposalEffect(pendingTx[n], h, m, ms, grid'[n], pendingTx'[n])

LEMMA SameQueue == ASSUME NEW q PROVE PlainGrown(q, q)
BY DEF PlainGrown

LEMMA SentQueue ==
  ASSUME PacketsTyped, NEW n \in Node, NEW packets, Sends(n, packets)
  PROVE  /\ queue[n] \in Seq(Entry) /\ unacked'[n] = unacked[n]
         /\ queue'[n] = queue[n] \o [i \in DOMAIN packets |-> EntryFor(packets[i])]
BY DEF PacketsTyped, Sends, Queued, EntryFor

LEMMA PlainSent ==
  ASSUME PacketsTyped, NEW n \in Node, NEW packets \in Seq(Packet), Sends(n, packets),
         \A i \in DOMAIN packets : Plain(packets[i])
  PROVE  PlainGrown(queue[n], queue'[n]) /\ unacked'[n] = unacked[n]
<1>1. /\ queue[n] \in Seq(Entry) /\ unacked'[n] = unacked[n]
      /\ queue'[n] = queue[n] \o [i \in DOMAIN packets |-> EntryFor(packets[i])]
  BY SentQueue
<1>2. PICK q, r : q = queue[n] /\ r = queue'[n]
  OBVIOUS
<1>3. q \in Seq(Entry) /\ r = q \o [i \in DOMAIN packets |-> EntryFor(packets[i])]
  BY <1>1, <1>2
<1>4. PlainGrown(q, r)
  BY <1>3, PlainAdded, Zenon
<1> QED
  BY <1>1, <1>2, <1>4

LEMMA OneSent ==
  ASSUME PacketsTyped, NEW n \in Node, NEW packet \in Packet, Sends(n, <<packet>>)
  PROVE  Posted(queue[n], packet, queue'[n]) /\ unacked'[n] = unacked[n]
<1>1. PICK packets : packets = <<packet>>
  OBVIOUS
<1>2. /\ queue[n] \in Seq(Entry) /\ unacked'[n] = unacked[n]
      /\ queue'[n] = queue[n] \o [i \in DOMAIN packets |-> EntryFor(packets[i])]
  BY <1>1, SentQueue
<1>3. PICK q, r : q = queue[n] /\ r = queue'[n]
  OBVIOUS
<1>4. q \in Seq(Entry) /\ r = q \o [i \in DOMAIN packets |-> EntryFor(packets[i])]
  BY <1>2, <1>3
<1>5. Posted(q, packet, r)
  BY <1>1, <1>4, OnePosted, Zenon
<1> QED
  BY <1>2, <1>3, <1>5

(* What is sent beside the exchanges. *)
PlainPackets(packets) ==
  packets \in Seq(Packet) /\ \A i \in DOMAIN packets : Plain(packets[i])

LEMMA PlainOnes ==
  ASSUME NEW mac \in Node, NEW c \in Cell, NEW slots \in SUBSET Cell, NEW n
  PROVE  /\ PlainPackets(<<>>)
         /\ PlainPackets(<<DeletePacket(mac, c)>>)
         /\ PlainPackets(IfHeard(n, AckPacket("ACK_ADD", mac, c)))
         /\ PlainPackets(IfHeard(n, AckPacket("ACK_DELETE", mac, c)))
         /\ PlainPackets(IfHeard(n, AdvertPacket(slots)))
         /\ PlainPackets(<<DeletePacket(mac, c)>>
                           \o IfHeard(n, AckPacket("ACK_DELETE", mac, c)))
<1>1. ASSUME NEW p \in Packet, Plain(p)
      PROVE  PlainPackets(<<p>>) /\ PlainPackets(IfHeard(n, p))
  BY <1>1 DEF PlainPackets, IfHeard
<1>2. PICK d, a, b, v :
        /\ d = DeletePacket(mac, c) /\ a = AckPacket("ACK_DELETE", mac, c)
        /\ b = AckPacket("ACK_ADD", mac, c) /\ v = AdvertPacket(slots)
  OBVIOUS
<1>3. d \in Packet /\ a \in Packet /\ b \in Packet /\ v \in Packet
  BY <1>2, PacketTypes
<1>4. Plain(d) /\ Plain(a) /\ Plain(b) /\ Plain(v)
  BY <1>2 DEF DeletePacket, AckPacket, AdvertPacket, Plain
<1>5. PlainPackets(<<d>> \o IfHeard(n, a))
  <2>1. CASE IfHeard(n, a) = <<>>
    <3>1. <<d>> \o <<>> = <<d>>
      BY <1>3
    <3> QED
      BY <1>1, <1>3, <1>4, <2>1, <3>1
  <2>2. CASE IfHeard(n, a) = <<a>>
    <3>1. PICK q, t, r : q = <<d>> /\ t = <<a>> /\ r = q \o t
      OBVIOUS
    <3>2. /\ q \in Seq(Packet) /\ Len(q) = 1 /\ q[1] = d
          /\ t \in Seq(Packet) /\ Len(t) = 1 /\ t[1] = a
      BY <1>3, <3>1
    <3>3. JoinShape(Packet, q, t, r)
      BY <3>1, <3>2, Joined, Zenon
    <3>4. r \in Seq(Packet) /\ DOMAIN r = 1 .. 2 /\ r[1] = d /\ r[2] = a
      BY <3>2, <3>3 DEF JoinShape
    <3>5. PlainPackets(r)
      BY <1>4, <3>4 DEF PlainPackets
    <3> QED
      BY <2>2, <3>1, <3>5
  <2> QED
    BY <2>1, <2>2 DEF IfHeard
<1>6. PlainPackets(<<>>)
  BY DEF PlainPackets
<1> QED
  BY <1>1, <1>2, <1>3, <1>4, <1>5, <1>6

LEMMA MacQueues ==
  ASSUME ProtocolInv, NEW n \in Node, MacHandles(n), NEW h, h = Head(bus[n])
  PROVE  QueueEffect(queue[n], h, queue'[n]) /\ unacked'[n] = unacked[n]
<1>1. bus[n] # <<>> /\ h.to = "MAC" /\ PacketsTyped
  BY ZenonT(60) DEF MacHandles, SendProposal, SendSelection, RemoveForSelection, FinishAllocation,
     FinishRemoval, FinishOther, ReceiveAddSlot, ReceiveResult, ReceiveDelete,
     ReceiveAdvertisement, ReceiveAckDelete, Received, Addressed, ProtocolInv
<1>2. h \in Message
  BY <1>1, ProtocolStation
<1>3. ASSUME NEW packets, PlainPackets(packets), Sends(n, packets)
      PROVE  QueueEffect(queue[n], h, queue'[n]) /\ unacked'[n] = unacked[n]
  BY <1>1, <1>3, PlainSent DEF PlainPackets, QueueEffect
<1>4. ASSUME UNCHANGED radioVars
      PROVE  QueueEffect(queue[n], h, queue'[n]) /\ unacked'[n] = unacked[n]
  BY <1>4, SameQueue DEF radioVars, QueueEffect
<1>5. PlainPackets(<<>>)
  BY DEF PlainPackets
<1>6. CASE SendProposal(n)
  <2>1. /\ h.type = "GETR_PROPOSED"
        /\ Sends(n, IF h.slots = {} THEN <<>> ELSE <<AddSlotPacket(h.mac, h.slots)>>)
    BY <1>6 DEF SendProposal, Addressed
  <2>2. h.mac \in Node /\ h.slots \in SUBSET Cell
    BY <1>1, <1>2, <2>1, MacMessage
  <2>3. CASE h.slots = {}
    BY <1>3, <1>5, <2>1, <2>3
  <2>4. CASE h.slots # {}
    <3>1. PICK packet : packet = AddSlotPacket(h.mac, h.slots)
      OBVIOUS
    <3>2. packet \in Packet /\ Sends(n, <<packet>>)
      BY <2>1, <2>2, <2>4, <3>1, PacketTypes
    <3>3. Posted(queue[n], packet, queue'[n]) /\ unacked'[n] = unacked[n]
      BY <1>1, <3>2, OneSent
    <3>4. Posts(h, packet)
      BY <1>1, <2>1, <2>4, <3>1 DEF Posts
    <3> QED
      BY <3>3, <3>4 DEF QueueEffect
  <2> QED
    BY <2>3, <2>4
<1>7. CASE SendSelection(n)
  <2>1. /\ h.type = "GETR_SELECTED"
        /\ \/ UNCHANGED radioVars
           \/ h.slot # NoSlot /\ Sends(n, <<ResultPacket(h.mac, h.slot)>>)
    BY <1>7 DEF SendSelection, Addressed
  <2>2. h.mac \in Node /\ h.slot \in Cell \cup {NoSlot}
    BY <1>1, <1>2, <2>1, MacMessage
  <2>3. CASE h.slot # NoSlot /\ Sends(n, <<ResultPacket(h.mac, h.slot)>>)
    <3>1. PICK packet : packet = ResultPacket(h.mac, h.slot)
      OBVIOUS
    <3>2. packet \in Packet /\ Sends(n, <<packet>>)
      BY <2>2, <2>3, <3>1, PacketTypes
    <3>3. Posted(queue[n], packet, queue'[n]) /\ unacked'[n] = unacked[n]
      BY <1>1, <3>2, OneSent
    <3>4. Posts(h, packet)
      BY <1>1, <2>1, <2>3, <3>1 DEF Posts
    <3> QED
      BY <3>3, <3>4 DEF QueueEffect
  <2> QED
    BY <1>4, <2>1, <2>3
<1>8. CASE RemoveForSelection(n)
  <2>1. /\ h.type = "SET_REMOVAL"
        /\ Sends(n, <<DeletePacket(h.mac, h.slot)>>
                      \o IfHeard(n, AckPacket("ACK_DELETE", h.mac, h.slot)))
    BY <1>8 DEF RemoveForSelection, Addressed
  <2>2. h.mac \in Node /\ h.slot \in Cell
    BY <1>1, <1>2, <2>1, MacMessage
  <2>3. PlainPackets(<<DeletePacket(h.mac, h.slot)>>
                       \o IfHeard(n, AckPacket("ACK_DELETE", h.mac, h.slot)))
    BY <2>2, PlainOnes
  <2> QED
    BY <1>3, <2>1, <2>3
<1>9. CASE FinishAllocation(n) \/ FinishRemoval(n)
  <2>1. PICK p : p = procedures[n][h.id]
    OBVIOUS
  <2>2. /\ p.set = "ALLOCATION" \/ p.set = "REMOVAL"
        /\ Known(n, h.id)
        /\ \/ Sends(n, <<>>) \/ Sends(n, <<DeletePacket(p.mac, p.slot)>>)
           \/ Sends(n, IfHeard(n, AckPacket("ACK_ADD", p.mac, p.slot)))
           \/ Sends(n, IfHeard(n, AckPacket("ACK_DELETE", p.mac, p.slot)))
    <3>1. CASE FinishAllocation(n)
      BY <2>1, <3>1, SMTT(30) DEF FinishAllocation
    <3>2. CASE FinishRemoval(n)
      BY <2>1, <3>2, ZenonT(60) DEF FinishRemoval
    <3> QED
      BY <1>9, <3>1, <3>2, SMTT(30)
  <2>3. p \in Procedure
    BY <2>1, <2>2 DEF Known, ProtocolInv, ProceduresTyped
  <2>4. p.mac \in Node /\ p.slot \in Cell
    BY <2>2, <2>3 DEF Procedure, Announcements, Allocations, Removals
  <2>5. /\ PlainPackets(<<DeletePacket(p.mac, p.slot)>>)
        /\ PlainPackets(IfHeard(n, AckPacket("ACK_ADD", p.mac, p.slot)))
        /\ PlainPackets(IfHeard(n, AckPacket("ACK_DELETE", p.mac, p.slot)))
    BY <2>4, PlainOnes
  <2> QED
    BY <1>3, <1>5, <2>2, <2>5
<1>10. CASE \/ FinishOther(n) \/ ReceiveAddSlot(n) \/ ReceiveResult(n) \/ ReceiveDelete(n)
            \/ ReceiveAdvertisement(n) \/ ReceiveAckDelete(n)
  <2>1. UNCHANGED radioVars
    BY <1>10 DEF FinishOther, ReceiveAddSlot, ReceiveResult, ReceiveDelete,
       ReceiveAdvertisement, ReceiveAckDelete
  <2> QED
    BY <1>4, <2>1
<1> QED
  BY <1>6, <1>7, <1>8, <1>9, <1>10, SMTT(30) DEF MacHandles

LEMMA SilentHead ==
  ASSUME Domains, NEW n \in Node, bus[n] # <<>>, Answers(n, <<>>), NEW h, h = Head(bus[n]),
         procedures'[n] = procedures[n], nextId'[n] = nextId[n], removals'[n] = removals[n]
  PROVE  Handles(n, h, 0, <<>>)
<1>1. PICK m, ms : m = 0 /\ ms = <<>>
  OBVIOUS
<1>2. ms # <<m>> /\ ms \in {<<>>, <<m>>}
  BY <1>1
<1>3. RestKept(bus[n], procedures[n], procedures'[n])
  BY SameProcedures
<1>4. KeepsAccount(n, m, ms)
  BY <1>2, <1>3 DEF KeepsAccount
<1>5. bus'[n] = Tail(bus[n]) \o ms
  BY <1>1 DEF Answers, Domains
<1>6. Handles(n, h, m, ms)
  BY <1>2, <1>4, <1>5 DEF Handles
<1> QED
  BY <1>1, <1>6

(* Grids whose cells to transmit in are those of another. *)
TxWithin(g, f) == \A c \in Cell : \A p : TxCell(f, c, p) => TxCell(g, c, p)

LEMMA FreedWithin ==
  ASSUME NEW g, NEW cells PROVE TxWithin(g, FreeSlots(g, cells))
BY DEF TxWithin, TxCell, FreeSlots, FreeInfo

LEMMA MarkedWithin ==
  ASSUME NEW g \in Grid, NEW due, NEW id PROVE TxWithin(g, MarkRemoval(g, due, id))
<1>1. CASE due = NoSlot \/ ~(IsSlotAllocated(g, due) /\ ~IsRemovePending(g, due))
  BY <1>1 DEF MarkRemoval, SetPendingRemoval, TxWithin
<1>2. CASE due # NoSlot /\ IsSlotAllocated(g, due) /\ ~IsRemovePending(g, due)
  <2>1. MarkRemoval(g, due, id) = [g EXCEPT ![due].removal = id]
    BY <1>2 DEF MarkRemoval, SetPendingRemoval
  <2> QED
    BY <2>1 DEF TxWithin, TxCell, Grid, SlotInfo
<1> QED
  BY <1>1, <1>2

LEMMA UnmarkedWithin ==
  ASSUME NEW g \in Grid, NEW ids PROVE TxWithin(g, AbortPendingRemovals(g, ids))
BY DEF AbortPendingRemovals, TxWithin, TxCell, Grid, SlotInfo

(* What a handler of the slot selection but that of GET_PROPOSED does to the grid. *)
LEMMA SelectionGrids ==
  ASSUME ProtocolInv, NEW n \in Node, SelectionHandles(n), ~ProposeSlots(n),
         NEW h, h = Head(bus[n])
  PROVE  GridEffect(grid[n], pendingTx[n], h, grid'[n], pendingTx'[n])
<1>1. grid[n] \in Grid /\ DOMAIN grid = Node /\ DOMAIN pendingTx = Node /\ Domains
  BY ProtocolGrid, ProtocolDomains DEF Domains
<1>2. ASSUME TxWithin(grid[n], grid'[n]), pendingTx'[n] = pendingTx[n]
      PROVE  GridEffect(grid[n], pendingTx[n], h, grid'[n], pendingTx'[n])
  BY <1>2 DEF TxWithin, GridEffect
<1>3. TxWithin(grid[n], grid[n])
  BY DEF TxWithin
<1>4. CASE \/ IgnoreRequest(n) \/ RefuseAllocation(n) \/ ExternalSlotsAllocated(n)
           \/ ExternalSlotRemoved(n)
  <2>1. grid'[n] = grid[n] /\ pendingTx'[n] = pendingTx[n]
    BY <1>4 DEF IgnoreRequest, RefuseAllocation, ExternalSlotsAllocated, ExternalSlotRemoved,
       gridVars
  <2> QED
    BY <1>2, <1>3, <2>1
<1>5. CASE AllocateReservedSlots(n)
  <2>1. grid'[n] = SetSlotsReserved(grid[n], Reserved) /\ pendingTx'[n] = pendingTx[n]
    BY <1>1, <1>5 DEF AllocateReservedSlots
  <2>2. TxWithin(grid[n], SetSlotsReserved(grid[n], Reserved))
    BY DEF TxWithin, TxCell, SetSlotsReserved
  <2> QED
    BY <1>2, <2>1, <2>2
<1>6. CASE SelectSlot(n)
  <2>1. /\ \/ grid'[n] = grid[n]
           \/ \E c : grid'[n] = SetSlotPending(grid[n], c, "PROPOSED_RX", h.mac)
        /\ pendingTx'[n] = pendingTx[n]
    BY <1>1, <1>6 DEF SelectSlot
  <2>2. ASSUME NEW c PROVE TxWithin(grid[n], SetSlotPending(grid[n], c, "PROPOSED_RX", h.mac))
    <3>1. PICK v : v = [state |-> "PROPOSED_RX", mac |-> h.mac, removal |-> 0]
      OBVIOUS
    <3>2. TxWithin(grid[n], [grid[n] EXCEPT ![c] = v])
      BY <1>1, <3>1 DEF TxWithin, TxCell, Grid
    <3> QED
      BY <1>3, <3>1, <3>2 DEF SetSlotPending
  <2> QED
    BY <1>2, <1>3, <2>1, <2>2
<1>7. CASE RemoveSlot(n)
  <2>1. /\ grid'[n] = grid[n] \/ grid'[n] = FreeSlots(grid[n], {h.slot})
        /\ pendingTx'[n] = pendingTx[n]
    BY <1>1, <1>7 DEF RemoveSlot
  <2> QED
    BY <1>2, <1>3, <2>1, FreedWithin
<1>8. CASE ProcessSetResponse(n)
  <2>1. /\ \/ grid'[n] = grid[n]
           \/ grid'[n] = FreeSlots(grid[n], First(RemovalCells(grid[n], h.id)))
        /\ pendingTx'[n] = pendingTx[n]
    BY <1>1, <1>8 DEF ProcessSetResponse, ExecutePendingRemoval
  <2> QED
    BY <1>2, <1>3, <2>1, FreedWithin
<1>9. CASE ProcessStats(n)
  <2>1. /\ \E due : grid'[n] = MarkRemoval(grid[n], due, nextId[n])
        /\ pendingTx'[n] = pendingTx[n]
    BY <1>1, <1>9 DEF ProcessStats
  <2> QED
    BY <1>1, <1>2, <2>1, MarkedWithin
<1>10. CASE AllocateSlot(n)
  <2>1. PICK g : g = IF AlreadyAllocated(n, h) THEN grid[n]
                     ELSE SetSlotAllocated(grid[n], h.slot, h.mode, h.mac)
    OBVIOUS
  <2>2. /\ h.to = "AI" /\ h.type = "SET_ALLOCATION" /\ bus[n] # <<>>
        /\ \/ /\ h.mode = "TX" /\ grid'[n] = AbortTXProposals(g, {h.mac})
              /\ pendingTx'[n] = pendingTx[n] \ {h.mac}
           \/ h.mode = "RX" /\ grid'[n] = g /\ pendingTx'[n] = pendingTx[n]
    BY <1>1, <1>10, <2>1 DEF AllocateSlot, Addressed
  <2>3. \A c \in Cell : \A p : TxCell(g, c, p) => TxCell(grid[n], c, p) \/ GrantedBy(h, p)
    <3>1. PICK v : v = [state |-> h.mode, mac |-> h.mac, removal |-> 0]
      OBVIOUS
    <3>2. \A c \in Cell : \A p : TxCell([grid[n] EXCEPT ![h.slot] = v], c, p)
                             => TxCell(grid[n], c, p) \/ GrantedBy(h, p)
      BY <1>1, <2>2, <3>1 DEF TxCell, GrantedBy, Grid
    <3>3. g = grid[n] \/ g = [grid[n] EXCEPT ![h.slot] = v]
      BY <2>1, <3>1 DEF SetSlotAllocated
    <3> QED
      BY <3>2, <3>3
  <2>4. TxWithin(g, AbortTXProposals(g, {h.mac}))
    BY FreedWithin DEF AbortTXProposals
  <2>5. \A c \in Cell : \A p : TxCell(grid'[n], c, p) => TxCell(grid[n], c, p) \/ GrantedBy(h, p)
    BY <2>2, <2>3, <2>4 DEF TxWithin
  <2>6. \A p : p \in pendingTx[n] => p \in pendingTx'[n] \/ GrantedBy(h, p)
    BY <2>2 DEF GrantedBy
  <2> QED
    BY <2>5, <2>6 DEF GridEffect
<1> QED
  BY <1>4, <1>5, <1>6, <1>7, <1>8, <1>9, <1>10 DEF SelectionHandles

LEMMA ProposeEffects ==
  ASSUME ProtocolInv, NEW n \in Node, ProposeSlots(n), UNCHANGED <<macVars, radioVars>>
  PROVE  \E h, m, ms : Effects(n, h, m, ms)
<1>1. grid[n] \in Grid /\ Domains
  BY ProtocolGrid, ProtocolDomains
<1>2. PICK h : h = Head(bus[n])
  OBVIOUS
<1>3. PICK accepted :
        /\ grid' = [grid EXCEPT ![n] = [c \in Cell |->
                      IF c \in accepted
                      THEN [state |-> "PROPOSED_TX", mac |-> h.mac, removal |-> 0]
                      ELSE @[c]]]
        /\ pendingTx' = [pendingTx EXCEPT ![n] = IF accepted = {} THEN @ ELSE @ \cup {h.mac}]
        /\ Answers(n, <<[to |-> "MAC", type |-> "GETR_PROPOSED", id |-> h.id,
                         mac |-> h.mac, slots |-> accepted]>>)
        /\ \E choice \in TxChoices(n) : accepted \subseteq choice
  <2>1. PICK choice \in TxChoices(n) :
          LET chosen == {c \in choice : IsSetPendingAllowed(grid[n], c, "PROPOSED_TX", h.mac)}
          IN  /\ grid' = [grid EXCEPT ![n] = [c \in Cell |->
                            IF c \in chosen
                            THEN [state |-> "PROPOSED_TX", mac |-> h.mac, removal |-> 0]
                            ELSE @[c]]]
              /\ pendingTx' = [pendingTx EXCEPT ![n] =
                                 IF chosen = {} THEN @ ELSE @ \cup {h.mac}]
              /\ Answers(n, <<[to |-> "MAC", type |-> "GETR_PROPOSED", id |-> h.id,
                               mac |-> h.mac, slots |-> chosen]>>)
    BY <1>2 DEF ProposeSlots
  <2>2. PICK chosen : chosen = {c \in choice :
                                  IsSetPendingAllowed(grid[n], c, "PROPOSED_TX", h.mac)}
    OBVIOUS
  <2>3. chosen \subseteq choice
    BY <2>2
  <2> QED
    BY <2>1, <2>2, <2>3
<1>4. /\ bus[n] # <<>> /\ h.to = "AI" /\ h.type = "GET_PROPOSED" /\ h.mac \notin pendingTx[n]
      /\ nextId'[n] = nextId[n] /\ removals'[n] = removals[n]
  BY <1>2 DEF ProposeSlots, Addressed
<1>5. PICK m, ms : /\ m = [to |-> "MAC", type |-> "GETR_PROPOSED", id |-> h.id,
                           mac |-> h.mac, slots |-> accepted]
                   /\ ms = <<m>>
  OBVIOUS
<1>6. Handles(n, h, m, ms)
  <2>1. Causes(h, m) /\ ~RemovalAsked(m) /\ Vowed(procedures'[n], m)
    BY <1>4, <1>5 DEF Causes, RemovalAsked, Vowed
  <2>2. procedures'[n] = procedures[n] /\ RestKept(bus[n], procedures[n], procedures'[n])
    BY SameProcedures DEF macVars
  <2>3. KeepsAccount(n, m, ms)
    BY <1>4, <1>5, <2>1, <2>2 DEF KeepsAccount
  <2>4. Answers(n, <<m>>)
    BY <1>3, <1>5
  <2> QED
    BY <1>1, <1>2, <1>4, <1>5, <2>1, <2>3, <2>4, SendingHandles
<1>7. PICK f : f = [c \in Cell |-> IF c \in accepted
                                   THEN [state |-> "PROPOSED_TX", mac |-> h.mac, removal |-> 0]
                                   ELSE grid[n][c]]
  OBVIOUS
<1>8. grid'[n] = f /\ pendingTx'[n] = IF accepted = {} THEN pendingTx[n]
                                      ELSE pendingTx[n] \cup {h.mac}
  BY <1>1, <1>3, <1>7 DEF Domains
<1>9. GridEffect(grid[n], pendingTx[n], h, grid'[n], pendingTx'[n])
  BY <1>7, <1>8 DEF GridEffect, TxCell
<1>10. ProposalEffect(pendingTx[n], h, m, ms, grid'[n], pendingTx'[n])
  <2>1. accepted \subseteq Cell
    BY <1>3 DEF TxChoices, TxCandidates
  <2> QED
    BY <2>1, <1>4, <1>5, <1>7, <1>8 DEF ProposalEffect, TxCell
<1>11. QueueEffect(queue[n], h, queue'[n]) /\ unacked'[n] = unacked[n]
  BY SameQueue DEF radioVars, QueueEffect
<1>12. Effects(n, h, m, ms)
  BY <1>6, <1>9, <1>10, <1>11 DEF Effects
<1> QED
  BY <1>12

LEMMA DrainEffects ==
  ASSUME ProtocolInv, NEW n \in Node, Drain(n)
  PROVE  OthersKeep(n) /\ \E h, m, ms : Effects(n, h, m, ms)
<1>1. Domains /\ ProcedureInv /\ OthersKeep(n)
  BY ProtocolDomains, DrainHandles DEF ProtocolInv
<1>2. CASE MacHandles(n) /\ UNCHANGED gridVars
  <2>1. PICK h, m, ms : Handles(n, h, m, ms)
    BY <1>1, <1>2, MacAccounts, SMTT(30)
  <2>2. h = Head(bus[n]) /\ h.to = "MAC"
    BY <1>2, <2>1, ZenonT(60)
    DEF Handles, MacHandles, SendProposal, SendSelection, RemoveForSelection,
       FinishAllocation, FinishRemoval, FinishOther, ReceiveAddSlot, ReceiveResult,
       ReceiveDelete, ReceiveAdvertisement, ReceiveAckDelete, Received, Addressed
  <2>3. QueueEffect(queue[n], h, queue'[n]) /\ unacked'[n] = unacked[n]
    BY <1>2, <2>2, MacQueues
  <2>4. GridEffect(grid[n], pendingTx[n], h, grid'[n], pendingTx'[n])
    BY <1>2 DEF GridEffect, gridVars
  <2>5. ProposalEffect(pendingTx[n], h, m, ms, grid'[n], pendingTx'[n])
    BY <2>2 DEF ProposalEffect
  <2>6. Effects(n, h, m, ms)
    BY <2>1, <2>3, <2>4, <2>5 DEF Effects
  <2> QED
    BY <1>1, <2>6
<1>3. CASE SelectionHandles(n) /\ UNCHANGED <<macVars, radioVars>>
  <2>1. QueueEffect(queue[n], Head(bus[n]), queue'[n]) /\ unacked'[n] = unacked[n]
    BY <1>3, SameQueue DEF radioVars, QueueEffect
  <2>2. CASE ProposeSlots(n)
    BY <1>1, <1>3, <2>2, ProposeEffects
  <2>3. CASE ~ProposeSlots(n)
    <3>1. PICK h : h = Head(bus[n])
      OBVIOUS
    <3>2. GridEffect(grid[n], pendingTx[n], h, grid'[n], pendingTx'[n])
      BY <1>3, <2>3, <3>1, SelectionGrids
    <3>3. \E m, ms : /\ Handles(n, h, m, ms)
                     /\ ProposalEffect(pendingTx[n], h, m, ms, grid'[n], pendingTx'[n])
      <4>1. CASE IgnoreRequest(n)
        <5>1. /\ bus[n] # <<>> /\ Answers(n, <<>>) /\ procedures'[n] = procedures[n]
              /\ nextId'[n] = nextId[n] /\ removals'[n] = removals[n]
          BY <1>3, <4>1 DEF IgnoreRequest, Addressed, gridVars, macVars
        <5>2. Handles(n, h, 0, <<>>)
          BY <1>1, <3>1, <5>1, SilentHead
        <5>3. PICK m, ms : m = 0 /\ ms = <<>> /\ ms # <<m>>
          OBVIOUS
        <5>4. ProposalEffect(pendingTx[n], h, m, ms, grid'[n], pendingTx'[n])
          BY <5>3 DEF ProposalEffect
        <5> QED
          BY <5>2, <5>3, <5>4
      <4>2. CASE ~IgnoreRequest(n)
        <5>1. PICK o, m, ms : Handles(n, o, m, ms)
          BY <1>1, <1>3, SelectionAccounts
        <5>2. o = h
          BY <3>1, <5>1, SMTT(30) DEF Handles
        <5>3. h.type # "GET_PROPOSED"
          BY <1>3, <2>3, <3>1, <4>2 DEF SelectionHandles, AllocateReservedSlots, SelectSlot,
             AllocateSlot, RefuseAllocation, RemoveSlot, ProcessSetResponse,
             ExternalSlotsAllocated, ExternalSlotRemoved, ProcessStats, Addressed
        <5>4. ProposalEffect(pendingTx[n], h, m, ms, grid'[n], pendingTx'[n])
          BY <5>3 DEF ProposalEffect
        <5> QED
          BY <5>1, <5>2, <5>4
      <4> QED
        BY <4>1, <4>2
    <3>4. PICK m, ms : /\ Handles(n, h, m, ms)
                       /\ ProposalEffect(pendingTx[n], h, m, ms, grid'[n], pendingTx'[n])
      BY <3>3
    <3>5. Effects(n, h, m, ms)
      BY <2>1, <3>1, <3>2, <3>4 DEF Effects
    <3> QED
      BY <1>1, <3>5
  <2> QED
    BY <2>2, <2>3
<1> QED
  BY <1>2, <1>3 DEF Drain

-----------------------------------------------------------------------------
(* A message that is handled leaves its stage; what comes of it is the next. *)

NewIn(h, k, p) ==
  IF (k = 2 /\ Bears(h, 1, p)) \/ (k = 5 /\ Bears(h, 4, p)) THEN {Told(h)} ELSE {}
Follow(h, m, ms, k, p) == NewOn(m, ms, k, p) \cup NewIn(h, k, p)

Steps == {<<1, 2>>, <<3, 3>>, <<3, 4>>, <<4, 5>>, <<6, 6>>}

HandlesAll(h, m, ms) == ms \in {<<>>, <<m>>} /\ (ms = <<m>> => Causes(h, m))

LEMMA FollowFrom ==
  ASSUME NEW h, NEW m, NEW ms, HandlesAll(h, m, ms), NEW k \in Stage, NEW p,
         Follow(h, m, ms, k, p) # {}
  PROVE  \/ k = 1 /\ RequestTo(h, p) /\ ms = <<m>> /\ m.slots # {}
         \/ \E j \in Stage : /\ Bears(h, j, p) /\ <<j, k>> \in Steps
                             /\ \A told \in Follow(h, m, ms, k, p) : told \subseteq Told(h)
<1>1. CASE NewIn(h, k, p) # {}
  <2>1. PICK j \in Stage : Bears(h, j, p) /\ <<j, k>> \in {<<1, 2>>, <<4, 5>>}
    BY <1>1 DEF NewIn, Stage
  <2>2. \A told \in NewIn(h, k, p) : told \subseteq Told(h)
    BY DEF NewIn
  <2>3. NewOn(m, ms, k, p) = {}
    BY <2>1 DEF NewOn, Bears
  <2> QED
    BY <2>1, <2>2, <2>3 DEF Steps, Follow
<1>2. CASE NewIn(h, k, p) = {} /\ NewOn(m, ms, k, p) # {}
  <2>1. ms = <<m>> /\ Bears(m, k, p) /\ Causes(h, m)
    BY <1>2 DEF NewOn, Sent, HandlesAll
  <2>2. \A told \in Follow(h, m, ms, k, p) : told = Told(m)
    BY <1>2 DEF Follow, NewOn, Sent
  <2>3. CASE k = 1
    <3>1. RequestTo(h, p) /\ m.slots # {}
      BY <2>1, <2>3 DEF Bears, Causes, RequestTo, RemovalAsked, RemovalReported, Brought
    <3> QED
      BY <2>1, <2>3, <3>1
  <2>4. CASE k = 3
    <3>1. Bears(h, 3, p) /\ Told(m) = Told(h)
      BY <2>1, <2>4 DEF Bears, Causes, Told, RemovalAsked, RemovalReported, Brought
    <3> QED
      BY <2>2, <2>4, <3>1 DEF Steps, Stage
  <2>5. CASE k = 4
    <3>1. Bears(h, 3, p) /\ Told(m) \subseteq Told(h)
      BY <2>1, <2>5 DEF Bears, Causes, Told, RemovalAsked, RemovalReported, Brought
    <3> QED
      BY <2>2, <2>5, <3>1 DEF Steps, Stage
  <2>6. CASE k = 6
    <3>1. Bears(h, 6, p) /\ Told(m) \subseteq Told(h)
      BY <2>1, <2>6 DEF Bears, Causes, Told, RemovalAsked, RemovalReported, Brought
    <3> QED
      BY <2>2, <2>6, <3>1 DEF Steps, Stage
  <2> QED
    BY <2>1, <2>3, <2>4, <2>5, <2>6 DEF Bears
<1> QED
  BY <1>1, <1>2 DEF Follow

(* There is one place for it. *)
LEMMA FollowOnce ==
  ASSUME NEW h, NEW m, NEW ms, HandlesAll(h, m, ms), NEW k \in Stage, NEW p,
         NEW l \in Stage, NEW q,
         Follow(h, m, ms, k, p) # {}, Follow(h, m, ms, l, q) # {}
  PROVE  k = l /\ p = q
<1>1. \A j, r : NewOn(m, ms, j, r) # {} => Bears(m, j, r) /\ Causes(h, m)
  BY DEF NewOn, Sent, HandlesAll
<1>2. \A j, r : NewIn(h, j, r) # {} => \/ j = 2 /\ Bears(h, 1, r)
                                       \/ j = 5 /\ Bears(h, 4, r)
  BY DEF NewIn
<1>3. CASE NewIn(h, k, p) # {} /\ NewIn(h, l, q) # {}
  BY <1>2, <1>3 DEF Bears
<1>4. CASE NewOn(m, ms, k, p) # {} /\ NewOn(m, ms, l, q) # {}
  BY <1>1, <1>4 DEF Bears, Brought
<1>5. CASE \/ NewOn(m, ms, k, p) # {} /\ NewIn(h, l, q) # {}
           \/ NewOn(m, ms, l, q) # {} /\ NewIn(h, k, p) # {}
  <2>1. h.to = "MAC" /\ h.type \in {"GETR_PROPOSED", "GETR_SELECTED"}
    BY <1>2, <1>5 DEF Bears
  <2>2. Causes(h, m) => m.to = "AI" /\ m.type = "SET_ALLOCATION" /\ m.mode = "RX"
    BY <2>1 DEF Causes, RemovalAsked
  <2>3. \A j, r : ~(Causes(h, m) /\ Bears(m, j, r))
    BY <2>2 DEF Bears
  <2> QED
    BY <1>1, <1>5, <2>3
<1> QED
  BY <1>3, <1>4, <1>5 DEF Follow

(* What the handled message leaves of the stages at its station. *)
Leaves(n, h, m, ms) ==
  /\ HandlesAll(h, m, ms) /\ h \in Range(bus[n]) /\ h \in Message
  /\ (ms = <<m>> => m \in Message) /\ bus[n] # <<>> /\ h = Head(bus[n])
  /\ Range(bus'[n]) \subseteq Range(bus[n]) \cup Sent(m, ms)
  /\ \A k \in Stage : \A p : Has(k, n, p)' \subseteq Has(k, n, p) \cup Follow(h, m, ms, k, p)
  /\ \A k \in Stage : \A p : Bears(h, k, p) /\ (k = 1 => Once(bus[n], Bearing(1, p)))
       => Told(h) \in Has(k, n, p) /\ Has(k, n, p)' \subseteq Follow(h, m, ms, k, p)

LEMMA QueueBears ==
  ASSUME NEW q, NEW k, NEW p, k \notin {2, 5} PROVE QueueHas(q, k, p) = {}
BY DEF QueueHas, Carries

LEMMA QueueLeft ==
  ASSUME NEW q, NEW h, NEW r, QueueEffect(q, h, r), NEW k, NEW p
  PROVE  QueueHas(r, k, p) \subseteq QueueHas(q, k, p) \cup NewIn(h, k, p)
<1>1. CASE PlainGrown(q, r)
  BY <1>1 DEF PlainGrown
<1>2. ASSUME NEW packet, Posts(h, packet), Posted(q, packet, r)
      PROVE  QueueHas(r, k, p) \subseteq QueueHas(q, k, p) \cup NewIn(h, k, p)
  <2>1. QueueHas(r, k, p) \subseteq
          QueueHas(q, k, p) \cup
          (IF Carries(EntryFor(packet), k, p) THEN {packet.slots} ELSE {})
    BY <1>2 DEF Posted
  <2>2. Carries(EntryFor(packet), k, p) => NewIn(h, k, p) = {packet.slots}
    BY <1>2 DEF Posts, Carries, EntryFor, IsPacket, AddSlotPacket, ResultPacket, NewIn,
       Bears, Told
  <2> QED
    BY <2>1, <2>2
<1> QED
  BY <1>1, <1>2 DEF QueueEffect

LEMMA EffectsLeave ==
  ASSUME ProtocolInv, ProtocolInv', InstantInv, NEW n \in Node,
         NEW h, NEW m, NEW ms, Effects(n, h, m, ms)
  PROVE  Leaves(n, h, m, ms)
<1>1. PICK b, c, q, r : /\ b = bus[n] /\ c = Tail(b) \o ms /\ q = queue[n] /\ r = queue'[n]
  OBVIOUS
<1>2. /\ bus'[n] = c /\ b # <<>> /\ h = Head(b) /\ ms \in {<<>>, <<m>>}
      /\ HandlesAll(h, m, ms) /\ QueueEffect(q, h, r)
  BY <1>1 DEF Effects, Handles, HandlesAll
<1>3. b \in Seq(Message) /\ c \in Seq(Message)
  <2>1. bus[n] \in Seq(Message)
    BY ProtocolStation
  <2>2. bus'[n] \in Seq(Message)
    BY StationAssumption DEF ProtocolInv, IInv, TypeOK, Message
  <2> QED
    BY <1>1, <1>2, <2>1, <2>2
<1>4. /\ IsSeq(b) /\ h \in Message /\ Range(c) \subseteq Message /\ Range(b) \subseteq Message
      /\ Once(b, Derived)
  <2>1. InOrder(b)
    BY <1>1 DEF InstantInv
  <2> QED
    BY <1>2, <1>3, <2>1, MessageSeq DEF InOrder
<1>5. HeadHandled(b, h, m, ms, c)
  BY <1>1, <1>2, <1>4, HeadRest
<1>6. h \in Range(b) /\ (ms = <<m>> => m \in Message) /\ Range(c) \subseteq Range(b) \cup Sent(m, ms)
  BY <1>4, <1>5 DEF HeadHandled, Sent
<1>7. ASSUME NEW k \in Stage, NEW p
      PROVE  BusHas(c, k, p) \cup QueueHas(r, k, p)
               \subseteq BusHas(b, k, p) \cup QueueHas(q, k, p) \cup Follow(h, m, ms, k, p)
  <2>1. BusHas(c, k, p) \subseteq BusHas(b, k, p) \cup NewOn(m, ms, k, p)
    BY <1>5, BusLeft
  <2>2. QueueHas(r, k, p) \subseteq QueueHas(q, k, p) \cup NewIn(h, k, p)
    BY <1>2, QueueLeft
  <2> QED
    BY <2>1, <2>2 DEF Follow
<1>8. ASSUME NEW k \in Stage, NEW p, Bears(h, k, p), k = 1 => Once(b, Bearing(1, p))
      PROVE  /\ Told(h) \in BusHas(b, k, p)
             /\ BusHas(c, k, p) \cup QueueHas(r, k, p) \subseteq Follow(h, m, ms, k, p)
  <2>1. Told(h) \in BusHas(b, k, p)
    BY <1>6, <1>8, HasNone
  <2>2. QueueHas(r, k, p) = {}
    <3>1. k \notin {2, 5}
      BY <1>8 DEF Bears
    <3> QED
      BY <3>1, QueueBears
  <2>3. BusHas(c, k, p) \subseteq NewOn(m, ms, k, p)
    <3>1. CASE k = 1
      <4>1. Rest(b) \cap Bearing(1, p) = {}
        BY <1>2, <1>4, <1>8, <3>1, OnceHead DEF Bearing
      <4>2. \A x \in Range(b) : Bears(x, k, p) => x \in Bearing(1, p)
        BY <1>4, <3>1 DEF Bearing
      <4> QED
        BY <1>5, <4>1, <4>2, BusEmptied
    <3>2. CASE k # 1
      <4>1. \A x \in Range(b) : Bears(x, k, p) => x \in Derived
        BY <1>4, <3>2, BusDerived
      <4>2. Rest(b) \cap Derived = {}
        BY <1>2, <1>4, <1>6, <1>8, <4>1, OnceHead
      <4> QED
        BY <1>5, <4>1, <4>2, BusEmptied
    <3> QED
      BY <3>1, <3>2
  <2> QED
    BY <2>1, <2>2, <2>3 DEF Follow
<1>9. \A k, p : /\ Has(k, n, p) = BusHas(b, k, p) \cup QueueHas(q, k, p)
                /\ Has(k, n, p)' = BusHas(c, k, p) \cup QueueHas(r, k, p)
  BY <1>1, <1>2 DEF Has
<1>10. \A k \in Stage : \A p : Has(k, n, p)' \subseteq Has(k, n, p) \cup Follow(h, m, ms, k, p)
  BY <1>7, <1>9
<1>11. \A k \in Stage : \A p : Bears(h, k, p) /\ (k = 1 => Once(bus[n], Bearing(1, p)))
         => Told(h) \in Has(k, n, p) /\ Has(k, n, p)' \subseteq Follow(h, m, ms, k, p)
  BY <1>1, <1>8, <1>9
<1> QED
  BY <1>1, <1>2, <1>4, <1>6, <1>10, <1>11 DEF Leaves

-----------------------------------------------------------------------------
(* One step as the exchange that x began with p sees it *)

Asks(x, p) == \E y \in Range(bus[x]) : RequestTo(y, p)
Over(x, p) == \A k \in Stage : Underway(k, x, p) = {}

PairKeeps(x, p) ==
  /\ \A c \in Cell : TxCell(grid'[x], c, p) => TxCell(grid[x], c, p)
  /\ Asks(x, p)' /\ p \notin pendingTx'[x]
       => Over(x, p) \/ (Asks(x, p) /\ p \notin pendingTx[x])

(* Nothing new comes under way; one stage follows another; an offer is chosen; *)
(* the exchange ends.                                                          *)
PairSame(x, p) == \A k \in Stage : Underway(k, x, p)' \subseteq Underway(k, x, p)
PairMoves(x, p) ==
  \E k, l \in Stage : \E told \in Underway(k, x, p) :
    /\ \A j \in Stage \ {l} : Underway(j, x, p)' \subseteq Underway(j, x, p)
    /\ k # l => Underway(k, x, p)' = {}
    /\ \A new \in Underway(l, x, p)' : new \subseteq told \/ new \in Underway(l, x, p)
PairBegins(x, p) ==
  /\ Over(x, p) /\ p \in pendingTx'[x]
  /\ \A j \in Stage \ {1} : Underway(j, x, p)' = {}
  /\ \A new \in Underway(1, x, p)', c \in Cell : c \in new => ~TxCell(grid'[x], c, p)
PairEnds(x, p) == Over(x, p)'

PairStep(x, p) == \/ PairKeeps(x, p) /\ (PairSame(x, p) \/ PairMoves(x, p))
                  \/ PairBegins(x, p) \/ PairEnds(x, p)

PairGood(x, p) == Exclusive(x, p) /\ Asked(x, p) /\ Untold(x, p)

LEMMA PairInvariant ==
  ASSUME NEW x, NEW p, PairGood(x, p), PairStep(x, p) PROVE PairGood(x, p)'
<1>1. /\ \A k, l \in Stage : Underway(k, x, p) # {} /\ Underway(l, x, p) # {} => k = l
      /\ Asks(x, p) /\ p \notin pendingTx[x] => Over(x, p)
      /\ \A c \in Cell : TxCell(grid[x], c, p)
           => \A k \in Stage : \A told \in Underway(k, x, p) : c \notin told
  BY DEF PairGood, Exclusive, Asked, Untold, Asks, Over
<1>2. SUFFICES
        /\ \A k, l \in Stage : Underway(k, x, p)' # {} /\ Underway(l, x, p)' # {} => k = l
        /\ Asks(x, p)' /\ p \notin pendingTx'[x] => Over(x, p)'
        /\ \A c \in Cell : TxCell(grid'[x], c, p)
             => \A k \in Stage : \A told \in Underway(k, x, p)' : c \notin told
  BY DEF PairGood, Exclusive, Asked, Untold, Asks, Over
<1>3. CASE PairEnds(x, p)
  BY <1>3 DEF PairEnds, Over
<1>4. CASE PairBegins(x, p)
  BY <1>4 DEF PairBegins, Over
<1>5. CASE PairKeeps(x, p) /\ PairSame(x, p)
  BY <1>1, <1>5 DEF PairKeeps, PairSame, Over
<1>6. CASE PairKeeps(x, p) /\ PairMoves(x, p)
  <2>0. PICK k \in Stage, l \in Stage : \E told \in Underway(k, x, p) :
          /\ \A j \in Stage \ {l} : Underway(j, x, p)' \subseteq Underway(j, x, p)
          /\ k # l => Underway(k, x, p)' = {}
          /\ \A new \in Underway(l, x, p)' : new \subseteq told \/ new \in Underway(l, x, p)
    BY <1>6 DEF PairMoves
  <2>1. PICK told \in Underway(k, x, p) :
          /\ \A j \in Stage \ {l} : Underway(j, x, p)' \subseteq Underway(j, x, p)
          /\ k # l => Underway(k, x, p)' = {}
          /\ \A new \in Underway(l, x, p)' : new \subseteq told \/ new \in Underway(l, x, p)
    BY <2>0
  <2>2. \A j \in Stage : j # l => Underway(j, x, p)' = {}
    BY <1>1, <2>1
  <2>3. ~Over(x, p)
    BY <2>1 DEF Over
  <2>4. ~(Asks(x, p)' /\ p \notin pendingTx'[x])
    BY <1>1, <1>6, <2>3 DEF PairKeeps
  <2>5. ASSUME NEW c \in Cell, TxCell(grid'[x], c, p), NEW j \in Stage,
               NEW new \in Underway(j, x, p)'
        PROVE  c \notin new
    <3>1. TxCell(grid[x], c, p)
      BY <1>6, <2>5 DEF PairKeeps
    <3>2. j = l /\ (new \subseteq told \/ new \in Underway(l, x, p))
      BY <2>1, <2>2, <2>5
    <3> QED
      BY <1>1, <2>1, <3>1, <3>2
  <2> QED
    BY <2>2, <2>4, <2>5
<1> QED
  BY <1>3, <1>4, <1>5, <1>6 DEF PairStep

-----------------------------------------------------------------------------
(* A message is handled *)

(* Where stage k of the exchange that x began with p is, and with whom. *)
At(k, x, p)   == IF k \in Asking THEN x ELSE p
With(k, x, p) == IF k \in Asking THEN p ELSE x

LEMMA UnderwayAt ==
  ASSUME NEW k, NEW x, NEW p
  PROVE  /\ Underway(k, x, p) = Has(k, At(k, x, p), With(k, x, p))
         /\ Underway(k, x, p)' = Has(k, At(k, x, p), With(k, x, p))'
BY DEF Underway, At, With

LEMMA StepsAt ==
  ASSUME NEW j \in Stage, NEW k \in Stage, <<j, k>> \in Steps, NEW x, NEW p
  PROVE  At(j, x, p) = At(k, x, p) /\ With(j, x, p) = With(k, x, p)
BY DEF Steps, Stage, At, With, Asking

LEMMA GrantEnds ==
  ASSUME NEW h, NEW m, NEW ms, HandlesAll(h, m, ms), NEW p, GrantedBy(h, p), NEW k, NEW q
  PROVE  Follow(h, m, ms, k, q) = {} /\ Bears(h, 6, p)
<1>1. NewIn(h, k, q) = {}
  BY DEF NewIn, Bears, GrantedBy
<1>2. NewOn(m, ms, k, q) = {}
  <2>1. \A y \in Sent(m, ms) : y.type = "SETR"
    BY DEF Sent, GrantedBy, HandlesAll, Causes, RemovalAsked
  <2>2. \A y : Bears(y, k, q) => y.type # "SETR"
    BY DEF Bears, Brought
  <2> QED
    BY <2>1, <2>2 DEF NewOn
<1>3. Bears(h, 6, p)
  BY DEF Bears, GrantedBy
<1> QED
  BY <1>1, <1>2, <1>3 DEF Follow

LEMMA OthersHave ==
  ASSUME NEW n \in Node, OthersKeep(n), NEW x \in Node \ {n}, NEW k, NEW p
  PROVE  Has(k, x, p)' = Has(k, x, p)
BY DEF OthersKeep, Has

LEMMA DrainKeeps ==
  ASSUME NEW n \in Node, OthersKeep(n), NEW h, NEW m, NEW ms,
         Effects(n, h, m, ms), Leaves(n, h, m, ms), NEW x \in Node, NEW p,
         ~(x = n /\ GrantedBy(h, p))
  PROVE  PairKeeps(x, p)
<1>1. CASE x # n
  BY <1>1 DEF OthersKeep, PairKeeps, Asks
<1>2. CASE x = n
  <2>1. \A c \in Cell : TxCell(grid'[x], c, p) => TxCell(grid[x], c, p)
    BY <1>2 DEF Effects, GridEffect
  <2>2. p \in pendingTx[x] => p \in pendingTx'[x]
    BY <1>2 DEF Effects, GridEffect
  <2>3. \A y \in Sent(m, ms) : ~RequestTo(y, p)
    BY DEF Leaves, HandlesAll, Sent, Causes, RequestTo, RemovalAsked, RemovalReported
  <2>4. Asks(x, p)' => Asks(x, p)
    BY <1>2, <2>3 DEF Asks, Leaves
  <2> QED
    BY <2>1, <2>2, <2>4 DEF PairKeeps
<1> QED
  BY <1>1, <1>2

LEMMA DrainPair ==
  ASSUME NEW n \in Node, OthersKeep(n), NEW h, NEW m, NEW ms,
         Effects(n, h, m, ms), Leaves(n, h, m, ms),
         NEW x \in Node, NEW p \in Node, PairGood(x, p),
         Once(bus[x], Bearing(1, p))
  PROVE  PairStep(x, p)
<1>1. HandlesAll(h, m, ms)
  BY DEF Leaves
<1>2. ASSUME NEW k \in Stage, At(k, x, p) # n
      PROVE  Underway(k, x, p)' = Underway(k, x, p)
  <2>1. At(k, x, p) \in Node \ {n}
    BY <1>2 DEF At
  <2> QED
    BY <2>1, UnderwayAt, OthersHave
<1>3. ASSUME NEW k \in Stage, At(k, x, p) = n
      PROVE  Underway(k, x, p)' \subseteq
               Underway(k, x, p) \cup Follow(h, m, ms, k, With(k, x, p))
  <2>1. Has(k, n, With(k, x, p))' \subseteq
          Has(k, n, With(k, x, p)) \cup Follow(h, m, ms, k, With(k, x, p))
    BY DEF Leaves
  <2> QED
    BY <1>3, <2>1, UnderwayAt
<1>4. ASSUME NEW k \in Stage, At(k, x, p) = n, Bears(h, k, With(k, x, p))
      PROVE  /\ Told(h) \in Underway(k, x, p)
             /\ Underway(k, x, p)' \subseteq Follow(h, m, ms, k, With(k, x, p))
  <2>1. k = 1 => n = x /\ With(k, x, p) = p
    BY <1>4 DEF At, With, Asking
  <2>2. /\ Told(h) \in Has(k, n, With(k, x, p))
        /\ Has(k, n, With(k, x, p))' \subseteq Follow(h, m, ms, k, With(k, x, p))
    BY <1>4, <2>1 DEF Leaves
  <2> QED
    BY <1>4, <2>2, UnderwayAt
<1>5. CASE x = n /\ GrantedBy(h, p)
  <2>1. 6 \in Stage /\ At(6, x, p) = n /\ With(6, x, p) = p
    BY <1>5 DEF Stage, At, With, Asking
  <2>2. Bears(h, 6, p) /\ \A k, q : Follow(h, m, ms, k, q) = {}
    BY <1>1, <1>5, GrantEnds
  <2>3. Underway(6, x, p) # {} /\ Underway(6, x, p)' = {}
    BY <1>4, <2>1, <2>2
  <2>4. \A k \in Stage : k # 6 => Underway(k, x, p) = {}
    BY <2>1, <2>3 DEF PairGood, Exclusive
  <2>5. \A k \in Stage : Underway(k, x, p)' = {}
    BY <1>2, <1>3, <2>2, <2>3, <2>4
  <2> QED
    BY <2>5 DEF PairStep, PairEnds, Over
<1>6. CASE \A k \in Stage : At(k, x, p) = n => Follow(h, m, ms, k, With(k, x, p)) = {}
  <2>1. PairSame(x, p)
    BY <1>2, <1>3, <1>6 DEF PairSame
  <2>2. CASE ~(x = n /\ GrantedBy(h, p))
    <3>1. PairKeeps(x, p)
      BY <2>2, DrainKeeps
    <3> QED
      BY <2>1, <3>1 DEF PairStep
  <2> QED
    BY <1>5, <2>2
<1>7. ASSUME ~(x = n /\ GrantedBy(h, p)), NEW l \in Stage, At(l, x, p) = n,
             Follow(h, m, ms, l, With(l, x, p)) # {}
      PROVE  PairStep(x, p)
  <2>1. \A k \in Stage : k # l => Follow(h, m, ms, k, With(k, x, p)) = {}
    BY <1>1, <1>7, FollowOnce
  <2>2. \A k \in Stage : k # l => Underway(k, x, p)' \subseteq Underway(k, x, p)
    BY <1>2, <1>3, <2>1
  <2>3. CASE l = 1 /\ RequestTo(h, p) /\ x = n /\ ms = <<m>>
    <3>1. Asks(x, p)
      BY <2>3 DEF Asks, Leaves
    <3>2. p \notin pendingTx[x] /\ \A c \in m.slots : \A q : ~TxCell(grid'[x], c, q)
      BY <2>3 DEF Effects, ProposalEffect, RequestTo
    <3>3. Over(x, p)
      BY <3>1, <3>2 DEF PairGood, Asked, Asks, Over
    <3>4. Follow(h, m, ms, 1, p) \subseteq {m.slots} /\ With(1, x, p) = p
      BY <2>3 DEF Follow, NewOn, NewIn, Sent, Bears, Told, With, Asking
    <3>5. Underway(1, x, p)' \subseteq {m.slots}
      BY <1>3, <1>7, <2>3, <3>3, <3>4 DEF Over
    <3>6. m.slots # {}
      BY <1>7, <2>3, <3>4 DEF Follow, NewOn, NewIn, Sent, Bears
    <3>7. p \in pendingTx'[x]
      BY <2>3, <3>6 DEF Effects, ProposalEffect, RequestTo
    <3>8. PairBegins(x, p)
      BY <2>2, <2>3, <3>2, <3>3, <3>5, <3>7 DEF PairBegins, Over
    <3> QED
      BY <3>8 DEF PairStep
  <2>4. CASE \E j \in Stage : /\ Bears(h, j, With(l, x, p)) /\ <<j, l>> \in Steps
                              /\ \A told \in Follow(h, m, ms, l, With(l, x, p)) :
                                   told \subseteq Told(h)
    <3>1. PICK j \in Stage : /\ Bears(h, j, With(l, x, p)) /\ <<j, l>> \in Steps
                             /\ \A told \in Follow(h, m, ms, l, With(l, x, p)) :
                                  told \subseteq Told(h)
      BY <2>4
    <3>2. At(j, x, p) = n /\ Bears(h, j, With(j, x, p))
      BY <1>7, <3>1, StepsAt
    <3>3. /\ Told(h) \in Underway(j, x, p)
          /\ Underway(j, x, p)' \subseteq Follow(h, m, ms, j, With(j, x, p))
      BY <1>4, <3>2
    <3>4. j # l => Underway(j, x, p)' = {}
      BY <2>1, <3>3
    <3>5. \A new \in Underway(l, x, p)' : new \subseteq Told(h) \/ new \in Underway(l, x, p)
      BY <1>3, <1>7, <3>1
    <3>6. PairMoves(x, p)
      BY <2>2, <3>3, <3>4, <3>5 DEF PairMoves
    <3>7. PairKeeps(x, p)
      BY <1>7, DrainKeeps
    <3> QED
      BY <3>6, <3>7 DEF PairStep
  <2>5. \/ l = 1 /\ RequestTo(h, With(l, x, p)) /\ ms = <<m>>
        \/ \E j \in Stage : /\ Bears(h, j, With(l, x, p)) /\ <<j, l>> \in Steps
                            /\ \A told \in Follow(h, m, ms, l, With(l, x, p)) :
                                 told \subseteq Told(h)
    BY <1>1, <1>7, FollowFrom
  <2>6. l = 1 => With(l, x, p) = p /\ x = n
    BY <1>7 DEF At, With, Asking
  <2> QED
    BY <2>3, <2>4, <2>5, <2>6
<1> QED
  BY <1>5, <1>6, <1>7

(* What every station and pair keeps. *)
StationGood(x) == /\ unacked[x] = <<>>
                  /\ \A p \in Node : PairGood(x, p) /\ Unique(x, p)

LEMMA ExchangeByStation ==
  /\ ExchangeInv <=> \A x \in Node : StationGood(x)
  /\ ExchangeInv' <=> \A x \in Node : StationGood(x)'
BY DEF ExchangeInv, StationGood, PairGood

-----------------------------------------------------------------------------
(* No message and no packet of an exchange is doubled *)

LEMMA UniqueBearing ==
  ASSUME ProtocolInv, NEW n \in Node, NEW h, NEW m, NEW ms,
         Effects(n, h, m, ms), Leaves(n, h, m, ms), NEW p \in Node, StationGood(n)
  PROVE  Once(bus'[n], Bearing(1, p))
<1>1. PICK b, c : b = bus[n] /\ c = Tail(b) \o ms
  OBVIOUS
<1>2. bus'[n] = c /\ b # <<>> /\ IsSeq(b) /\ h = Head(b) /\ ms \in {<<>>, <<m>>}
  BY <1>1, ProtocolStation DEF Effects, Handles
<1>3. Once(b, Bearing(1, p)) /\ Asked(n, p)
  BY <1>1 DEF StationGood, Unique, PairGood
<1>4. HandlesAll(h, m, ms) /\ h \in Range(bus[n])
  BY DEF Leaves
<1>5. ASSUME ms = <<m>>, m \in Bearing(1, p) PROVE Rest(b) \cap Bearing(1, p) = {}
  <2>1. Follow(h, m, ms, 1, p) # {} /\ 1 \in Stage
    BY <1>5 DEF Follow, NewOn, Sent, Bearing, Stage
  <2>2. RequestTo(h, p)
    BY <1>4, <2>1, FollowFrom DEF Steps
  <2>3. m.type = "GETR_PROPOSED"
    BY <1>5 DEF Bearing, Bears
  <2>4. p \notin pendingTx[n]
    BY <1>5, <2>2 DEF Effects, ProposalEffect, RequestTo
  <2>5. Underway(1, n, p) = {}
    BY <1>3, <1>4, <2>1, <2>2, <2>4 DEF Asked
  <2>6. BusHas(b, 1, p) = {}
    BY <1>1, <2>5 DEF Underway, Asking, Has
  <2>7. \A y \in Range(b) : ~Bears(y, 1, p)
    BY <2>6 DEF BusHas
  <2>8. Rest(b) \subseteq Range(b)
    BY DEF Rest, Range
  <2> QED
    BY <2>7, <2>8 DEF Bearing
<1>6. Once(c, Bearing(1, p))
  BY <1>1, <1>2, <1>3, <1>5, OnceTail
<1> QED
  BY <1>2, <1>6

LEMMA UniqueCarrying ==
  ASSUME NEW n \in Node, NEW h, NEW m, NEW ms,
         Effects(n, h, m, ms), Leaves(n, h, m, ms), \A x \in Node : StationGood(x),
         NEW k \in Stage, NEW p \in Node
  PROVE  Once(queue'[n], Carrying(k, p))
<1>1. Once(queue[n], Carrying(k, p))
  BY DEF StationGood, Unique
<1>2. CASE PlainGrown(queue[n], queue'[n])
  BY <1>1, <1>2 DEF PlainGrown
<1>3. ASSUME NEW packet, Posts(h, packet), Posted(queue[n], packet, queue'[n])
      PROVE  Once(queue'[n], Carrying(k, p))
  <2>1. ASSUME Carries(EntryFor(packet), k, p) PROVE QueueHas(queue[n], k, p) = {}
    <3>1. \/ k = 2 /\ Bears(h, 1, p)
          \/ k = 5 /\ Bears(h, 4, p)
      BY <1>3, <2>1
         DEF Carries, EntryFor, IsPacket, Posts, AddSlotPacket, ResultPacket, Bears
    <3>2. CASE k = 2 /\ Bears(h, 1, p)
      <4>1. Told(h) \in Has(1, n, p)
        BY <3>2 DEF Leaves, Stage, StationGood, Unique
      <4>2. Underway(1, n, p) # {} /\ 1 \in Stage /\ Exclusive(n, p)
        BY <4>1 DEF Underway, Asking, Stage, StationGood, PairGood
      <4>3. Underway(2, n, p) = {}
        BY <3>2, <4>2 DEF Exclusive
      <4> QED
        BY <3>2, <4>3 DEF Underway, Asking, Has
    <3>3. CASE k = 5 /\ Bears(h, 4, p)
      <4>1. Told(h) \in Has(4, n, p)
        BY <3>3 DEF Leaves, Stage
      <4>2. Underway(4, p, n) # {} /\ 4 \in Stage /\ Exclusive(p, n)
        BY <4>1 DEF Underway, Asking, Stage, StationGood, PairGood
      <4>3. Underway(5, p, n) = {}
        BY <3>3, <4>2 DEF Exclusive
      <4> QED
        BY <3>3, <4>3 DEF Underway, Asking, Has
    <3> QED
      BY <3>1, <3>2, <3>3
  <2> QED
    BY <1>1, <1>3, <2>1 DEF Posted
<1> QED
  BY <1>2, <1>3 DEF Effects, QueueEffect

LEMMA DrainExchange ==
  ASSUME ProtocolInv, ProtocolInv', InstantInv, ExchangeInv, NEW n \in Node, Drain(n)
  PROVE  ExchangeInv'
<1>1. OthersKeep(n) /\ \E h, m, ms : Effects(n, h, m, ms)
  BY DrainEffects
<1>2. PICK h, m, ms : Effects(n, h, m, ms)
  BY <1>1
<1>3. Leaves(n, h, m, ms)
  BY <1>2, EffectsLeave
<1>4. \A x \in Node : StationGood(x)
  BY ExchangeByStation
<1>5. ASSUME NEW x \in Node PROVE StationGood(x)'
  <2>1. unacked'[x] = <<>>
    BY <1>1, <1>2, <1>4 DEF Effects, OthersKeep, StationGood
  <2>2. ASSUME NEW p \in Node PROVE PairGood(x, p)'
    <3>1. PairGood(x, p) /\ Once(bus[x], Bearing(1, p))
      BY <1>4 DEF StationGood, Unique
    <3>2. PairStep(x, p)
      BY <1>1, <1>2, <1>3, <3>1, DrainPair
    <3> QED
      BY <3>1, <3>2, PairInvariant
  <2>3. ASSUME NEW p \in Node PROVE Unique(x, p)'
    <3>1. CASE x # n
      <4>1. bus'[x] = bus[x] /\ queue'[x] = queue[x]
        BY <1>1, <3>1 DEF OthersKeep
      <4> QED
        BY <1>4, <4>1 DEF StationGood, Unique
    <3>2. CASE x = n
      <4>1. Once(bus'[n], Bearing(1, p))
        BY <1>2, <1>3, <1>4, UniqueBearing
      <4>2. \A k \in Stage : Once(queue'[n], Carrying(k, p))
        BY <1>2, <1>3, <1>4, UniqueCarrying
      <4> QED
        BY <3>2, <4>1, <4>2 DEF Unique
    <3> QED
      BY <3>1, <3>2
  <2> QED
    BY <2>1, <2>2, <2>3 DEF StationGood
<1> QED
  BY <1>5, ExchangeByStation

-----------------------------------------------------------------------------
(* A tick *)

(* Nothing of an exchange comes to x. *)
Unmoved(x) == \A k \in Stage : \A p : Has(k, x, p)' \subseteq Has(k, x, p)

LEMMA BusUnmoved ==
  ASSUME NEW x, NEW m, NEW ms \in {<<>>, <<m>>}, IsSeq(bus[x]), bus'[x] = bus[x] \o ms,
         PlainGrown(queue[x], queue'[x]), \A k, p : ~Bears(m, k, p)
  PROVE  Unmoved(x)
<1>1. PICK b, c : b = bus[x] /\ c = b \o ms
  OBVIOUS
<1>2. OneAdded(b, m, ms, c) /\ bus'[x] = c
  BY <1>1, AddedRange
<1>3. ASSUME NEW k, NEW p PROVE Has(k, x, p)' \subseteq Has(k, x, p)
  <2>1. BusHas(c, k, p) \subseteq BusHas(b, k, p) \cup NewOn(m, ms, k, p)
    BY <1>2, BusGrown
  <2>2. NewOn(m, ms, k, p) = {}
    BY DEF NewOn, Sent
  <2>3. QueueHas(queue'[x], k, p) \subseteq QueueHas(queue[x], k, p)
    BY DEF PlainGrown
  <2>4. BusHas(bus'[x], k, p) \subseteq BusHas(bus[x], k, p)
    BY <1>1, <1>2, <2>1, <2>2
  <2> QED
    BY <2>3, <2>4 DEF Has
<1> QED
  BY <1>3 DEF Unmoved

LEMMA PairUnmoved ==
  ASSUME \A y \in Node : Unmoved(y), NEW x \in Node, NEW p \in Node PROVE PairSame(x, p)
BY DEF Unmoved, PairSame, Underway

(* Nothing that belongs to an exchange is chosen or selected between instants. *)
LEMMA NothingUnderway ==
  ASSUME NEW x, NEW p, Rests(bus[x]), Rests(bus[p]), ~ExchangeUnderWay(x, p)
  PROVE  Over(x, p)
<1>1. ASSUME NEW b, Rests(b), NEW y \in Range(b), NEW k, NEW q, Bears(y, k, q)
      PROVE  \/ k = 3 /\ Brought(y, "ADD_SLOT", q)
             \/ k = 6 /\ Brought(y, "RESULT", q)
  BY <1>1 DEF Rests, Bears, Arrives, RemovalAsked
<1>2. \A k : k # 6 => BusHas(bus[x], k, p) = {} \/ k = 3
  BY <1>1 DEF BusHas
<1>3. BusHas(bus[x], 6, p) = {}
  BY <1>1 DEF BusHas, ExchangeUnderWay, Range
<1>4. BusHas(bus[p], 3, x) = {}
  BY <1>1 DEF BusHas, ExchangeUnderWay, Range
<1>5. \A k : k # 3 => BusHas(bus[p], k, x) = {} \/ k = 6
  BY <1>1 DEF BusHas
<1>6. QueueHas(queue[x], 2, p) = {} /\ QueueHas(queue[p], 5, x) = {}
  BY DEF QueueHas, Carries, ExchangeUnderWay, Range
<1>7. \A q, k, r : k \notin {2, 5} => QueueHas(q, k, r) = {}
  BY QueueBears
<1> QED
  BY <1>2, <1>3, <1>4, <1>5, <1>6, <1>7 DEF Over, Underway, Has, Stage, Asking

LEMMA TickRests ==
  ASSUME InstantInv, ProtocolInv, NEW n \in Node, Tick(n), NEW x \in Node
  PROVE  Rests(bus[x])
BY TickAdds DEF InstantInv

(* A tick that moves nothing but, perhaps, asks for slots or ends proposals. *)
LEMMA TickStays ==
  ASSUME ProtocolInv, ProtocolInv', InstantInv, ExchangeInv, NEW n \in Node, Tick(n),
         \A y \in Node : Unmoved(y) /\ PlainGrown(queue[y], queue'[y]) /\ unacked'[y] = unacked[y],
         \A y \in Node, p \in Node : PairKeeps(y, p)
  PROVE  ExchangeInv'
<1>1. \A x \in Node : StationGood(x)
  BY ExchangeByStation
<1>2. ASSUME NEW x \in Node PROVE StationGood(x)'
  <2>1. unacked'[x] = <<>>
    BY <1>1 DEF StationGood
  <2>2. ASSUME NEW p \in Node PROVE PairGood(x, p)'
    <3>1. PairGood(x, p)
      BY <1>1 DEF StationGood
    <3>2. PairStep(x, p)
      BY PairUnmoved DEF PairStep
    <3> QED
      BY <3>1, <3>2, PairInvariant
  <2>3. ASSUME NEW p \in Node PROVE Once(bus'[x], Bearing(1, p))
    <3>1. Once(bus[x], Bearing(1, p))
      BY <1>1 DEF StationGood, Unique
    <3>2. CASE bus'[x] = bus[x]
      BY <3>1, <3>2
    <3>3. ASSUME NEW m, NEW ms, Adds(x, m, ms) PROVE Once(bus'[x], Bearing(1, p))
      <4>1. PICK b, c : b = bus[x] /\ c = b \o ms
        OBVIOUS
      <4>2. IsSeq(b) /\ ms \in {<<>>, <<m>>} /\ bus'[x] = c
        BY <3>3, <4>1, ProtocolStation DEF Adds
      <4>3. ms = <<m>> => m \notin Bearing(1, p)
        BY <3>3 DEF Adds, Arrives, RemovalAsked, Bearing, Bears
      <4>4. Once(c, Bearing(1, p))
        BY <3>1, <4>1, <4>2, <4>3, AddedOnce
      <4> QED
        BY <4>2, <4>4
    <3> QED
      BY <3>2, <3>3, TickAdds
  <2>4. \A p \in Node, k \in Stage : Once(queue'[x], Carrying(k, p))
    BY <1>1 DEF StationGood, Unique, PlainGrown
  <2> QED
    BY <2>1, <2>2, <2>3, <2>4 DEF StationGood, Unique
<1> QED
  BY <1>2, ExchangeByStation

TickOf(n) == ProtocolInv /\ ProtocolInv' /\ InstantInv /\ ExchangeInv /\ Tick(n)

LEMMA StillStays ==
  ASSUME NEW y, bus'[y] = bus[y], PlainGrown(queue[y], queue'[y])
  PROVE  Unmoved(y)
BY DEF Unmoved, Has, PlainGrown

LEMMA StillKeeps ==
  ASSUME NEW y, bus'[y] = bus[y], grid'[y] = grid[y], pendingTx'[y] = pendingTx[y], NEW p
  PROVE  PairKeeps(y, p)
BY DEF PairKeeps, Asks

LEMMA RequestExchange ==
  ASSUME NEW n \in Node, TickOf(n), NEW m, Request(n, m), m.to = "AI",
         m.type \in {"GET_PROPOSED", "STATS"},
         \A p \in Node : RequestTo(m, p) /\ p \notin pendingTx[n] => Over(n, p)
  PROVE  ExchangeInv'
<1>1. /\ Adds(n, m, <<m>>) /\ \A y \in Node \ {n} : bus'[y] = bus[y]
      /\ UNCHANGED <<grid, pendingTx, queue, unacked>>
  BY RequestAdds DEF TickOf
<1>2. \A y \in Node : PlainGrown(queue[y], queue'[y]) /\ unacked'[y] = unacked[y]
  BY <1>1, SameQueue
<1>3. PICK b, c, ms : b = bus[n] /\ ms = <<m>> /\ c = b \o ms
  OBVIOUS
<1>4. IsSeq(b) /\ ms \in {<<>>, <<m>>} /\ bus'[n] = c
  BY <1>1, <1>3, ProtocolStation DEF Adds, TickOf
<1>5. \A k, p : ~Bears(m, k, p)
  BY DEF Bears
<1>6. \A y \in Node : Unmoved(y)
  <2>1. Unmoved(n)
    BY <1>2, <1>3, <1>4, <1>5, BusUnmoved
  <2> QED
    BY <1>1, <1>2, <2>1, StillStays
<1>7. ASSUME NEW p \in Node PROVE PairKeeps(n, p)
  <2>1. OneAdded(b, m, ms, c)
    BY <1>3, <1>4, AddedRange
  <2>2. Asks(n, p)' => Asks(n, p) \/ RequestTo(m, p)
    BY <1>3, <1>4, <2>1 DEF OneAdded, Sent, Asks
  <2> QED
    BY <1>1, <2>2 DEF PairKeeps
<1>8. \A y \in Node, p \in Node : PairKeeps(y, p)
  BY <1>1, <1>7, StillKeeps
<1> QED
  BY <1>2, <1>6, <1>8, TickStays DEF TickOf

LEMMA RequestSlotsExchange ==
  ASSUME Prompt, NEW n \in Node, TickOf(n), NEW mac \in Node, RequestSlots(n, mac)
  PROVE  ExchangeInv'
<1>1. PICK m : m = GetProposedSlots(mac)
  OBVIOUS
<1>2. /\ Request(n, m) /\ m.to = "AI" /\ m.type = "GET_PROPOSED" /\ m.mac = mac
      /\ mac \notin pendingTx[n] => ~ExchangeUnderWay(n, mac)
  BY <1>1 DEF RequestSlots, GetProposedSlots
<1>3. Rests(bus[n]) /\ Rests(bus[mac])
  BY TickRests DEF TickOf
<1>4. mac \notin pendingTx[n] => Over(n, mac)
  BY <1>2, <1>3, NothingUnderway
<1>5. \A p \in Node : RequestTo(m, p) /\ p \notin pendingTx[n] => Over(n, p)
  BY <1>2, <1>4 DEF RequestTo
<1> QED
  BY <1>2, <1>5, RequestExchange

LEMMA TimersWithin ==
  ASSUME NEW g \in Grid, NEW e, NEW f, NEW R, NEW d, NEW id,
         NEW h, h = MarkRemoval(AbortPendingRemovals(AbortRXProposals(
                                  AbortTXProposals(g, e), f), R), d, id)
  PROVE  TxWithin(g, h)
<1>1. PICK g1 : g1 = AbortTXProposals(g, e)
  OBVIOUS
<1>2. g1 \in Grid /\ TxWithin(g, g1)
  BY <1>1, FreedWithin DEF AbortTXProposals, FreeSlots, FreeInfo, Grid, SlotInfo, SlotState
<1>3. PICK g2 : g2 = AbortRXProposals(g1, f)
  OBVIOUS
<1>4. g2 \in Grid /\ TxWithin(g1, g2)
  BY <1>2, <1>3, FreedWithin DEF AbortRXProposals, FreeSlots, FreeInfo, Grid, SlotInfo, SlotState
<1>5. PICK g3 : g3 = AbortPendingRemovals(g2, R)
  OBVIOUS
<1>6. g3 \in Grid
  BY <1>4, <1>5 DEF AbortPendingRemovals, Grid, SlotInfo
<1>7. TxWithin(g2, g3) /\ TxWithin(g3, h)
  BY <1>1, <1>3, <1>4, <1>5, <1>6, UnmarkedWithin, MarkedWithin
<1> QED
  BY <1>2, <1>4, <1>7 DEF TxWithin

LEMMA TimersExchange ==
  ASSUME Prompt, NEW n \in Node, TickOf(n), SelectionTimers(n)
  PROVE  ExchangeInv'
<1>1. /\ \E expiredTx, expiredRx, expiredRemovals, due :
           /\ TimersMark(n, TimedGrid(n, expiredTx, expiredRx, expiredRemovals), due)
           /\ pendingTx'[n] = pendingTx[n] \ expiredTx
           /\ removals'[n] = (removals[n] \ expiredRemovals) \cup NewRemoval(n, due)
      /\ \A x \in Node \ {n} : /\ bus'[x] = bus[x] /\ grid'[x] = grid[x]
                               /\ pendingTx'[x] = pendingTx[x]
      /\ UNCHANGED <<queue, unacked>>
  BY TimersAdd DEF TickOf
<1>2. PICK expiredTx, expiredRx, expiredRemovals, due :
        TimersMark(n, TimedGrid(n, expiredTx, expiredRx, expiredRemovals), due)
  BY <1>1
<1>3. PICK g : g = TimedGrid(n, expiredTx, expiredRx, expiredRemovals)
  OBVIOUS
<1>4. /\ grid'[n] = MarkRemoval(g, due, nextId[n])
      /\ bus'[n] = bus[n] \o RemovalRequest(g, due, nextId[n])
  BY <1>2, <1>3 DEF TimersMark
<1>5. \A y \in Node : PlainGrown(queue[y], queue'[y]) /\ unacked'[y] = unacked[y]
  BY <1>1, SameQueue
<1>6. PICK m, ms : /\ ms \in {<<>>, <<m>>} /\ ms = RemovalRequest(g, due, nextId[n])
                   /\ m.to = "MAC" /\ m.type = "SET_REMOVAL"
  <2>1. CASE due = NoSlot
    <3>1. PICK o : o = [to |-> "MAC", type |-> "SET_REMOVAL"]
      OBVIOUS
    <3> QED
      BY <2>1, <3>1 DEF RemovalRequest
  <2>2. CASE due # NoSlot
    <3>1. PICK o : o = [to |-> "MAC", type |-> "SET_REMOVAL", id |-> nextId[n],
                        mac |-> g[due].mac, slot |-> due]
      OBVIOUS
    <3>2. RemovalRequest(g, due, nextId[n]) = <<o>>
      BY <2>2, <3>1 DEF RemovalRequest
    <3> QED
      BY <3>1, <3>2
  <2> QED
    BY <2>1, <2>2
<1>7. PICK b, c : b = bus[n] /\ c = b \o ms
  OBVIOUS
<1>8. IsSeq(b) /\ bus'[n] = c
  BY <1>4, <1>6, <1>7, ProtocolStation DEF TickOf
<1>9. Unmoved(n)
  <2>1. \A k, p : ~Bears(m, k, p)
    BY <1>6 DEF Bears, Brought
  <2> QED
    BY <1>5, <1>6, <1>7, <1>8, <2>1, BusUnmoved
<1>10. \A y \in Node : Unmoved(y)
  BY <1>1, <1>5, <1>9, StillStays
<1>11. TxWithin(grid[n], grid'[n])
  <2>1. grid[n] \in Grid
    BY ProtocolGrid DEF TickOf
  <2> QED
    BY <1>3, <1>4, <2>1, TimersWithin DEF TimedGrid
<1>12. ASSUME NEW p \in Node PROVE PairKeeps(n, p)
  <2>1. OneAdded(b, m, ms, c)
    BY <1>6, <1>7, <1>8, AddedRange
  <2>2. Asks(n, p)' => Asks(n, p)
    BY <1>6, <1>7, <1>8, <2>1 DEF OneAdded, Sent, Asks, RequestTo
  <2>3. ASSUME Asks(n, p), p \notin pendingTx'[n] PROVE Over(n, p)
    <3>1. ~ExchangeUnderWay(n, p)
      BY <2>3 DEF SelectionTimers, Asks, RequestTo, Range
    <3>2. Rests(bus[n]) /\ Rests(bus[p])
      BY TickRests DEF TickOf
    <3> QED
      BY <3>1, <3>2, NothingUnderway
  <2> QED
    BY <1>11, <2>2, <2>3 DEF PairKeeps, TxWithin
<1>13. \A y \in Node, p \in Node : PairKeeps(y, p)
  BY <1>1, <1>12, StillKeeps
<1> QED
  BY <1>5, <1>10, <1>13, TickStays DEF TickOf

LEMMA AdvertiseExchange ==
  ASSUME NEW n \in Node, TickOf(n), Advertise(n)
  PROVE  ExchangeInv'
<1>1. PICK active : active = {c \in Cell : table[n][c] # UnusedSlot}
  OBVIOUS
<1>2. PICK packets : packets = IfHeard(n, AdvertPacket(active))
  OBVIOUS
<1>3. /\ Sends(n, packets) /\ UNCHANGED <<selVars, macVars>> /\ active \in SUBSET Cell
  BY <1>1, <1>2 DEF Advertise
<1>4. PlainPackets(packets)
  <2>1. PICK c \in Cell : TRUE
    BY <1>1 DEF Advertise
  <2> QED
    BY <1>2, <1>3, <2>1, PlainOnes
<1>5. PacketsTyped
  BY DEF TickOf, ProtocolInv
<1>6. PlainGrown(queue[n], queue'[n]) /\ unacked'[n] = unacked[n]
  BY <1>3, <1>4, <1>5, PlainSent DEF PlainPackets
<1>7. \A y \in Node : PlainGrown(queue[y], queue'[y]) /\ unacked'[y] = unacked[y]
  <2>1. \A y \in Node \ {n} : queue'[y] = queue[y] /\ unacked'[y] = unacked[y]
    BY <1>3, <1>5 DEF Sends, PacketsTyped
  <2> QED
    BY <1>6, <2>1, SameQueue
<1>8. \A y \in Node : bus'[y] = bus[y] /\ grid'[y] = grid[y] /\ pendingTx'[y] = pendingTx[y]
  BY <1>3 DEF selVars
<1>9. \A y \in Node : Unmoved(y) /\ \A p \in Node : PairKeeps(y, p)
  BY <1>7, <1>8, StillStays, StillKeeps
<1> QED
  BY <1>7, <1>9, TickStays DEF TickOf

-----------------------------------------------------------------------------
(* A packet is sent and, on a reliable radio, received by those it is for *)

(* What x has of it when it is received. *)
Landed(k, x, q, m, heard) == IF x \in heard THEN NewOn(m, <<m>>, k, q) ELSE {}

OfPacket(m, n, packet, k, q) ==
  /\ Bears(m, k, q) => q = n /\ \/ k = 3 /\ packet.type = "ADD_SLOT"
                                \/ k = 6 /\ packet.type = "RESULT"
  /\ NewOn(m, <<m>>, k, q) \subseteq {packet.slots}
  /\ NewOn(m, <<m>>, k, q) # {} => Bears(m, k, q)
  /\ ~RequestTo(m, q) /\ m \notin Bearing(1, q)

LEMMA PacketBears ==
  ASSUME NEW n, NEW e, NEW m, m = Reception(n, e.packet), NEW k, NEW q
  PROVE  OfPacket(m, n, e.packet, k, q)
<1>1. m.to = "MAC" /\ m.type = "RECEIVE" /\ m.src = n /\ m.packet = e.packet
  BY DEF Reception
<1>2. Bears(m, k, q) => /\ q = n
                        /\ \/ k = 3 /\ e.packet.type = "ADD_SLOT"
                           \/ k = 6 /\ e.packet.type = "RESULT"
  BY <1>1 DEF Bears, Brought
<1>3. Told(m) = e.packet.slots
  BY <1>1 DEF Told
<1>4. NewOn(m, <<m>>, k, q) \subseteq {e.packet.slots} /\ (NewOn(m, <<m>>, k, q) # {} => Bears(m, k, q))
  BY <1>3 DEF NewOn, Sent
<1>5. ~RequestTo(m, q) /\ m \notin Bearing(1, q)
  BY <1>1 DEF RequestTo, Bearing, Bears
<1> QED
  BY <1>2, <1>4, <1>5 DEF OfPacket

LEMMA TransmitHas ==
  ASSUME ProtocolInv, NEW n \in Node, NEW e, NEW m, NEW heard, Reaches(n, e, m, heard),
         Unposted(queue[n], e, queue'[n]), \A x \in Node \ {n} : queue'[x] = queue[x],
         NEW x \in Node, NEW k, NEW q
  PROVE  /\ Has(k, x, q)' \subseteq Has(k, x, q) \cup Landed(k, x, q, m, heard)
         /\ \A y \in Range(bus'[x]) : y \in Range(bus[x]) \/ (y = m /\ x \in heard)
<1>1. PICK b, c : b = bus[x] /\ c = bus'[x]
  OBVIOUS
<1>2. CASE x \in heard
  <2>1. PICK ms : ms = <<m>>
    OBVIOUS
  <2>2. IsSeq(b) /\ c = b \o ms /\ ms \in {<<>>, <<m>>}
    BY <1>1, <1>2, <2>1, ProtocolStation DEF Reaches, Adds
  <2>3. OneAdded(b, m, ms, c)
    BY <2>2, AddedRange
  <2>4. BusHas(c, k, q) \subseteq BusHas(b, k, q) \cup Landed(k, x, q, m, heard)
    BY <1>2, <2>1, <2>3, BusGrown DEF Landed
  <2>5. QueueHas(queue'[x], k, q) \subseteq QueueHas(queue[x], k, q)
    BY DEF Unposted, QueueHas
  <2>6. \A y \in Range(c) : y \in Range(b) \/ y = m
    BY <2>3 DEF OneAdded, Sent
  <2> QED
    BY <1>1, <1>2, <2>4, <2>5, <2>6 DEF Has
<1>3. CASE x \notin heard
  <2>1. c = b
    BY <1>1, <1>3 DEF Reaches
  <2>2. QueueHas(queue'[x], k, q) \subseteq QueueHas(queue[x], k, q)
    BY DEF Unposted, QueueHas
  <2> QED
    BY <1>1, <2>1, <2>2 DEF Has
<1> QED
  BY <1>2, <1>3

LEMMA BusBears ==
  ASSUME NEW b, NEW k, NEW p, k \in {2, 5} PROVE BusHas(b, k, p) = {}
BY DEF BusHas, Bears

(* The two stages of an exchange that are on the radio. *)
Hops == {<<2, 3>>, <<5, 6>>}

LEMMA HopsAt ==
  ASSUME NEW j \in Stage, NEW l \in Stage, <<j, l>> \in Hops, NEW x, NEW p
  PROVE  At(j, x, p) = With(l, x, p) /\ With(j, x, p) = At(l, x, p) /\ j # l
BY DEF Hops, Stage, At, With, Asking

LEMMA TransmitPair ==
  ASSUME ProtocolInv, NEW n \in Node, NEW e, NEW m, m = Reception(n, e.packet),
         NEW heard, Reaches(n, e, m, heard),
         Unposted(queue[n], e, queue'[n]), \A x \in Node \ {n} : queue'[x] = queue[x],
         UNCHANGED <<grid, pendingTx>>, StationGood(n),
         NEW x \in Node, NEW p \in Node, PairGood(x, p)
  PROVE  PairStep(x, p)
<1>0. \A k, q : /\ Bears(m, k, q)
                     => /\ q = n
                        /\ \/ k = 3 /\ e.packet.type = "ADD_SLOT"
                           \/ k = 6 /\ e.packet.type = "RESULT"
                /\ NewOn(m, <<m>>, k, q) \subseteq {e.packet.slots}
                /\ NewOn(m, <<m>>, k, q) # {} => Bears(m, k, q)
                /\ ~RequestTo(m, q)
  <2>1. \A k, q : OfPacket(m, n, e.packet, k, q)
    BY PacketBears
  <2> QED
    BY <2>1 DEF OfPacket
<1>1. ASSUME NEW k \in Stage
      PROVE  Underway(k, x, p)' \subseteq
               Underway(k, x, p) \cup Landed(k, At(k, x, p), With(k, x, p), m, heard)
  <2>1. At(k, x, p) \in Node
    BY DEF At
  <2>2. Has(k, At(k, x, p), With(k, x, p))' \subseteq
          Has(k, At(k, x, p), With(k, x, p)) \cup Landed(k, At(k, x, p), With(k, x, p), m, heard)
    BY <2>1, TransmitHas
  <2> QED
    BY <2>2, UnderwayAt
<1>2. PairKeeps(x, p)
  <2>0. \A k, q : /\ Has(k, x, q)' \subseteq Has(k, x, q) \cup Landed(k, x, q, m, heard)
                  /\ \A y \in Range(bus'[x]) : y \in Range(bus[x]) \/ (y = m /\ x \in heard)
    BY TransmitHas
  <2>1. Asks(x, p)' => Asks(x, p)
    BY <1>0, <2>0 DEF Asks
  <2> QED
    BY <2>1 DEF PairKeeps
<1>3. CASE \A k \in Stage : Landed(k, At(k, x, p), With(k, x, p), m, heard) = {}
  <2>1. PairSame(x, p)
    BY <1>1, <1>3 DEF PairSame
  <2> QED
    BY <1>2, <2>1 DEF PairStep
<1>4. ASSUME NEW l \in Stage, Landed(l, At(l, x, p), With(l, x, p), m, heard) # {}
      PROVE  PairStep(x, p)
  <2>1. At(l, x, p) \in heard /\ Bears(m, l, With(l, x, p))
    BY <1>4, <1>0 DEF Landed
  <2>2. /\ With(l, x, p) = n
        /\ \/ l = 3 /\ e.packet.type = "ADD_SLOT"
           \/ l = 6 /\ e.packet.type = "RESULT"
    BY <2>1, <1>0
  <2>3. At(l, x, p) = e.packet.dst
    BY <2>1, <2>2 DEF Reaches, Audience, Unicast
  <2>4. PICK j \in Stage : <<j, l>> \in Hops
    BY <2>2 DEF Hops, Stage
  <2>5. At(j, x, p) = n /\ With(j, x, p) = e.packet.dst /\ j # l /\ j \in {2, 5}
    BY <2>2, <2>3, <2>4, HopsAt DEF Hops
  <2>6. Carries(e, j, With(j, x, p))
    BY <2>2, <2>4, <2>5 DEF Hops, Carries, IsPacket
  <2>7. e.packet.slots \in Underway(j, x, p)
    BY <2>5, <2>6, UnderwayAt DEF Has, QueueHas, Unposted
  <2>8. Underway(j, x, p)' = {}
    <3>1. With(j, x, p) \in Node
      BY DEF With
    <3>2. Once(queue[n], Carrying(j, With(j, x, p)))
      BY <3>1 DEF StationGood, Unique
    <3>3. QueueHas(queue'[n], j, With(j, x, p)) = {}
      BY <2>6, <3>2 DEF Unposted
    <3>4. Has(j, n, With(j, x, p))' = {}
      BY <2>5, <3>3, BusBears DEF Has
    <3> QED
      BY <2>5, <3>4, UnderwayAt
  <2>9. \A k \in Stage : k # l => Landed(k, At(k, x, p), With(k, x, p), m, heard) = {}
    BY <2>2, <1>0 DEF Landed
  <2>10. \A k \in Stage : k # l => Underway(k, x, p)' \subseteq Underway(k, x, p)
    BY <1>1, <2>9
  <2>11. \A new \in Underway(l, x, p)' :
           new \subseteq e.packet.slots \/ new \in Underway(l, x, p)
    BY <1>1, <1>0 DEF Landed
  <2>12. PairMoves(x, p)
    BY <2>7, <2>8, <2>10, <2>11 DEF PairMoves
  <2> QED
    BY <1>2, <2>12 DEF PairStep
<1> QED
  BY <1>3, <1>4

LEMMA TransmitExchange ==
  ASSUME Reliable, NEW n \in Node, TickOf(n), Transmit(n) PROVE ExchangeInv'
<1>1. PICK e, m : e = Head(queue[n]) /\ m = Reception(n, e.packet)
  OBVIOUS
<1>2. /\ queue[n] # <<>> /\ e \in Entry
      /\ \E heard : Reaches(n, e, m, heard)
      /\ queue'[n] = Tail(queue[n]) /\ \A x \in Node \ {n} : queue'[x] = queue[x]
      /\ \A x \in Node : unacked'[x] = unacked[x]
      /\ UNCHANGED <<grid, pendingTx>>
  BY <1>1, TransmitAdds DEF TickOf
<1>3. PICK heard : Reaches(n, e, m, heard)
  BY <1>2
<1>4. PICK q, r : q = queue[n] /\ r = queue'[n]
  OBVIOUS
<1>5. Unposted(q, e, r)
  <2>1. q \in Seq(Entry)
    BY <1>4 DEF TickOf, ProtocolInv, PacketsTyped
  <2> QED
    BY <1>1, <1>2, <1>4, <2>1, FirstLeaves
<1>6. \A x \in Node : StationGood(x)
  BY ExchangeByStation DEF TickOf
<1>7. ASSUME NEW x \in Node PROVE StationGood(x)'
  <2>1. unacked'[x] = <<>>
    BY <1>2, <1>6 DEF StationGood
  <2>2. ASSUME NEW p \in Node PROVE PairGood(x, p)'
    <3>1. PairGood(x, p)
      BY <1>6 DEF StationGood
    <3>2. PairStep(x, p)
      BY <1>1, <1>2, <1>3, <1>4, <1>5, <1>6, <3>1, TransmitPair DEF TickOf
    <3> QED
      BY <3>1, <3>2, PairInvariant
  <2>3. ASSUME NEW p \in Node PROVE Once(bus'[x], Bearing(1, p))
    <3>1. PICK b, c, ms : b = bus[x] /\ ms = <<m>> /\ c = b \o ms
      OBVIOUS
    <3>2. Once(b, Bearing(1, p)) /\ IsSeq(b)
      BY <1>6, <3>1, ProtocolStation DEF StationGood, Unique, TickOf
    <3>3. CASE x \in heard
      <4>1. bus'[x] = c
        BY <1>3, <3>1, <3>3 DEF Reaches, Adds
      <4>2. m \notin Bearing(1, p)
        BY <1>1, PacketBears DEF OfPacket
      <4>3. Once(c, Bearing(1, p))
        BY <3>1, <3>2, <4>2, AddedOnce
      <4> QED
        BY <4>1, <4>3
    <3>4. CASE x \notin heard
      BY <1>3, <3>1, <3>2, <3>4 DEF Reaches
    <3> QED
      BY <3>3, <3>4
  <2>4. ASSUME NEW p \in Node, NEW k \in Stage PROVE Once(queue'[x], Carrying(k, p))
    <3>1. Once(queue[x], Carrying(k, p))
      BY <1>6 DEF StationGood, Unique
    <3> QED
      BY <1>2, <1>4, <1>5, <3>1 DEF Unposted
  <2> QED
    BY <2>1, <2>2, <2>3, <2>4 DEF StationGood, Unique
<1> QED
  BY <1>7, ExchangeByStation

-----------------------------------------------------------------------------
LEMMA ExchangeInvInductive ==
  ASSUME Reliable, Prompt
  PROVE  ProtocolInv /\ ProtocolInv' /\ InstantInv /\ ExchangeInv /\ [ProtocolNext]_vars
           => ExchangeInv'
<1> SUFFICES ASSUME ProtocolInv, ProtocolInv', InstantInv, ExchangeInv, [ProtocolNext]_vars
             PROVE  ExchangeInv'
  OBVIOUS
<1>1. CASE UNCHANGED vars
  <2>1. UNCHANGED <<bus, grid, pendingTx, queue, unacked>>
    BY <1>1 DEF vars, selVars, radioVars
  <2>2. \A k, n, p : Underway(k, n, p)' = Underway(k, n, p)
    BY <2>1 DEF Underway, Has
  <2>3. ASSUME NEW n \in Node, NEW p \in Node
        PROVE  Exclusive(n, p)' /\ Unique(n, p)' /\ Asked(n, p)' /\ Untold(n, p)'
    <3>1. Exclusive(n, p) /\ Unique(n, p) /\ Asked(n, p) /\ Untold(n, p)
      BY DEF ExchangeInv
    <3>2. Exclusive(n, p)' /\ Asked(n, p)' /\ Untold(n, p)'
      BY <2>1, <2>2, <3>1 DEF Exclusive, Asked, Untold
    <3>3. Unique(n, p)'
      BY <2>1, <3>1 DEF Unique
    <3> QED
      BY <3>2, <3>3
  <2> QED
    BY <2>1, <2>3 DEF ExchangeInv
<1>2. ASSUME NEW n \in Node, Drain(n) PROVE ExchangeInv'
  BY <1>2, DrainExchange
<1>3. ASSUME NEW n \in Node, Tick(n) PROVE ExchangeInv'
  <2>1. TickOf(n)
    BY <1>3 DEF TickOf
  <2>2. CASE AppSend(n) \/ QueueTimeout(n)
    <3>1. PICK mac \in Node : RequestSlots(n, mac)
      BY <2>2 DEF AppSend, QueueTimeout
    <3> QED
      BY <2>1, <3>1, RequestSlotsExchange
  <2>3. CASE SendStatistics(n)
    <3>1. PICK c \in Cell : Request(n, [to |-> "AI", type |-> "STATS", slot |-> c])
      BY <2>3 DEF SendStatistics
    <3>2. PICK m : m = [to |-> "AI", type |-> "STATS", slot |-> c]
      OBVIOUS
    <3>3. m.to = "AI" /\ m.type = "STATS" /\ \A p : ~RequestTo(m, p)
      BY <3>2 DEF RequestTo
    <3> QED
      BY <2>1, <3>1, <3>2, <3>3, RequestExchange
  <2>4. CASE Retransmit(n)
    <3>1. unacked[n] = <<>>
      BY DEF ExchangeInv
    <3>2. DOMAIN <<>> = {}
      OBVIOUS
    <3> QED
      BY <2>4, <3>1, <3>2 DEF Retransmit
  <2> QED
    BY <1>3, <2>1, <2>2, <2>3, <2>4, AdvertiseExchange, TimersExchange, TransmitExchange
       DEF Tick
<1> QED
  BY <1>1, <1>2, <1>3 DEF ProtocolNext

LEMMA InitExchange == ProtocolInit => ExchangeInv
<1> SUFFICES ASSUME ProtocolInit, NEW n \in Node, NEW p \in Node
             PROVE  /\ unacked[n] = <<>>
                    /\ Exclusive(n, p) /\ Unique(n, p) /\ Asked(n, p) /\ Untold(n, p)
  BY DEF ExchangeInv
<1>1. \A x \in Node : bus[x] = <<SetBcSlots>> /\ queue[x] = <<>> /\ unacked[x] = <<>>
  BY StationAssumption DEF ProtocolInit, Init
<1>2. \A y \in Range(<<SetBcSlots>>) : y = SetBcSlots
  BY DEF Range
<1>3. \A k, q : ~Bears(SetBcSlots, k, q)
  BY DEF SetBcSlots, Bears
<1>4. \A k, q : BusHas(<<SetBcSlots>>, k, q) = {} /\ QueueHas(<<>>, k, q) = {}
  BY <1>2, <1>3 DEF BusHas, QueueHas, Range
<1>5. \A k \in Stage : Underway(k, n, p) = {}
  BY <1>1, <1>4 DEF Underway, Has
<1>6. Unique(n, p)
  <2>1. PICK b, q : b = bus[n] /\ q = queue[n]
    OBVIOUS
  <2>2. DOMAIN b = {1} /\ DOMAIN q = {}
    BY <1>1, <2>1
  <2> QED
    BY <2>1, <2>2 DEF Unique, Once
<1> QED
  BY <1>1, <1>5, <1>6 DEF Exclusive, Asked, Untold

-----------------------------------------------------------------------------
(* The slot table and the grid of a station.  B is the set of the messages on *)
(* its bus, g its grid, t its table, P its procedures.                        *)

Busy(g, c)     == g[c].state \in {"TX", "RX"}
TableFor(g, c) ==
  IF Busy(g, c) THEN [use |-> IF g[c].state = "TX" THEN "SEND" ELSE "RECEIVE", mac |-> g[c].mac]
                ELSE UnusedSlot

(* Why a cell of the table may differ from the grid: the slot selection took, *)
(* or freed, the cell and its answer is on the bus; or the MAC has removed it *)
(* for the slot selection and its answer is.                                  *)
Accepted(x, P, set) == /\ x.to = "MAC" /\ x.type = "SETR" /\ x.result = "OK"
                       /\ x.id \in DOMAIN P /\ P[x.id].set = set
Adding(B, P, c)   == \E x \in B : Accepted(x, P, "ALLOCATION") /\ P[x.id].slot = c
Dropping(B, P, c) == \E x \in B : Accepted(x, P, "REMOVAL") /\ P[x.id].slot = c
Ending(B, g, c)   == \E x \in B : RemovalReported(x) /\ x.id = g[c].removal

CellsAgree(B, g, t, P) ==
  \A c \in Cell : \/ t[c] = TableFor(g, c)
                  \/ Adding(B, P, c) \/ Dropping(B, P, c) \/ Ending(B, g, c)
AddingRight(B, g, t, P) ==
  \A x \in B : Accepted(x, P, "ALLOCATION") =>
    LET r == P[x.id]
    IN  /\ r.slot \in Cell /\ r.mode \in Mode /\ t[r.slot] = UnusedSlot
        /\ g[r.slot].state = r.mode /\ g[r.slot].mac = r.mac /\ g[r.slot].removal = 0
DroppingRight(B, g, P) ==
  \A x \in B : Accepted(x, P, "REMOVAL") => P[x.id].slot \in Cell /\ ~Busy(g, P[x.id].slot)
EndingRight(B, g, t) == \A c \in Cell : Ending(B, g, c) => t[c] = UnusedSlot

(* A removal was asked for a cell that has been freed since: nothing that is  *)
(* still on the bus can allocate it again.                                    *)
Settling(B) == B \cap Early = {} /\ B \cap Derived \subseteq Answered
AskingRight(B, g, e) ==
  \A x \in B : RemovalAsked(x) =>
    /\ \A d \in Cell : g[d].removal = x.id => d = x.slot
    /\ \/ Busy(g, x.slot) /\ g[x.slot].mac = x.mac /\ g[x.slot].removal = x.id
       \/ ~Busy(g, x.slot) /\ e = TRUE /\ Settling(B)

TablesRight(B, g, t, P, e) ==
  /\ CellsAgree(B, g, t, P) /\ AddingRight(B, g, t, P) /\ DroppingRight(B, g, P)
  /\ EndingRight(B, g, t) /\ AskingRight(B, g, e)

-----------------------------------------------------------------------------
(* The head h of a bus is handled: the rest S remains and m is added. *)

Marks(x) == RemovalAsked(x) \/ RemovalReported(x)

Scene(h, S, m, ms, g, P, k, R) ==
  /\ HandlesAll(h, m, ms)
  /\ h \in Message /\ S \subseteq Message /\ (ms = <<m>> => m \in Message)
  /\ k \in Nat \ {0} /\ \A x \in S \cup {h} : OldId(x, k)
  /\ h \in Derived => S \cap Derived = {}
  /\ h \in Started => S \cap Early = {}
  /\ S \cap Answered # {} => h \notin Early
  /\ Marks(h) => \A x \in S : Marks(x) => x.id # h.id
  /\ Marked(g, R) /\ \A id \in R : id < k
  /\ \A x \in S \cup {h} : \A set \in {"ALLOCATION", "REMOVAL"} :
       Accepted(x, P, set) => x \in Answered

(* The procedures that the rest of the bus answers stay; the bus is drained on. *)
Onward(S, m, ms, C, P, q, e) ==
  /\ C = S \cup Sent(m, ms) /\ (e = TRUE \/ C = {})
  /\ \A x \in S : \A set \in {"ALLOCATION", "REMOVAL"} :
       Accepted(x, q, set) => Accepted(x, P, set) /\ q[x.id] = P[x.id]
  /\ \A x \in S : \A set \in {"ALLOCATION", "REMOVAL"} :
       Accepted(x, P, set) => Accepted(x, q, set) /\ q[x.id] = P[x.id]

Unaccepted(x, P) == ~Accepted(x, P, "ALLOCATION") /\ ~Accepted(x, P, "REMOVAL")

SameCell(g, f, c) == /\ Busy(g, c) \/ Busy(f, c) => f[c].state = g[c].state /\ f[c].mac = g[c].mac
                     /\ f[c].removal = g[c].removal

LEMMA SettlingKept ==
  ASSUME NEW h, NEW S, NEW m, NEW ms, NEW C, NEW g, NEW P, NEW k, NEW R,
         Scene(h, S, m, ms, g, P, k, R), C = S \cup Sent(m, ms), Settling(S \cup {h})
  PROVE  Settling(C)
<1>1. ASSUME ms = <<m>>, m \in Derived PROVE FALSE
  <2>3. h.type = "SET_BC_SLOTS" /\ h.to = "AI" => h.id = 0
    BY RadioMessageAssumption
       DEF Scene, Message, ToAI, ToMac, MacRequest, GetProposed, GetSelected, SetAllocation,
           SetRemoval, SetExternalUsed, SetExternalFree, RemovalDone, Stats, SetBcSlots
  <2>1. h \in Derived
    BY <1>1, <2>3 DEF Scene, HandlesAll, Causes, Derived, RemovalAsked, RemovalReported
  <2>2. h.to = "MAC" /\ h.type = "SETR"
    BY <2>1 DEF Settling, Answered
  <2> QED
    BY <1>1, <2>2 DEF Scene, HandlesAll, Causes, RemovalAsked
<1>2. ASSUME ms = <<m>> PROVE m \notin Early
  BY <1>2 DEF Scene, HandlesAll, Causes, Early, RemovalAsked, RemovalReported
<1> QED
  BY <1>1, <1>2 DEF Settling, Sent

(* Of the two states of a removal that is asked for, what excludes the second. *)
LEMMA NotSettling ==
  ASSUME NEW h, NEW S, h \in Early \/ (h \in Derived /\ h \notin Answered)
  PROVE  ~Settling(S \cup {h})
BY DEF Settling

(* The removals that are asked for, if no cell in use is touched. *)
LEMMA AskingKept ==
  ASSUME NEW h, NEW S, NEW m, NEW ms, NEW C, NEW g, NEW P, NEW k, NEW R,
         Scene(h, S, m, ms, g, P, k, R), NEW d, AskingRight(S \cup {h}, g, d),
         NEW q, NEW e, Onward(S, m, ms, C, P, q, e),
         NEW f, \A c \in Cell : SameCell(g, f, c), ms = <<m>> => ~RemovalAsked(m)
  PROVE  AskingRight(C, f, e)
<1>1. \A x \in C : x \in S \/ (ms = <<m>> /\ x = m)
  BY DEF Onward, Sent
<1>2. \A c \in Cell : TableFor(f, c) = TableFor(g, c) /\ (Busy(f, c) <=> Busy(g, c))
  BY DEF SameCell, TableFor, Busy
<1>3. ASSUME NEW x \in C, RemovalAsked(x)
      PROVE  /\ \A c \in Cell : f[c].removal = x.id => c = x.slot
             /\ \/ Busy(f, x.slot) /\ f[x.slot].mac = x.mac /\ f[x.slot].removal = x.id
                \/ ~Busy(f, x.slot) /\ e = TRUE /\ Settling(C)
  <2>1. x \in S
    BY <1>1, <1>3 DEF Marks
  <2>2. x.slot \in Cell
    BY <1>3, <2>1, MacMessage DEF Scene, RemovalAsked
  <2>3. /\ \A c \in Cell : g[c].removal = x.id => c = x.slot
        /\ \/ Busy(g, x.slot) /\ g[x.slot].mac = x.mac /\ g[x.slot].removal = x.id
           \/ ~Busy(g, x.slot) /\ Settling(S \cup {h})
    BY <1>3, <2>1 DEF TablesRight, AskingRight
  <2>4. \A c \in Cell : f[c].removal = x.id => c = x.slot
    BY <2>3 DEF SameCell
  <2>5. CASE Busy(g, x.slot) /\ g[x.slot].mac = x.mac /\ g[x.slot].removal = x.id
    BY <2>2, <2>4, <2>5, <1>2 DEF SameCell
  <2>6. CASE ~Busy(g, x.slot) /\ Settling(S \cup {h})
    <3>1. Settling(C)
      BY <2>6, SettlingKept DEF Onward
    <3>2. e = TRUE
      BY <1>3 DEF Onward
    <3> QED
      BY <1>2, <2>2, <2>4, <2>6, <3>1, <3>2
  <2> QED
    BY <2>3, <2>5, <2>6
<1> QED
  BY <1>3 DEF AskingRight

(* A handler that touches no cell in use and no table. *)
LEMMA PlainTables ==
  ASSUME NEW h, NEW S, NEW m, NEW ms, NEW C, NEW g, NEW P, NEW k, NEW R,
         Scene(h, S, m, ms, g, P, k, R), NEW t, NEW d, TablesRight(S \cup {h}, g, t, P, d),
         NEW q, NEW e, Onward(S, m, ms, C, P, q, e),
         NEW f, \A c \in Cell : SameCell(g, f, c),
         ~Marks(h), Unaccepted(h, P),
         ms = <<m>> => ~Marks(m) /\ Unaccepted(m, q)
  PROVE  TablesRight(C, f, t, q, e)
<1>1. \A x \in C : x \in S \/ (ms = <<m>> /\ x = m)
  BY DEF Onward, Sent
<1>2. S \subseteq C
  BY DEF Onward
<1>3. \A c \in Cell : TableFor(f, c) = TableFor(g, c) /\ (Busy(f, c) <=> Busy(g, c))
  BY DEF SameCell, TableFor, Busy
<1>4. \A x \in C, set \in {"ALLOCATION", "REMOVAL"} :
        Accepted(x, q, set) => x \in S /\ Accepted(x, P, set) /\ q[x.id] = P[x.id]
  BY <1>1 DEF Onward, Unaccepted
<1>5. \A c \in Cell : /\ Adding(S \cup {h}, P, c) => Adding(C, q, c)
                      /\ Dropping(S \cup {h}, P, c) => Dropping(C, q, c)
  BY <1>2 DEF Adding, Dropping, Onward, Unaccepted
<1>6. \A c \in Cell : Ending(S \cup {h}, g, c) <=> Ending(C, f, c)
  BY <1>1, <1>2 DEF Ending, SameCell, Marks
<1>7. CellsAgree(C, f, t, q)
  BY <1>3, <1>5, <1>6 DEF CellsAgree, TablesRight
<1>8. AddingRight(C, f, t, q)
  BY <1>4 DEF AddingRight, TablesRight, SameCell, Busy, Mode
<1>9. DroppingRight(C, f, q)
  BY <1>3, <1>4 DEF DroppingRight, TablesRight
<1>10. EndingRight(C, f, t)
  BY <1>6 DEF EndingRight, TablesRight
<1>11. AskingRight(C, f, e)
  BY AskingKept DEF TablesRight, Marks
<1> QED
  BY <1>7, <1>8, <1>9, <1>10, <1>11 DEF TablesRight

-----------------------------------------------------------------------------
(* The handlers that touch a cell in use or the table *)

(* What a message of a packet is handled with: no other is, on that bus. *)
LEMMA NoAccepted ==
  ASSUME NEW h, NEW S, NEW m, NEW ms, NEW C, NEW g, NEW P, NEW k, NEW R,
         Scene(h, S, m, ms, g, P, k, R), NEW q, NEW e, Onward(S, m, ms, C, P, q, e),
         h \in Derived \/ h \in Early
  PROVE  \A x \in S : Unaccepted(x, P) /\ Unaccepted(x, q)
<1>1. Answered \subseteq Derived
  BY DEF Answered, Derived
<1>2. S \cap Answered = {}
  BY <1>1 DEF Scene
<1>3. \A x \in S : Unaccepted(x, P)
  BY <1>2 DEF Scene, Unaccepted
<1> QED
  BY <1>3 DEF Unaccepted, Onward

(* A cell that no message on the bus is about is right in the table. *)
LEMMA PlainCell ==
  ASSUME NEW B, NEW g, NEW t, NEW P, NEW e, TablesRight(B, g, t, P, e),
         \A x \in B : Unaccepted(x, P), NEW c \in Cell, ~Ending(B, g, c)
  PROVE  t[c] = TableFor(g, c)
BY DEF TablesRight, CellsAgree, Adding, Dropping, Unaccepted

(* A message that reports or asks has an id that is none of an unmarked cell. *)
LEMMA ReportedIds ==
  ASSUME NEW h, NEW S, NEW m, NEW ms, NEW g, NEW P, NEW k, NEW R,
         Scene(h, S, m, ms, g, P, k, R), NEW c, g[c].removal = 0
  PROVE  /\ ~Ending(S \cup {h}, g, c) /\ ~Ending(S, g, c)
         /\ \A x \in S \cup {h} : Marks(x) => x.id # 0
BY DEF Scene, Ending, Marks, OldId

(* The slot selection takes the slot z that the MAC asked for. *)
LEMMA AllocTables ==
  ASSUME NEW h, NEW S, NEW m, NEW ms, NEW C, NEW g, NEW P, NEW k, NEW R,
         Scene(h, S, m, ms, g, P, k, R), NEW t, NEW d, TablesRight(S \cup {h}, g, t, P, d),
         NEW q, NEW e, Onward(S, m, ms, C, P, q, e),
         h \in Derived, h \notin Answered, ~Marks(h), Unaccepted(h, P),
         NEW z \in Cell, ~Busy(g, z), g[z].removal = 0,
         NEW f, f[z].state \in Mode, f[z].removal = 0,
         \A c \in Cell \ {z} : SameCell(g, f, c),
         ms = <<m>>, Accepted(m, q, "ALLOCATION"), q[m.id].slot = z,
         q[m.id].mode = f[z].state, q[m.id].mac = f[z].mac
  PROVE  TablesRight(C, f, t, q, e)
<1>1. C = S \cup {m} /\ e = TRUE /\ ~Marks(m)
  BY DEF Onward, Sent, Marks, Accepted, RemovalAsked, RemovalReported
<1>2. \A x \in S : Unaccepted(x, P) /\ Unaccepted(x, q)
  BY NoAccepted
<1>3. ~Accepted(m, q, "REMOVAL")
  BY DEF Accepted
<1>4. \A c \in Cell \ {z} : Ending(C, f, c) => Ending(S \cup {h}, g, c)
  BY <1>1 DEF Ending, SameCell, Marks
<1>5. \A c \in Cell \ {z} : Ending(S \cup {h}, g, c) => Ending(C, f, c)
  BY <1>1 DEF Ending, SameCell, Marks
<1>6. ~Ending(C, f, z) /\ ~Ending(S \cup {h}, g, z) /\ \A x \in S : Marks(x) => x.id # 0
  BY <1>1, ReportedIds DEF Ending, Marks
<1>7. t[z] = UnusedSlot
  <2>1. \A x \in S \cup {h} : Unaccepted(x, P)
    BY <1>2
  <2>2. t[z] = TableFor(g, z)
    BY <1>6, <2>1, PlainCell
  <2> QED
    BY <2>2 DEF TableFor
<1>8. CellsAgree(C, f, t, q)
  <2>1. Adding(C, q, z)
    BY <1>1 DEF Adding
  <2>2. ASSUME NEW c \in Cell \ {z} PROVE t[c] = TableFor(f, c) \/ Ending(C, f, c)
    <3>1. TableFor(f, c) = TableFor(g, c)
      BY DEF SameCell, TableFor, Busy
    <3>2. ~Ending(S \cup {h}, g, c) => t[c] = TableFor(g, c)
      <4>1. \A x \in S \cup {h} : Unaccepted(x, P)
        BY <1>2
      <4> QED
        BY <4>1, PlainCell
    <3> QED
      BY <1>5, <3>1, <3>2
  <2> QED
    BY <2>1, <2>2 DEF CellsAgree
<1>9. AddingRight(C, f, t, q)
  BY <1>1, <1>2, <1>7 DEF AddingRight, Unaccepted
<1>10. DroppingRight(C, f, q)
  BY <1>1, <1>2, <1>3 DEF DroppingRight, Unaccepted
<1>11. EndingRight(C, f, t)
  BY <1>4, <1>6 DEF EndingRight, TablesRight
<1>12. AskingRight(C, f, e)
  <2>1. ASSUME NEW x \in C, RemovalAsked(x)
        PROVE  /\ \A c \in Cell : f[c].removal = x.id => c = x.slot
               /\ Busy(f, x.slot) /\ f[x.slot].mac = x.mac /\ f[x.slot].removal = x.id
    <3>1. x \in S /\ x.id # 0
      BY <1>1, <1>6, <2>1 DEF Marks
    <3>2. x.slot \in Cell
      BY <2>1, <3>1, MacMessage DEF Scene, RemovalAsked
    <3>3. /\ \A c \in Cell : g[c].removal = x.id => c = x.slot
          /\ Busy(g, x.slot) /\ g[x.slot].mac = x.mac /\ g[x.slot].removal = x.id
      BY <2>1, <3>1, NotSettling DEF TablesRight, AskingRight
    <3>4. x.slot # z
      BY <3>3
    <3> QED
      BY <3>1, <3>2, <3>3, <3>4 DEF SameCell, Busy
  <2> QED
    BY <2>1 DEF AskingRight
<1> QED
  BY <1>8, <1>9, <1>10, <1>11, <1>12 DEF TablesRight

(* The slot selection frees the slot z that the MAC asked it to. *)
LEMMA FreeTables ==
  ASSUME NEW h, NEW S, NEW m, NEW ms, NEW C, NEW g, NEW P, NEW k, NEW R,
         Scene(h, S, m, ms, g, P, k, R), NEW t, NEW d, TablesRight(S \cup {h}, g, t, P, d),
         NEW q, NEW e, Onward(S, m, ms, C, P, q, e),
         h \in Derived, h \in Started, ~Marks(h), Unaccepted(h, P),
         NEW z \in Cell, NEW f, ~Busy(f, z), f[z].removal = 0,
         \A c \in Cell \ {z} : SameCell(g, f, c),
         ms = <<m>>, Accepted(m, q, "REMOVAL"), q[m.id].slot = z
  PROVE  TablesRight(C, f, t, q, e)
<1>1. C = S \cup {m} /\ e = TRUE /\ ~Marks(m)
  BY DEF Onward, Sent, Marks, Accepted, RemovalAsked, RemovalReported
<1>2. \A x \in S : Unaccepted(x, P) /\ Unaccepted(x, q)
  BY NoAccepted
<1>3. ~Accepted(m, q, "ALLOCATION")
  BY DEF Accepted
<1>4. \A c \in Cell \ {z} : Ending(C, f, c) => Ending(S \cup {h}, g, c)
  BY <1>1 DEF Ending, SameCell, Marks
<1>5. \A c \in Cell \ {z} : Ending(S \cup {h}, g, c) => Ending(C, f, c)
  BY <1>1 DEF Ending, SameCell, Marks
<1>6. ~Ending(C, f, z) /\ \A x \in S : Marks(x) => x.id # 0
  <2>1. \A x \in S : Marks(x) => x.id # 0
    BY DEF Scene, Marks, OldId
  <2> QED
    BY <1>1, <2>1 DEF Ending, Marks
<1>7. CellsAgree(C, f, t, q)
  <2>1. Dropping(C, q, z)
    BY <1>1 DEF Dropping
  <2>2. ASSUME NEW c \in Cell \ {z} PROVE t[c] = TableFor(f, c) \/ Ending(C, f, c)
    <3>1. TableFor(f, c) = TableFor(g, c)
      BY DEF SameCell, TableFor, Busy
    <3>2. ~Ending(S \cup {h}, g, c) => t[c] = TableFor(g, c)
      <4>1. \A x \in S \cup {h} : Unaccepted(x, P)
        BY <1>2
      <4> QED
        BY <4>1, PlainCell
    <3> QED
      BY <1>5, <3>1, <3>2
  <2> QED
    BY <2>1, <2>2 DEF CellsAgree
<1>8. AddingRight(C, f, t, q)
  BY <1>1, <1>2, <1>3 DEF AddingRight, Unaccepted
<1>9. DroppingRight(C, f, q)
  BY <1>1, <1>2 DEF DroppingRight, Unaccepted
<1>10. EndingRight(C, f, t)
  BY <1>4, <1>6 DEF EndingRight, TablesRight
<1>11. Settling(C)
  <2>1. m \notin Early /\ (m \in Derived => m \in Answered)
    BY DEF Accepted, Early, Derived, Answered
  <2> QED
    BY <1>1, <2>1 DEF Settling, Scene
<1>12. AskingRight(C, f, e)
  <2>1. ASSUME NEW x \in C, RemovalAsked(x)
        PROVE  /\ \A c \in Cell : f[c].removal = x.id => c = x.slot
               /\ \/ Busy(f, x.slot) /\ f[x.slot].mac = x.mac /\ f[x.slot].removal = x.id
                  \/ ~Busy(f, x.slot)
    <3>1. x \in S /\ x.id # 0
      BY <1>1, <1>6, <2>1 DEF Marks
    <3>2. x.slot \in Cell
      BY <2>1, <3>1, MacMessage DEF Scene, RemovalAsked
    <3>3. /\ \A c \in Cell : g[c].removal = x.id => c = x.slot
          /\ \/ Busy(g, x.slot) /\ g[x.slot].mac = x.mac /\ g[x.slot].removal = x.id
             \/ ~Busy(g, x.slot)
      BY <2>1, <3>1 DEF TablesRight, AskingRight
    <3>4. \A c \in Cell : f[c].removal = x.id => c = x.slot
      BY <3>1, <3>3 DEF SameCell
    <3>5. CASE x.slot = z
      BY <3>4, <3>5
    <3>6. CASE x.slot # z
      BY <3>2, <3>3, <3>4, <3>6 DEF SameCell, Busy
    <3> QED
      BY <3>5, <3>6
  <2> QED
    BY <1>1, <1>11, <2>1 DEF AskingRight
<1> QED
  BY <1>7, <1>8, <1>9, <1>10, <1>12 DEF TablesRight

(* The MAC has freed the cells marked with the id of h. *)
LEMMA EndTables ==
  ASSUME NEW h, NEW S, NEW m, NEW ms, NEW C, NEW g, NEW P, NEW k, NEW R,
         Scene(h, S, m, ms, g, P, k, R), NEW t, NEW d, TablesRight(S \cup {h}, g, t, P, d),
         NEW q, NEW e, Onward(S, m, ms, C, P, q, e), ms = <<>>,
         RemovalReported(h),
         NEW f, \A c \in Cell : IF g[c].removal = h.id THEN f[c] = FreeInfo ELSE f[c] = g[c]
  PROVE  TablesRight(C, f, t, q, e)
<1>1. C = S /\ Unaccepted(h, P)
  BY DEF Onward, Sent, Unaccepted, Accepted, RemovalReported
<1>2. /\ \A x \in S : Marks(x) => x.id # h.id /\ x.id # 0
      /\ h.id # 0
  BY DEF Scene, Marks, OldId
<1>3. \A c \in Cell : Ending(C, f, c) => f[c] = g[c] /\ Ending(S \cup {h}, g, c)
  BY <1>1, <1>2 DEF Ending, Marks, FreeInfo
<1>4. \A c \in Cell : Ending(S \cup {h}, g, c) => g[c].removal = h.id \/ Ending(C, f, c)
  BY <1>1 DEF Ending
<1>5. CellsAgree(C, f, t, q)
  <2>1. ASSUME NEW c \in Cell
        PROVE  t[c] = TableFor(f, c) \/ Adding(C, q, c) \/ Dropping(C, q, c) \/ Ending(C, f, c)
    <3>1. CASE g[c].removal = h.id
      <4>1. Ending(S \cup {h}, g, c)
        BY <3>1 DEF Ending
      <4>2. t[c] = UnusedSlot
        BY <4>1 DEF TablesRight, EndingRight
      <4> QED
        BY <3>1, <4>2 DEF TableFor, Busy, FreeInfo
    <3>2. CASE g[c].removal # h.id
      <4>1. TableFor(f, c) = TableFor(g, c)
        BY <3>2 DEF TableFor, Busy
      <4>2. /\ Adding(S \cup {h}, P, c) => Adding(C, q, c)
            /\ Dropping(S \cup {h}, P, c) => Dropping(C, q, c)
        BY <1>1 DEF Adding, Dropping, Onward, Unaccepted
      <4> QED
        BY <1>4, <3>2, <4>1, <4>2 DEF TablesRight, CellsAgree
    <3> QED
      BY <3>1, <3>2
  <2> QED
    BY <2>1 DEF CellsAgree
<1>6. AddingRight(C, f, t, q)
  BY <1>1, <1>2 DEF AddingRight, TablesRight, Onward
<1>7. DroppingRight(C, f, q)
  BY <1>1 DEF DroppingRight, TablesRight, Onward, Busy, FreeInfo
<1>8. EndingRight(C, f, t)
  BY <1>3 DEF EndingRight, TablesRight
<1>9. AskingRight(C, f, e)
  <2>1. ASSUME NEW x \in C, RemovalAsked(x)
        PROVE  /\ \A c \in Cell : f[c].removal = x.id => c = x.slot
               /\ \/ Busy(f, x.slot) /\ f[x.slot].mac = x.mac /\ f[x.slot].removal = x.id
                  \/ ~Busy(f, x.slot) /\ e = TRUE /\ Settling(C)
    <3>1. x \in S /\ x.id # h.id /\ x.id # 0
      BY <1>1, <1>2, <2>1 DEF Marks
    <3>2. x.slot \in Cell
      BY <2>1, <3>1, MacMessage DEF Scene, RemovalAsked
    <3>3. /\ \A c \in Cell : g[c].removal = x.id => c = x.slot
          /\ \/ Busy(g, x.slot) /\ g[x.slot].mac = x.mac /\ g[x.slot].removal = x.id
             \/ ~Busy(g, x.slot) /\ Settling(S \cup {h})
      BY <2>1, <3>1 DEF TablesRight, AskingRight
    <3>4. \A c \in Cell : f[c].removal = x.id => c = x.slot
      BY <3>1, <3>3 DEF FreeInfo
    <3>5. CASE Busy(g, x.slot) /\ g[x.slot].mac = x.mac /\ g[x.slot].removal = x.id
      <4>1. f[x.slot] = g[x.slot]
        BY <3>1, <3>2, <3>5
      <4> QED
        BY <3>4, <3>5, <4>1 DEF Busy
    <3>6. CASE ~Busy(g, x.slot) /\ Settling(S \cup {h})
      <4>1. Settling(C) /\ e = TRUE
        BY <1>1, <2>1, <3>6 DEF Settling, Onward
      <4>2. ~Busy(f, x.slot)
        BY <3>2, <3>6 DEF Busy, FreeInfo
      <4> QED
        BY <3>4, <4>1, <4>2
    <3> QED
      BY <3>3, <3>5, <3>6
  <2> QED
    BY <2>1 DEF AskingRight
<1> QED
  BY <1>5, <1>6, <1>7, <1>8, <1>9 DEF TablesRight

(* The slot selection marks the cell z and asks the MAC to remove it. *)
LEMMA MarkTables ==
  ASSUME NEW h, NEW S, NEW m, NEW ms, NEW C, NEW g, NEW P, NEW k, NEW R,
         Scene(h, S, m, ms, g, P, k, R), NEW t, NEW d, TablesRight(S \cup {h}, g, t, P, d),
         NEW q, NEW e, Onward(S, m, ms, C, P, q, e), h \in Early, Unaccepted(h, P), ~Marks(h),
         NEW z \in Cell, Busy(g, z), g[z].removal = 0,
         NEW f, f[z].state = g[z].state, f[z].mac = g[z].mac, f[z].removal = k,
         \A c \in Cell \ {z} : f[c] = g[c],
         ms = <<m>>, RemovalAsked(m), m.id = k, m.mac = g[z].mac, m.slot = z
  PROVE  TablesRight(C, f, t, q, e)
<1>1. C = S \cup {m} /\ Unaccepted(m, q)
  BY DEF Onward, Sent, Unaccepted, Accepted, RemovalAsked
<1>2. \A x \in S : Unaccepted(x, P) /\ Unaccepted(x, q)
  BY NoAccepted
<1>3. /\ \A x \in S : Marks(x) => x.id # 0 /\ x.id # k
      /\ ~RemovalReported(m)
      /\ \A c \in Cell : g[c].removal # k
  BY DEF Scene, Marks, OldId, Marked, RemovalAsked, RemovalReported
<1>4. \A c \in Cell : Ending(C, f, c) <=> Ending(S \cup {h}, g, c)
  <2>1. ~Ending(C, f, z) /\ ~Ending(S \cup {h}, g, z)
    BY <1>1, <1>3, ReportedIds DEF Ending, Marks
  <2>2. \A c \in Cell \ {z} : Ending(C, f, c) <=> Ending(S \cup {h}, g, c)
    BY <1>1, <1>3 DEF Ending, Marks
  <2> QED
    BY <2>1, <2>2
<1>5. \A c \in Cell : TableFor(f, c) = TableFor(g, c) /\ (Busy(f, c) <=> Busy(g, c))
  BY DEF TableFor, Busy
<1>6. CellsAgree(C, f, t, q)
  <2>1. \A x \in S \cup {h} : Unaccepted(x, P)
    BY <1>2
  <2>2. \A c \in Cell : t[c] = TableFor(g, c) \/ Ending(S \cup {h}, g, c)
    BY <2>1, PlainCell
  <2> QED
    BY <1>4, <1>5, <2>2 DEF CellsAgree
<1>7. AddingRight(C, f, t, q) /\ DroppingRight(C, f, q)
  BY <1>1, <1>2 DEF AddingRight, DroppingRight, Unaccepted
<1>8. EndingRight(C, f, t)
  BY <1>4 DEF EndingRight, TablesRight
<1>9. AskingRight(C, f, e)
  <2>1. ASSUME NEW x \in S, RemovalAsked(x)
        PROVE  /\ \A c \in Cell : f[c].removal = x.id => c = x.slot
               /\ Busy(f, x.slot) /\ f[x.slot].mac = x.mac /\ f[x.slot].removal = x.id
    <3>1. x.slot \in Cell /\ x.id # 0 /\ x.id # k
      BY <1>3, <2>1, MacMessage DEF Scene, RemovalAsked, Marks
    <3>2. /\ \A c \in Cell : g[c].removal = x.id => c = x.slot
          /\ Busy(g, x.slot) /\ g[x.slot].mac = x.mac /\ g[x.slot].removal = x.id
      BY <2>1, NotSettling DEF TablesRight, AskingRight
    <3> QED
      BY <3>1, <3>2, <1>5
  <2>2. /\ \A c \in Cell : f[c].removal = m.id => c = m.slot
        /\ Busy(f, m.slot) /\ f[m.slot].mac = m.mac /\ f[m.slot].removal = m.id
    BY <1>3, <1>5
  <2> QED
    BY <1>1, <2>1, <2>2 DEF AskingRight
<1> QED
  BY <1>6, <1>7, <1>8, <1>9 DEF TablesRight

(* The MAC removes the slot that it was asked to remove. *)
LEMMA RemoveTables ==
  ASSUME NEW h, NEW S, NEW m, NEW ms, NEW C, NEW g, NEW P, NEW k, NEW R,
         Scene(h, S, m, ms, g, P, k, R), NEW t, NEW d, TablesRight(S \cup {h}, g, t, P, d),
         NEW q, NEW e, Onward(S, m, ms, C, P, q, e), RemovalAsked(h),
         NEW u, \A c \in Cell \ {h.slot} : u[c] = t[c],
         u[h.slot] = IF t[h.slot] \in {[use |-> "SEND", mac |-> h.mac],
                                       [use |-> "RECEIVE", mac |-> h.mac]}
                     THEN UnusedSlot ELSE t[h.slot],
         ms = <<m>>, RemovalReported(m), m.id = h.id
  PROVE  TablesRight(C, g, u, q, e)
<1>1. /\ C = S \cup {m} /\ Unaccepted(m, q) /\ Unaccepted(h, P)
      /\ ~RemovalReported(h) /\ ~RemovalAsked(m)
  BY DEF Onward, Sent, Unaccepted, Accepted, RemovalAsked, RemovalReported
<1>2. /\ \A x \in S : Marks(x) => x.id # h.id
      /\ h.id # 0 /\ h.slot \in Cell
      /\ \A c \in Cell : g[c].removal # 0 => Busy(g, c)
  BY MacMessage DEF Scene, Marks, OldId, RemovalAsked, Marked, Busy
<1>3. /\ \A c \in Cell : g[c].removal = h.id => c = h.slot
      /\ \/ Busy(g, h.slot) /\ g[h.slot].mac = h.mac /\ g[h.slot].removal = h.id
         \/ ~Busy(g, h.slot) /\ g[h.slot].removal # h.id
  BY <1>2 DEF TablesRight, AskingRight
<1>4. \A c \in Cell : /\ Ending(S \cup {h}, g, c) => Ending(C, g, c)
                      /\ Ending(C, g, c) => Ending(S \cup {h}, g, c) \/ c = h.slot
  BY <1>1, <1>3 DEF Ending
<1>5. \A c \in Cell : u[c] = t[c] \/ u[c] = UnusedSlot
  BY <1>2
<1>6. \A c \in Cell : Adding(S \cup {h}, P, c) => Busy(g, c) /\ g[c].removal = 0
  BY DEF Adding, AddingRight, TablesRight, Busy, Mode
<1>7. \A c \in Cell : Dropping(S \cup {h}, P, c) => ~Busy(g, c)
  BY DEF Dropping, DroppingRight, TablesRight
<1>8. \A c \in Cell : /\ Adding(S \cup {h}, P, c) => Adding(C, q, c)
                      /\ Dropping(S \cup {h}, P, c) => Dropping(C, q, c)
  BY <1>1 DEF Adding, Dropping, Onward, Unaccepted
<1>9. \A c \in Cell : \/ t[c] = TableFor(g, c) \/ Adding(S \cup {h}, P, c)
                      \/ Dropping(S \cup {h}, P, c) \/ Ending(S \cup {h}, g, c)
  BY DEF TablesRight, CellsAgree
<1>10. CellsAgree(C, g, u, q)
  <2>1. ASSUME NEW c \in Cell \ {h.slot}
        PROVE  u[c] = TableFor(g, c) \/ Adding(C, q, c) \/ Dropping(C, q, c) \/ Ending(C, g, c)
    BY <1>4, <1>8, <1>9
  <2>2. CASE g[h.slot].removal = h.id
    <3>1. Ending(C, g, h.slot)
      BY <1>1, <2>2 DEF Ending
    <3> QED
      BY <1>2, <2>1, <3>1 DEF CellsAgree
  <2>3. CASE g[h.slot].removal # h.id
    <3>1. ~Busy(g, h.slot)
      BY <1>3, <2>3
    <3>2. \/ t[h.slot] = UnusedSlot \/ Dropping(C, q, h.slot) \/ Ending(C, g, h.slot)
      BY <1>2, <1>4, <1>6, <1>8, <1>9, <3>1 DEF TableFor
    <3>3. \/ u[h.slot] = TableFor(g, h.slot)
          \/ Dropping(C, q, h.slot) \/ Ending(C, g, h.slot)
      BY <1>2, <1>5, <3>1, <3>2 DEF TableFor
    <3> QED
      BY <1>2, <2>1, <3>3 DEF CellsAgree
  <2> QED
    BY <2>2, <2>3
<1>11. AddingRight(C, g, u, q)
  BY <1>1, <1>5 DEF AddingRight, TablesRight, Onward, Unaccepted
<1>12. DroppingRight(C, g, q)
  BY <1>1 DEF DroppingRight, TablesRight, Onward, Unaccepted
<1>13. EndingRight(C, g, u)
  <2>1. ASSUME NEW c \in Cell, Ending(S \cup {h}, g, c) PROVE u[c] = UnusedSlot
    BY <1>5, <2>1 DEF EndingRight, TablesRight
  <2>2. ASSUME Ending(C, g, h.slot), ~Ending(S \cup {h}, g, h.slot) PROVE u[h.slot] = UnusedSlot
    <3>1. g[h.slot].removal = h.id
      BY <1>1, <2>2 DEF Ending
    <3>2. Busy(g, h.slot) /\ g[h.slot].mac = h.mac
      BY <1>3, <3>1
    <3>3. t[h.slot] = TableFor(g, h.slot)
      BY <1>2, <1>6, <1>7, <1>9, <2>2, <3>1, <3>2
    <3> QED
      BY <3>2, <3>3 DEF TableFor
  <2> QED
    BY <1>2, <1>4, <2>1, <2>2 DEF EndingRight
<1>14. AskingRight(C, g, e)
  <2>1. \A c \in Cell : SameCell(g, g, c)
    BY DEF SameCell
  <2> QED
    BY <1>1, <2>1, AskingKept DEF TablesRight
<1> QED
  BY <1>10, <1>11, <1>12, <1>13, <1>14 DEF TablesRight

(* The MAC has the answer h for its slot z, and its table follows the grid there. *)
AnswersFor(h, P, z) == \/ Accepted(h, P, "ALLOCATION") /\ P[h.id].slot = z
                       \/ Accepted(h, P, "REMOVAL") /\ P[h.id].slot = z
FollowsIn(g, t, u, z) == u[z] = TableFor(g, z) /\ \A c \in Cell \ {z} : u[c] = t[c]

(* The MAC's table takes, or loses, the slot z that its selection answered for. *)
LEMMA DoneTables ==
  ASSUME NEW h, NEW S, NEW m, NEW ms, NEW C, NEW g, NEW P, NEW k, NEW R,
         Scene(h, S, m, ms, g, P, k, R), NEW t, NEW d, TablesRight(S \cup {h}, g, t, P, d),
         NEW q, NEW e, Onward(S, m, ms, C, P, q, e), ms = <<>>, h \in Answered,
         NEW z \in Cell, NEW u, FollowsIn(g, t, u, z), AnswersFor(h, P, z)
  PROVE  TablesRight(C, g, u, q, e)
<1>1. C = S /\ ~Marks(h) /\ h \in Derived
  BY DEF Onward, Sent, Marks, RemovalAsked, RemovalReported, Answered, Derived
<1>2. \A x \in S : Unaccepted(x, P) /\ Unaccepted(x, q)
  BY <1>1, NoAccepted
<1>3. \A c \in Cell : Ending(C, g, c) <=> Ending(S \cup {h}, g, c)
  BY <1>1 DEF Ending, Marks
<1>4. \A c \in Cell \ {z} : ~Adding(S \cup {h}, P, c) /\ ~Dropping(S \cup {h}, P, c)
  BY <1>2 DEF Adding, Dropping, Unaccepted, AnswersFor
<1>5. CellsAgree(C, g, u, q)
  BY <1>3, <1>4 DEF CellsAgree, TablesRight, FollowsIn
<1>6. AddingRight(C, g, u, q) /\ DroppingRight(C, g, q)
  BY <1>1, <1>2 DEF AddingRight, DroppingRight, Unaccepted
<1>7. ~Ending(C, g, z) \/ ~Busy(g, z)
  <2>1. CASE Accepted(h, P, "ALLOCATION")
    <3>1. g[z].removal = 0
      BY <2>1 DEF TablesRight, AddingRight, Accepted, AnswersFor
    <3> QED
      BY <1>1, <3>1, ReportedIds
  <2>2. CASE Accepted(h, P, "REMOVAL")
    BY <2>2 DEF TablesRight, DroppingRight, Accepted, AnswersFor
  <2> QED
    BY <2>1, <2>2 DEF AnswersFor
<1>8. EndingRight(C, g, u)
  BY <1>3, <1>7 DEF EndingRight, TablesRight, TableFor, FollowsIn
<1>9. AskingRight(C, g, e)
  <2>1. \A c \in Cell : SameCell(g, g, c)
    BY DEF SameCell
  <2> QED
    BY <2>1, AskingKept DEF TablesRight
<1> QED
  BY <1>5, <1>6, <1>8, <1>9 DEF TablesRight

-----------------------------------------------------------------------------
(* The tables of the stations *)

RightAt(n) == TablesRight(Range(bus[n]), grid[n], table[n], procedures[n], draining[n])
TablesInv  == \A n \in Node : RightAt(n)

(* What n handles. *)
SceneOf(n, h, m, ms) ==
  /\ Scene(h, Rest(bus[n]), m, ms, grid[n], procedures[n], nextId[n], removals[n])
  /\ Onward(Rest(bus[n]), m, ms, Range(bus'[n]), procedures[n], procedures'[n], draining'[n])
  /\ Range(bus[n]) = Rest(bus[n]) \cup {h}
  /\ ms = <<m>> => ZeroKept(procedures'[n])

LEMMA AcceptedAnswers ==
  ASSUME NEW b, Range(b) \subseteq Message, NEW p, ZeroKept(p), NEW x \in Range(b),
         NEW set \in {"ALLOCATION", "REMOVAL"}, Accepted(x, p, set)
  PROVE  x \in Answered
<1>1. x.id # 0
  BY DEF Accepted, ZeroKept
<1> QED
  BY <1>1 DEF Answered, Accepted

LEMMA HandledScene ==
  ASSUME ProtocolInv, ProtocolInv', InstantInv, NEW n \in Node, Drained(n),
         NEW h, NEW m, NEW ms, Handles(n, h, m, ms)
  PROVE  SceneOf(n, h, m, ms)
<1>1. /\ bus[n] # <<>> /\ h = Head(bus[n]) /\ ms \in {<<>>, <<m>>}
      /\ bus'[n] = Tail(bus[n]) \o ms /\ (ms = <<m>> => Causes(h, m))
      /\ RestKept(bus[n], procedures[n], procedures'[n])
  BY DEF Handles, KeepsAccount
<1>2. /\ IsSeq(bus[n]) /\ bus[n] \in Seq(Message) /\ h \in Message
      /\ Range(bus[n]) \subseteq Message
  BY <1>1, ProtocolStation, MessageSeq
<1>3. IsSeq(bus'[n]) /\ Range(bus'[n]) \subseteq Message
  <2>1. bus'[n] \in Seq(Message)
    BY StationAssumption DEF ProtocolInv, IInv, TypeOK, Message
  <2> QED
    BY <2>1, MessageSeq
<1>4. HeadHandled(bus[n], h, m, ms, bus'[n])
  BY <1>1, <1>2, HeadRest, Zenon
<1>5. Range(bus[n]) = {h} \cup Rest(bus[n]) /\ Range(bus'[n]) = Rest(bus[n]) \cup Sent(m, ms)
  BY <1>4 DEF HeadHandled
<1>6. InOrder(bus[n]) /\ Accounted(bus[n], procedures[n], nextId[n], removals[n])
  BY DEF InstantInv
<1>7. h \in Derived => Rest(bus[n]) \cap Derived = {}
  BY <1>1, <1>2, <1>6, OnceHead DEF InOrder
<1>8. h \in Started => Rest(bus[n]) \cap Early = {}
  BY <1>1, <1>2, <1>5, <1>6, OrderedHead DEF InOrder
<1>9. Rest(bus[n]) \cap Answered # {} => h \notin Early
  BY <1>5, <1>6 DEF InOrder
<1>10. Marks(h) => \A x \in Rest(bus[n]) : Marks(x) => x.id # h.id
  <2>1. h \in Marking(h.id) => Rest(bus[n]) \cap Marking(h.id) = {}
    BY <1>1, <1>2, <1>6, OnceHead DEF InOrder
  <2> QED
    BY <1>2, <1>5, <2>1 DEF Marking, Marks
<1>11. Marked(grid[n], removals[n])
  BY ProtocolGrid
<1>12. /\ nextId[n] \in Nat \ {0} /\ \A id \in removals[n] : id < nextId[n]
       /\ \A x \in Range(bus[n]) : OldId(x, nextId[n])
       /\ ZeroKept(procedures[n])
  BY <1>6 DEF Accounted
<1>13. \A x \in Range(bus[n]) : \A set \in {"ALLOCATION", "REMOVAL"} :
         Accepted(x, procedures[n], set) => x \in Answered
  BY <1>2, <1>12, AcceptedAnswers
<1>14. Scene(h, Rest(bus[n]), m, ms, grid[n], procedures[n], nextId[n], removals[n])
  <2>1. ms = <<m>> => m \in Message
    BY <1>3, <1>5 DEF Sent
  <2> QED
    BY <1>1, <1>2, <1>5, <1>7, <1>8, <1>9, <1>10, <1>11, <1>12, <1>13, <2>1
       DEF Scene, HandlesAll
<1>15. \A x \in Rest(bus[n]) : Awaited(x) =>
         /\ procedures'[n][x.id] = procedures[n][x.id]
         /\ x.id \in DOMAIN procedures[n] /\ x.id \in DOMAIN procedures'[n]
  <2>1. AwaitedKnown(bus[n], procedures[n]) /\ AwaitedKnown(bus'[n], procedures'[n])
    BY DEF ProtocolInv, ProcedureInv, BusSound
  <2>2. \A x \in Range(bus[n]) : Awaited(x) => x.id \in DOMAIN procedures[n]
    BY <2>1 DEF AwaitedKnown, Range
  <2>3. \A x \in Range(bus'[n]) : Awaited(x) => x.id \in DOMAIN procedures'[n]
    BY <2>1 DEF AwaitedKnown, Range
  <2> QED
    BY <1>1, <1>5, <2>2, <2>3 DEF RestKept, Rest
<1>16. draining'[n] = TRUE \/ Range(bus'[n]) = {}
  <2>1. draining'[n] = (bus'[n] # <<>>)
    BY DEF Drained, ProtocolInv, ProcedureInv
  <2>2. ASSUME bus'[n] = <<>> PROVE Range(bus'[n]) = {}
    <3>1. DOMAIN <<>> = {}
      OBVIOUS
    <3> QED
      BY <2>2, <3>1 DEF Range
  <2>3. ASSUME bus'[n] # <<>> PROVE draining'[n] = TRUE
    BY <2>1, <2>3
  <2> QED
    BY <2>2, <2>3
<1>17. Onward(Rest(bus[n]), m, ms, Range(bus'[n]), procedures[n], procedures'[n], draining'[n])
  BY <1>5, <1>15, <1>16 DEF Onward, Accepted, Awaited
<1>18. ZeroKept(procedures'[n])
  BY <1>12 DEF Handles, KeepsAccount
<1> QED
  BY <1>5, <1>14, <1>17, <1>18 DEF SceneOf

LEMMA WiderSeq ==
  ASSUME NEW S, NEW T, S \subseteq T, NEW b \in Seq(S) PROVE b \in Seq(T)
<1>1. b \in [1 .. Len(b) -> S] /\ Len(b) \in Nat
  OBVIOUS
<1>2. b \in [1 .. Len(b) -> T]
  BY <1>1
<1> QED
  BY <1>1, <1>2

(* The message that a handler sends is the one it is known to send. *)
LEMMA SameSent ==
  ASSUME NEW b, IsSeq(b), b # <<>>, NEW m, NEW ms \in {<<>>, <<m>>}, NEW o,
         Tail(b) \o ms = Tail(b) \o <<o>>
  PROVE  ms = <<m>> /\ m = o
<1>1. PICK S : b \in Seq(S)
  BY DEF IsSeq
<1>2. PICK T : T = S \cup {m, o}
  OBVIOUS
<1>3. Tail(b) \in Seq(T) /\ Len(Tail(b)) \in Nat
  <2>3. b \in Seq(T)
    BY <1>1, <1>2, WiderSeq
  <2>4. Tail(b) \in Seq(T)
    BY <2>3, HeadTail, Zenon
  <2>5. \A c \in Seq(T) : Len(c) \in Nat
    OBVIOUS
  <2> QED
    BY <2>4, <2>5, Zenon
<1>4. <<o>> \in Seq(T) /\ <<m>> \in Seq(T) /\ <<>> \in Seq(T)
  BY <1>2
<1>5. /\ Len(Tail(b) \o <<o>>) = Len(Tail(b)) + 1
      /\ (Tail(b) \o <<o>>)[Len(Tail(b)) + 1] = o
  BY <1>3, <1>4
<1>6. /\ Len(Tail(b) \o <<>>) = Len(Tail(b))
      /\ Len(Tail(b) \o <<m>>) = Len(Tail(b)) + 1
      /\ (Tail(b) \o <<m>>)[Len(Tail(b)) + 1] = m
  BY <1>3, <1>4
<1>7. ms # <<>>
  BY <1>3, <1>5, <1>6
<1> QED
  BY <1>5, <1>6, <1>7

DrainFrom(n, h, m, ms) ==
  ProtocolInv /\ Handles(n, h, m, ms) /\ SceneOf(n, h, m, ms) /\ RightAt(n)

(* Handlers that touch no cell in use and no table, by what they handle. *)
QuietHead(h) ==
  \/ h.to = "AI" /\ h.type \in {"SET_BC_SLOTS", "GET_PROPOSED", "GET_SELECTED",
                                "SET_EXTERNAL_USED", "SET_EXTERNAL_FREE"}
  \/ h.to = "MAC" /\ h.type \in {"RECEIVE", "GETR_PROPOSED", "GETR_SELECTED"}

LEMMA PlainDrain ==
  ASSUME NEW n \in Node, NEW h, NEW m, NEW ms, DrainFrom(n, h, m, ms),
         table'[n] = table[n], \A c \in Cell : SameCell(grid[n], grid'[n], c),
         ~Marks(h), Unaccepted(h, procedures[n]),
         ms = <<m>> => ~Marks(m) /\ Unaccepted(m, procedures'[n])
  PROVE  RightAt(n)'
<1>1. PICK S, C, g, f, t, P, q, k, R, d, e :
        /\ S = Rest(bus[n]) /\ C = Range(bus'[n]) /\ g = grid[n] /\ f = grid'[n]
        /\ t = table[n] /\ P = procedures[n] /\ q = procedures'[n]
        /\ k = nextId[n] /\ R = removals[n] /\ d = draining[n] /\ e = draining'[n]
  OBVIOUS
<1>2. /\ Scene(h, S, m, ms, g, P, k, R) /\ Onward(S, m, ms, C, P, q, e)
      /\ TablesRight(S \cup {h}, g, t, P, d)
  BY <1>1 DEF DrainFrom, SceneOf, RightAt
<1>3. TablesRight(C, f, t, q, e)
  BY <1>1, <1>2, PlainTables
<1> QED
  BY <1>1, <1>3 DEF RightAt

LEMMA QuietDrain ==
  ASSUME NEW n \in Node, NEW h, NEW m, NEW ms, DrainFrom(n, h, m, ms), QuietHead(h),
         table'[n] = table[n], \A c \in Cell : SameCell(grid[n], grid'[n], c)
  PROVE  RightAt(n)'
<1>1. h \in Message /\ (ms = <<m>> => Causes(h, m) /\ ZeroKept(procedures'[n]))
  BY DEF DrainFrom, SceneOf, Scene, HandlesAll
<1>2. h.type = "SET_BC_SLOTS" /\ h.to = "AI" => h.id = 0
  BY <1>1, RadioMessageAssumption
     DEF Message, ToAI, ToMac, MacRequest, GetProposed, GetSelected, SetAllocation,
         SetRemoval, SetExternalUsed, SetExternalFree, RemovalDone, Stats, SetBcSlots
<1>3. ~Marks(h) /\ Unaccepted(h, procedures[n])
  BY DEF QuietHead, Marks, RemovalAsked, RemovalReported, Unaccepted, Accepted
<1>4. ASSUME ms = <<m>> PROVE ~Marks(m) /\ Unaccepted(m, procedures'[n])
  <2>1. \/ m.to = "MAC" /\ m.type = "SETR" /\ m.id = 0
        \/ m.to = "MAC" /\ m.type \in {"GETR_PROPOSED", "GETR_SELECTED"}
        \/ m.to = "AI" /\ m.type # "SETR"
    BY <1>1, <1>2, <1>4 DEF Causes, QuietHead, RemovalAsked
  <2>2. CASE m.to = "MAC" /\ m.type = "SETR" /\ m.id = 0
    <3>1. 0 \in DOMAIN procedures'[n] => procedures'[n][0].set = "BC_SLOTS"
      BY <1>1, <1>4 DEF ZeroKept
    <3> QED
      BY <2>2, <3>1 DEF Marks, RemovalAsked, RemovalReported, Unaccepted, Accepted
  <2>3. CASE ~(m.to = "MAC" /\ m.type = "SETR")
    BY <2>1, <2>3 DEF Marks, RemovalAsked, RemovalReported, Unaccepted, Accepted
  <2> QED
    BY <2>1, <2>2, <2>3
<1> QED
  BY <1>3, <1>4, PlainDrain

(* A station's handler of a message that it is known to send. *)
LEMMA DrainSends ==
  ASSUME NEW n \in Node, NEW h, NEW m, NEW ms, DrainFrom(n, h, m, ms), NEW o, Answers(n, <<o>>)
  PROVE  ms = <<m>> /\ m = o
<1>1. /\ IsSeq(bus[n]) /\ bus[n] # <<>> /\ ms \in {<<>>, <<m>>}
      /\ bus'[n] = Tail(bus[n]) \o ms
  BY ProtocolStation DEF DrainFrom, Handles
<1>2. bus'[n] = Tail(bus[n]) \o <<o>>
  BY ProtocolDomains DEF Answers, DrainFrom, Domains
<1> QED
  BY <1>1, <1>2, SameSent

(* The grid of n after one of the quiet handlers of the slot selection. *)
LEMMA QuietGrids ==
  ASSUME ProtocolInv, NEW n \in Node, NEW h, h = Head(bus[n]),
         \/ AllocateReservedSlots(n) \/ IgnoreRequest(n) \/ ProposeSlots(n) \/ SelectSlot(n)
         \/ ExternalSlotsAllocated(n) \/ ExternalSlotRemoved(n)
  PROVE  QuietHead(h) /\ \A c \in Cell : SameCell(grid[n], grid'[n], c)
<1>1. /\ DOMAIN grid = Node /\ grid[n] \in Grid /\ Marked(grid[n], removals[n])
      /\ bus[n] # <<>> => (Head(bus[n]).type = "SET_BC_SLOTS" => grid[n] = EmptyGrid)
  BY ProtocolGrid
<1>2. CASE AllocateReservedSlots(n)
  <2>1. grid'[n] = SetSlotsReserved(grid[n], Reserved) /\ QuietHead(h)
        /\ grid[n] = EmptyGrid
    BY <1>1, <1>2 DEF AllocateReservedSlots, Addressed, QuietHead
  <2>2. \A c \in Cell : /\ grid[n][c] = FreeInfo
                        /\ \/ grid'[n][c] = FreeInfo
                           \/ grid'[n][c] = [state |-> "RESERVED", mac |-> NoMac, removal |-> 0]
    BY <2>1 DEF SetSlotsReserved, EmptyGrid
  <2> QED
    BY <2>1, <2>2 DEF SameCell, Busy, FreeInfo
<1>3. CASE IgnoreRequest(n) \/ ExternalSlotsAllocated(n) \/ ExternalSlotRemoved(n)
  <2>1. grid' = grid /\ QuietHead(h)
    BY <1>3 DEF IgnoreRequest, ExternalSlotsAllocated, ExternalSlotRemoved, Addressed,
                QuietHead, gridVars
  <2> QED
    BY <2>1 DEF SameCell
<1>4. CASE ProposeSlots(n)
  <2>1. PICK choice \in TxChoices(n) :
          LET accepted == {c \in choice :
                             IsSetPendingAllowed(grid[n], c, "PROPOSED_TX", h.mac)}
          IN  grid' = [grid EXCEPT ![n] = [c \in Cell |->
                         IF c \in accepted
                         THEN [state |-> "PROPOSED_TX", mac |-> h.mac, removal |-> 0]
                         ELSE @[c]]]
    BY <1>4 DEF ProposeSlots
  <2>2. PICK accepted : accepted = {c \in choice :
                          IsSetPendingAllowed(grid[n], c, "PROPOSED_TX", h.mac)}
    OBVIOUS
  <2>3. \A c \in accepted : grid[n][c].state = "FREE"
    BY <2>2 DEF IsSetPendingAllowed, IsSlotFree
  <2>4. \A c \in Cell : grid'[n][c] = IF c \in accepted
                          THEN [state |-> "PROPOSED_TX", mac |-> h.mac, removal |-> 0]
                          ELSE grid[n][c]
    BY <1>1, <2>1, <2>2
  <2>5. \A c \in Cell : grid[n][c].state = "FREE" => grid[n][c].removal = 0
    BY <1>1 DEF Marked
  <2>6. QuietHead(h)
    BY <1>4 DEF ProposeSlots, Addressed, QuietHead
  <2> QED
    BY <2>3, <2>4, <2>5, <2>6 DEF SameCell, Busy
<1>5. CASE SelectSlot(n)
  <2>1. QuietHead(h)
    BY <1>5 DEF SelectSlot, Addressed, QuietHead
  <2>2. PICK z : grid' = [grid EXCEPT ![n] =
                   IF z # NoSlot /\ IsSetPendingAllowed(grid[n], z, "PROPOSED_RX", h.mac)
                   THEN SetSlotPending(@, z, "PROPOSED_RX", h.mac) ELSE @]
    BY <1>5 DEF SelectSlot
  <2>3. grid'[n] = IF z # NoSlot /\ IsSetPendingAllowed(grid[n], z, "PROPOSED_RX", h.mac)
                   THEN SetSlotPending(grid[n], z, "PROPOSED_RX", h.mac) ELSE grid[n]
    BY <1>1, <2>2
  <2>4. \/ grid'[n] = grid[n]
          \/ /\ grid[n][z].state = "FREE"
             /\ grid'[n] = [grid[n] EXCEPT ![z] =
                              [state |-> "PROPOSED_RX", mac |-> h.mac, removal |-> 0]]
      BY <2>3 DEF SetSlotPending, IsSetPendingAllowed, IsSlotAvailableRX, IsSlotFree
  <2>5. \A c \in Cell : grid[n][c].state = "FREE" => grid[n][c].removal = 0
      BY <1>1 DEF Marked
  <2>6. \A c \in Cell : \/ grid'[n][c] = grid[n][c]
                          \/ /\ grid[n][c].state = "FREE"
                             /\ grid'[n][c] =
                                  [state |-> "PROPOSED_RX", mac |-> h.mac, removal |-> 0]
      BY <1>1, <2>4 DEF Grid
  <2> QED
    BY <2>1, <2>5, <2>6 DEF SameCell, Busy
<1> QED
  BY <1>2, <1>3, <1>4, <1>5

LEMMA HeadVowed ==
  ASSUME ProtocolInv, InstantInv, NEW n \in Node, bus[n] # <<>>, NEW h, h = Head(bus[n])
  PROVE  /\ h \in Message /\ h \in Range(bus[n]) /\ Vowed(procedures[n], h)
         /\ Awaited(h) => h.id \in DOMAIN procedures[n]
<1>1. IsSeq(bus[n]) /\ h \in Message
  BY ProtocolStation
<1>2. 1 \in DOMAIN bus[n] /\ bus[n][1] = h
  BY <1>1 DEF IsSeq
<1>3. h \in Range(bus[n])
  BY <1>2 DEF Range
<1>4. Vowed(procedures[n], h)
  BY <1>3 DEF InstantInv, Accounted
<1>5. Awaited(h) => h.id \in DOMAIN procedures[n]
  BY <1>2 DEF ProtocolInv, ProcedureInv, BusSound, AwaitedKnown
<1> QED
  BY <1>1, <1>3, <1>4, <1>5

(* The grid of n after an allocation: the slot z is taken, and it was not in use. *)
Taken(n, h, g, f) ==
  /\ h.slot \in Cell /\ ~Busy(g, h.slot) /\ g[h.slot].removal = 0
  /\ f[h.slot] = [state |-> h.mode, mac |-> h.mac, removal |-> 0] /\ h.mode \in Mode
  /\ \A c \in Cell \ {h.slot} : SameCell(g, f, c)

LEMMA AllocationTakes ==
  ASSUME ProtocolInv, InstantInv, ConfirmedInv, ExchangeInv, NEW n \in Node, AllocateSlot(n),
         NEW h, h = Head(bus[n])
  PROVE  Taken(n, h, grid[n], grid'[n])
<1>1. PICK g : g = IF AlreadyAllocated(n, h) THEN grid[n]
                   ELSE SetSlotAllocated(grid[n], h.slot, h.mode, h.mac)
  OBVIOUS
<1>2. /\ bus[n] # <<>> /\ h.to = "AI" /\ h.type = "SET_ALLOCATION"
      /\ h.mac \in Node /\ h.mode \in Mode /\ h.slot \in Cell
      /\ SelectedCells(grid[n]) = SelectionOf(h)
  BY AllocationFinds DEF AllocateSlot
<1>3. /\ grid[n] \in Grid /\ Marked(grid[n], removals[n]) /\ DOMAIN grid = Node
      /\ h \in Range(bus[n])
  BY <1>2, ProtocolGrid, HeadVowed
<1>4. /\ \/ h.mode = "TX" /\ grid'[n] = AbortTXProposals(g, {h.mac})
         \/ h.mode = "RX" /\ grid'[n] = g
      /\ AlreadyAllocated(n, h) \/ NewlyAllocated(n, h)
  BY <1>1, <1>3 DEF AllocateSlot
<1>5. ~AlreadyAllocated(n, h)
  <2>1. CASE h.mode = "RX"
    <3>1. Confirms(h)
      BY <1>2, <2>1 DEF Confirms
    <3>2. <<h.mac, h.slot>> \in SelectedCells(grid[n])
      BY <1>2, <3>1 DEF SelectionOf
    <3>3. grid[n][h.slot].state = "PROPOSED_RX"
      BY <3>2 DEF SelectedCells
    <3> QED
      BY <3>3 DEF AlreadyAllocated, IsSlotAllocatedFor, IsSlotAllocated
  <2>2. CASE h.mode = "TX"
    <3>1. Bears(h, 6, h.mac) /\ Told(h) = {h.slot}
      BY <1>2, <2>2 DEF Bears, Told
    <3>2. Told(h) \in Underway(6, n, h.mac)
      BY <1>3, <3>1 DEF Underway, Asking, Has, BusHas
    <3>3. 6 \in Stage /\ Untold(n, h.mac)
      BY <1>2 DEF ExchangeInv, Stage
    <3>4. ~TxCell(grid[n], h.slot, h.mac)
      BY <1>2, <3>1, <3>2, <3>3 DEF Untold
    <3> QED
      BY <2>2, <3>4 DEF AlreadyAllocated, IsSlotAllocatedFor, TxCell
  <2> QED
    BY <1>2, <2>1, <2>2 DEF Mode
<1>6. IsSetAllocatedAllowed(grid[n], h.slot, h.mode, h.mac)
  BY <1>4, <1>5 DEF NewlyAllocated
<1>7. ~Busy(grid[n], h.slot) /\ grid[n][h.slot].removal = 0
  <2>1. grid[n][h.slot].state \in {"PROPOSED_TX", "PROPOSED_RX"}
    BY <1>6 DEF IsSetAllocatedAllowed
  <2> QED
    BY <1>2, <1>3, <2>1 DEF Busy, Marked
<1>8. /\ g \in Grid /\ \A c \in Cell : c # h.slot => g[c] = grid[n][c]
      /\ g[h.slot] = [state |-> h.mode, mac |-> h.mac, removal |-> 0]
  <2>1. g = SetSlotAllocated(grid[n], h.slot, h.mode, h.mac)
    BY <1>1, <1>5
  <2> QED
    BY <1>2, <1>3, <1>6, <2>1, AllocatedShape
<1>9. \A c \in Cell : \/ grid'[n][c] = g[c]
                      \/ g[c].state = "PROPOSED_TX" /\ grid'[n][c] = FreeInfo
  <2>1. CASE h.mode = "RX"
    BY <1>4, <2>1
  <2>2. CASE h.mode = "TX"
    <3>1. {h.mac} \in SUBSET Node /\ grid'[n] = AbortTXProposals(g, {h.mac})
      BY <1>2, <1>4, <2>2
    <3> QED
      BY <1>8, <3>1, AbortTXShape
  <2> QED
    BY <1>2, <2>1, <2>2 DEF Mode
<1>10. grid'[n][h.slot] = [state |-> h.mode, mac |-> h.mac, removal |-> 0]
  BY <1>2, <1>8, <1>9 DEF Mode
<1>11. ASSUME NEW c \in Cell \ {h.slot} PROVE SameCell(grid[n], grid'[n], c)
  <2>1. CASE grid'[n][c] = grid[n][c]
    BY <2>1 DEF SameCell
  <2>2. CASE grid[n][c].state = "PROPOSED_TX" /\ grid'[n][c] = FreeInfo
    <3>1. grid[n][c].removal = 0
      BY <1>3, <2>2 DEF Marked
    <3> QED
      BY <2>2, <3>1 DEF SameCell, Busy, FreeInfo
  <2> QED
    BY <1>8, <1>9, <2>1, <2>2
<1> QED
  BY <1>2, <1>7, <1>10, <1>11 DEF Taken

LEMMA AllocateRight ==
  ASSUME InstantInv, ConfirmedInv, ExchangeInv, NEW n \in Node, AllocateSlot(n),
         UNCHANGED <<macVars, radioVars>>,
         NEW h, NEW m, NEW ms, DrainFrom(n, h, m, ms)
  PROVE  RightAt(n)'
<1>1. PICK S, C, g, f, t, P, k, R, d, e :
        /\ S = Rest(bus[n]) /\ C = Range(bus'[n]) /\ g = grid[n] /\ f = grid'[n]
        /\ t = table[n] /\ P = procedures[n]
        /\ k = nextId[n] /\ R = removals[n] /\ d = draining[n] /\ e = draining'[n]
  OBVIOUS
<1>2. /\ Scene(h, S, m, ms, g, P, k, R) /\ Onward(S, m, ms, C, P, P, e)
      /\ TablesRight(S \cup {h}, g, t, P, d)
  BY <1>1 DEF DrainFrom, SceneOf, RightAt, macVars
<1>3. /\ ProtocolInv /\ h = Head(bus[n]) /\ h.to = "AI" /\ h.type = "SET_ALLOCATION"
      /\ bus[n] # <<>> /\ Answers(n, <<SetR(h.id, TRUE)>>)
  BY DEF DrainFrom, Handles, AllocateSlot, Addressed
<1>4. ms = <<m>> /\ m = SetR(h.id, TRUE)
  BY <1>3, DrainSends
<1>5. /\ h \in Message /\ h.id \in DOMAIN P
      /\ P[h.id] = [set |-> "ALLOCATION", mode |-> h.mode, mac |-> h.mac, slot |-> h.slot]
  BY <1>1, <1>3, HeadVowed DEF Vowed, Awaited
<1>6. Taken(n, h, g, f)
  BY <1>1, <1>3, AllocationTakes
<1>7. h \in Derived /\ h \notin Answered /\ ~Marks(h) /\ Unaccepted(h, P)
  BY <1>3, <1>5 DEF Derived, Answered, Marks, RemovalAsked, RemovalReported, Unaccepted, Accepted
<1>8. /\ Accepted(m, P, "ALLOCATION") /\ P[m.id].slot = h.slot
      /\ P[m.id].mode = f[h.slot].state /\ P[m.id].mac = f[h.slot].mac
  BY <1>4, <1>5, <1>6 DEF Accepted, SetR, Taken
<1>9. PICK z : z = h.slot
  OBVIOUS
<1>10. /\ z \in Cell /\ ~Busy(g, z) /\ g[z].removal = 0
       /\ f[z].state \in Mode /\ f[z].removal = 0
       /\ \A c \in Cell \ {z} : SameCell(g, f, c)
  BY <1>6, <1>9 DEF Taken
<1>11. TablesRight(C, f, t, P, e)
  BY <1>2, <1>4, <1>7, <1>8, <1>9, <1>10, AllocTables
<1> QED
  BY <1>1, <1>11 DEF RightAt, macVars

LEMMA RefuseRight ==
  ASSUME InstantInv, NEW n \in Node, RefuseAllocation(n), UNCHANGED <<macVars, radioVars>>,
         NEW h, NEW m, NEW ms, DrainFrom(n, h, m, ms)
  PROVE  RightAt(n)'
<1>1. /\ ProtocolInv /\ h = Head(bus[n]) /\ h.to = "AI" /\ h.type = "SET_ALLOCATION"
      /\ bus[n] # <<>> /\ Answers(n, <<SetR(h.id, FALSE)>>)
      /\ table' = table /\ grid' = grid
  BY DEF DrainFrom, Handles, RefuseAllocation, Addressed, macVars, gridVars
<1>2. m = SetR(h.id, FALSE)
  BY <1>1, DrainSends
<1>3. /\ ~Marks(h) /\ Unaccepted(h, procedures[n])
      /\ ~Marks(m) /\ Unaccepted(m, procedures'[n])
  BY <1>1, <1>2 DEF Marks, RemovalAsked, RemovalReported, Unaccepted, Accepted, SetR
<1>4. \A c \in Cell : SameCell(grid[n], grid'[n], c)
  BY <1>1 DEF SameCell
<1> QED
  BY <1>1, <1>3, <1>4, PlainDrain

LEMMA RemoveRight ==
  ASSUME InstantInv, NEW n \in Node, RemoveSlot(n), UNCHANGED <<macVars, radioVars>>,
         NEW h, NEW m, NEW ms, DrainFrom(n, h, m, ms)
  PROVE  RightAt(n)'
<1>1. PICK ok : ok = IsSlotAllocatedFor(grid[n], h.slot, h.mac)
  OBVIOUS
<1>2. /\ ProtocolInv /\ h = Head(bus[n]) /\ h.to = "AI" /\ h.type = "SET_REMOVAL"
      /\ bus[n] # <<>> /\ Answers(n, <<SetR(h.id, ok)>>)
      /\ grid' = [grid EXCEPT ![n] = IF ok THEN FreeSlots(@, {h.slot}) ELSE @]
      /\ table' = table /\ procedures' = procedures
  BY <1>1 DEF DrainFrom, Handles, RemoveSlot, Addressed, macVars
<1>3. ms = <<m>> /\ m = SetR(h.id, ok)
  BY <1>2, DrainSends
<1>4. /\ DOMAIN grid = Node
      /\ h \in Message /\ h.id \in DOMAIN procedures[n]
      /\ procedures[n][h.id] = [set |-> "REMOVAL", mac |-> h.mac, slot |-> h.slot]
  BY <1>2, HeadVowed, ProtocolGrid DEF Vowed, Awaited
<1>5. /\ h \in Derived /\ h \in Started /\ ~Marks(h) /\ Unaccepted(h, procedures[n])
      /\ ~Marks(m)
  BY <1>2, <1>3, <1>4 DEF Derived, Started, Marks, RemovalAsked, RemovalReported, Unaccepted,
                          Accepted, SetR
<1>6. CASE ~ok
  <2>1. grid'[n] = grid[n] /\ Unaccepted(m, procedures'[n])
    BY <1>2, <1>3, <1>4, <1>6 DEF SetR, Unaccepted, Accepted
  <2>2. \A c \in Cell : SameCell(grid[n], grid'[n], c)
    BY <2>1 DEF SameCell
  <2> QED
    BY <1>2, <1>5, <2>1, <2>2, PlainDrain
<1>7. CASE ok
  <2>1. PICK S, C, g, f, t, P, k, R, d, e, z :
          /\ S = Rest(bus[n]) /\ C = Range(bus'[n]) /\ g = grid[n] /\ f = grid'[n]
          /\ t = table[n] /\ P = procedures[n]
          /\ k = nextId[n] /\ R = removals[n] /\ d = draining[n] /\ e = draining'[n]
          /\ z = h.slot
    OBVIOUS
  <2>2. /\ Scene(h, S, m, ms, g, P, k, R) /\ Onward(S, m, ms, C, P, P, e)
        /\ TablesRight(S \cup {h}, g, t, P, d)
    BY <1>2, <2>1 DEF DrainFrom, SceneOf, RightAt
  <2>3. z \in Cell
    <3>1. procedures[n][h.id] \in Procedure
      BY <1>4 DEF ProtocolInv, ProceduresTyped, DrainFrom
    <3> QED
      BY <1>4, <2>1, <3>1 DEF Procedure, Announcements, Allocations, Removals
  <2>4. f = FreeSlots(g, {z})
    BY <1>2, <1>4, <1>7, <2>1
  <2>5. /\ ~Busy(f, z) /\ f[z].removal = 0
        /\ \A c \in Cell \ {z} : SameCell(g, f, c)
    BY <2>3, <2>4 DEF FreeSlots, FreeInfo, Busy, SameCell
  <2>6. Accepted(m, P, "REMOVAL") /\ P[m.id].slot = z
    BY <1>3, <1>4, <1>7, <2>1 DEF SetR, Accepted
  <2>7. TablesRight(C, f, t, P, e)
    BY <1>3, <1>5, <2>1, <2>2, <2>3, <2>5, <2>6, FreeTables
  <2> QED
    BY <1>2, <2>1, <2>7 DEF RightAt
<1> QED
  BY <1>1, <1>6, <1>7

LEMMA DrainSilent ==
  ASSUME NEW n \in Node, NEW h, NEW m, NEW ms, DrainFrom(n, h, m, ms), Answers(n, <<>>)
  PROVE  ms = <<>>
<1>1. /\ IsSeq(bus[n]) /\ bus[n] # <<>> /\ ms \in {<<>>, <<m>>}
      /\ bus'[n] = Tail(bus[n]) \o ms
  BY ProtocolStation DEF DrainFrom, Handles
<1>2. bus'[n] = Tail(bus[n]) \o <<>>
  BY ProtocolDomains DEF Answers, DrainFrom, Domains
<1>3. PICK os : os = <<>>
  OBVIOUS
<1>4. ASSUME ms = <<m>> PROVE os = <<0>> /\ 0 = m
  <2>1. os \in {<<>>, <<0>>} /\ Tail(bus[n]) \o os = Tail(bus[n]) \o <<m>>
    BY <1>1, <1>2, <1>3, <1>4
  <2> QED
    BY <1>1, <2>1, SameSent
<1>5. <<0>> # <<>>
  OBVIOUS
<1> QED
  BY <1>1, <1>3, <1>4, <1>5

LEMMA ResponseRight ==
  ASSUME InstantInv, NEW n \in Node, ProcessSetResponse(n), UNCHANGED <<macVars, radioVars>>,
         NEW h, NEW m, NEW ms, DrainFrom(n, h, m, ms)
  PROVE  RightAt(n)'
<1>1. PICK S, C, g, f, t, P, k, R, d, e :
        /\ S = Rest(bus[n]) /\ C = Range(bus'[n]) /\ g = grid[n] /\ f = grid'[n]
        /\ t = table[n] /\ P = procedures[n]
        /\ k = nextId[n] /\ R = removals[n] /\ d = draining[n] /\ e = draining'[n]
  OBVIOUS
<1>2. /\ Scene(h, S, m, ms, g, P, k, R) /\ Onward(S, m, ms, C, P, P, e)
      /\ TablesRight(S \cup {h}, g, t, P, d)
  BY <1>1 DEF DrainFrom, SceneOf, RightAt, macVars
<1>3. /\ ProtocolInv /\ h = Head(bus[n]) /\ h.to = "AI" /\ h.type = "SETR"
      /\ bus[n] # <<>> /\ Answers(n, <<>>)
      /\ grid' = [grid EXCEPT ![n] = IF h.id \in removals[n] /\ h.result = "OK"
                                     THEN ExecutePendingRemoval(@, h.id) ELSE @]
  BY DEF DrainFrom, Handles, ProcessSetResponse, Addressed
<1>4. ms = <<>> /\ RemovalReported(h)
  BY <1>3, DrainSilent DEF RemovalReported
<1>5. DOMAIN grid = Node /\ g \in Grid /\ Marked(g, R) /\ h.id # 0 /\ h.result = "OK"
  <2>1. h \in Message /\ h.id # 0
    BY <1>2, <1>4 DEF Scene, OldId
  <2>2. h.result = "OK"
    BY <1>3, <2>1, RadioMessageAssumption
       DEF Message, ToAI, ToMac, MacRequest, GetProposed, GetSelected, SetAllocation,
           SetRemoval, SetExternalUsed, SetExternalFree, RemovalDone, Stats, SetBcSlots
  <2> QED
    BY <1>1, <1>3, <2>1, <2>2, ProtocolGrid
<1>6. \A c \in Cell : IF g[c].removal = h.id THEN f[c] = FreeInfo ELSE f[c] = g[c]
  <2>1. CASE h.id \in R
    <3>1. f = FreeSlots(g, RemovalCells(g, h.id))
      <4>1. First(RemovalCells(g, h.id)) = RemovalCells(g, h.id)
        BY <1>5, FirstRemoval
      <4>2. f = ExecutePendingRemoval(g, h.id)
        BY <1>1, <1>3, <1>5, <2>1
      <4> QED
        BY <4>1, <4>2 DEF ExecutePendingRemoval
    <3> QED
      BY <3>1 DEF FreeSlots, RemovalCells
  <2>2. CASE h.id \notin R
    <3>1. f = g
      BY <1>1, <1>3, <1>5, <2>2
    <3>2. \A c \in Cell : g[c].removal # h.id
      BY <1>5, <2>2 DEF Marked
    <3> QED
      BY <3>1, <3>2
  <2> QED
    BY <2>1, <2>2
<1>7. TablesRight(C, f, t, P, e)
  BY <1>2, <1>4, <1>6, EndTables
<1> QED
  BY <1>1, <1>7 DEF RightAt, macVars

(* A cell that is due is in use and unmarked, and it is marked. *)
LEMMA DueMarked ==
  ASSUME NEW n, NEW g \in Grid, NEW due, due \in Due(g, n), due # NoSlot, NEW id \in Nat,
         NEW f, f = MarkRemoval(g, due, id)
  PROVE  /\ due \in Cell /\ Busy(g, due) /\ g[due].removal = 0
         /\ f[due].state = g[due].state /\ f[due].mac = g[due].mac /\ f[due].removal = id
         /\ \A c \in Cell \ {due} : f[c] = g[c]
<1>1. due \in Cell /\ IsSlotAllocated(g, due) /\ ~IsRemovePending(g, due)
  BY DEF Due, IdleCandidates
<1>2. f = [g EXCEPT ![due].removal = id]
  BY <1>1 DEF MarkRemoval, SetPendingRemoval
<1> QED
  BY <1>1, <1>2 DEF IsSlotAllocated, IsRemovePending, Busy, Grid, SlotInfo

LEMMA StatsRight ==
  ASSUME InstantInv, NEW n \in Node, ProcessStats(n), UNCHANGED <<macVars, radioVars>>,
         NEW h, NEW m, NEW ms, DrainFrom(n, h, m, ms)
  PROVE  RightAt(n)'
<1>1. PICK due \in Due(grid[n], n) :
        /\ grid' = [grid EXCEPT ![n] = MarkRemoval(@, due, nextId[n])]
        /\ Answers(n, RemovalRequest(grid[n], due, nextId[n]))
  BY DEF ProcessStats
<1>2. /\ ProtocolInv /\ h = Head(bus[n]) /\ h.to = "AI" /\ h.type = "STATS"
      /\ bus[n] # <<>> /\ table' = table /\ procedures' = procedures
  BY DEF DrainFrom, Handles, ProcessStats, Addressed, macVars
<1>3. /\ ~Marks(h) /\ Unaccepted(h, procedures[n]) /\ h \in Early
      /\ DOMAIN grid = Node /\ grid[n] \in Grid /\ nextId[n] \in Nat
  <2>1. h \in Message
    BY <1>2, HeadVowed
  <2> QED
    BY <1>2, <2>1, ProtocolGrid, ProtocolStation
       DEF Marks, RemovalAsked, RemovalReported, Unaccepted, Accepted, Early
<1>4. grid'[n] = MarkRemoval(grid[n], due, nextId[n])
  BY <1>1, <1>3
<1>5. CASE due = NoSlot
  <2>1. grid'[n] = grid[n] /\ ms = <<>>
    BY <1>1, <1>4, <1>5, DrainSilent DEF MarkRemoval, RemovalRequest
  <2>2. \A c \in Cell : SameCell(grid[n], grid'[n], c)
    BY <2>1 DEF SameCell
  <2> QED
    BY <1>2, <1>3, <2>1, <2>2, PlainDrain
<1>6. CASE due # NoSlot
  <2>1. PICK S, C, g, f, t, P, k, R, d, e :
          /\ S = Rest(bus[n]) /\ C = Range(bus'[n]) /\ g = grid[n] /\ f = grid'[n]
          /\ t = table[n] /\ P = procedures[n]
          /\ k = nextId[n] /\ R = removals[n] /\ d = draining[n] /\ e = draining'[n]
    OBVIOUS
  <2>2. /\ Scene(h, S, m, ms, g, P, k, R) /\ Onward(S, m, ms, C, P, P, e)
        /\ TablesRight(S \cup {h}, g, t, P, d)
    BY <1>2, <2>1 DEF DrainFrom, SceneOf, RightAt
  <2>3. PICK o : o = [to |-> "MAC", type |-> "SET_REMOVAL", id |-> k,
                      mac |-> g[due].mac, slot |-> due]
    OBVIOUS
  <2>4. Answers(n, <<o>>)
    BY <1>1, <1>6, <2>1, <2>3 DEF RemovalRequest
  <2>5. ms = <<m>> /\ m = o
    BY <2>4, DrainSends
  <2>6. RemovalAsked(m) /\ m.id = k /\ m.mac = g[due].mac /\ m.slot = due
    BY <2>3, <2>5 DEF RemovalAsked
  <2>7. /\ due \in Cell /\ Busy(g, due) /\ g[due].removal = 0
        /\ f[due].state = g[due].state /\ f[due].mac = g[due].mac /\ f[due].removal = k
        /\ \A c \in Cell \ {due} : f[c] = g[c]
    BY <1>3, <1>4, <1>6, <2>1, DueMarked
  <2>8. TablesRight(C, f, t, P, e)
    BY <1>3, <2>1, <2>2, <2>5, <2>6, <2>7, MarkTables
  <2> QED
    BY <1>2, <2>1, <2>8 DEF RightAt
<1> QED
  BY <1>5, <1>6

(* A MAC's handler that leaves the table as it is and ends no procedure. *)
LEMMA MacQuietRight ==
  ASSUME NEW n \in Node, UNCHANGED gridVars,
         \/ SendProposal(n) \/ SendSelection(n) \/ ReceiveAddSlot(n) \/ ReceiveResult(n)
         \/ ReceiveDelete(n) \/ ReceiveAdvertisement(n) \/ ReceiveAckDelete(n),
         NEW h, NEW m, NEW ms, DrainFrom(n, h, m, ms)
  PROVE  RightAt(n)'
<1>1. h = Head(bus[n])
  BY DEF DrainFrom, Handles
<1>2. table' = table /\ QuietHead(h)
  BY <1>1 DEF SendProposal, SendSelection, ReceiveAddSlot, ReceiveResult, ReceiveDelete,
              ReceiveAdvertisement, ReceiveAckDelete, Received, Addressed, QuietHead, macVars
<1>3. \A c \in Cell : SameCell(grid[n], grid'[n], c)
  BY DEF SameCell, gridVars
<1> QED
  BY <1>2, <1>3, QuietDrain

LEMMA MacRemoveRight ==
  ASSUME NEW n \in Node, UNCHANGED gridVars, RemoveForSelection(n),
         NEW h, NEW m, NEW ms, DrainFrom(n, h, m, ms)
  PROVE  RightAt(n)'
<1>1. PICK S, C, g, t, u, P, k, R, d, e :
        /\ S = Rest(bus[n]) /\ C = Range(bus'[n]) /\ g = grid[n]
        /\ t = table[n] /\ u = table'[n] /\ P = procedures[n]
        /\ k = nextId[n] /\ R = removals[n] /\ d = draining[n] /\ e = draining'[n]
  OBVIOUS
<1>2. /\ h = Head(bus[n]) /\ h.to = "MAC" /\ h.type = "SET_REMOVAL"
      /\ Answers(n, <<[to |-> "AI", type |-> "SETR", id |-> h.id, result |-> "OK"]>>)
      /\ table' = IF ExistsTo(n, h.mac, h.slot) \/ ExistsFrom(n, h.mac, h.slot)
                  THEN RemoveTableSlot(n, h.slot) ELSE table
      /\ procedures' = procedures /\ grid' = grid
  BY DEF DrainFrom, Handles, RemoveForSelection, Addressed, gridVars
<1>3. ms = <<m>> /\ m = [to |-> "AI", type |-> "SETR", id |-> h.id, result |-> "OK"]
  BY <1>2, DrainSends
<1>4. RemovalAsked(h) /\ RemovalReported(m) /\ m.id = h.id
  BY <1>2, <1>3 DEF RemovalAsked, RemovalReported
<1>5. /\ Scene(h, S, m, ms, g, P, k, R) /\ Onward(S, m, ms, C, P, P, e)
      /\ TablesRight(S \cup {h}, g, t, P, d)
  BY <1>1, <1>2 DEF DrainFrom, SceneOf, RightAt
<1>6. h.slot \in Cell /\ table \in [Node -> [Cell -> TableEntry]]
  BY <1>4, <1>5, MacMessage DEF Scene, RemovalAsked, DrainFrom, ProtocolInv, TableTyped
<1>7. /\ \A c \in Cell \ {h.slot} : u[c] = t[c]
      /\ u[h.slot] = IF t[h.slot] \in {[use |-> "SEND", mac |-> h.mac],
                                       [use |-> "RECEIVE", mac |-> h.mac]}
                     THEN UnusedSlot ELSE t[h.slot]
  BY <1>1, <1>2, <1>6 DEF ExistsTo, ExistsFrom, RemoveTableSlot
<1>8. TablesRight(C, g, u, P, e)
  BY <1>3, <1>4, <1>5, <1>7, RemoveTables, SMTT(30)
<1> QED
  BY <1>1, <1>2, <1>8 DEF RightAt

(* The answer to a request of the MAC: a slot that was granted is used, one that *)
(* was freed is not.                                                             *)
LEMMA FinishShape ==
  ASSUME ProtocolInv, NEW n \in Node, NEW h, h = Head(bus[n]), bus[n] # <<>>,
         FinishAllocation(n) \/ FinishRemoval(n) \/ FinishOther(n),
         NEW z, z = procedures[n][h.id].slot
  PROVE  /\ h.to = "MAC" /\ h.type = "SETR" /\ Answers(n, <<>>)
         /\ \/ /\ Accepted(h, procedures[n], "ALLOCATION")
               /\ table' = IF ExistsFrom(n, procedures[n][h.id].mac, z) THEN table
                           ELSE AddTableSlot(n, z,
                                  IF procedures[n][h.id].mode = "TX" THEN "SEND" ELSE "RECEIVE",
                                  procedures[n][h.id].mac)
            \/ Accepted(h, procedures[n], "REMOVAL") /\ table' = RemoveTableSlot(n, z)
            \/ Unaccepted(h, procedures[n]) /\ table' = table
<1>1. CASE FinishAllocation(n)
  BY <1>1, ZenonT(60) DEF FinishAllocation, Addressed, Known, Accepted, Unaccepted
<1>2. CASE FinishRemoval(n)
  BY <1>2, ZenonT(60) DEF FinishRemoval, Addressed, Known, Accepted, Unaccepted
<1>3. CASE FinishOther(n)
  BY <1>3 DEF FinishOther, Addressed, Known, Accepted, Unaccepted
<1> QED
  BY <1>1, <1>2, <1>3, SMTT(30)

LEMMA FinishRight ==
  ASSUME NEW n \in Node, UNCHANGED gridVars,
         FinishAllocation(n) \/ FinishRemoval(n) \/ FinishOther(n),
         NEW h, NEW m, NEW ms, DrainFrom(n, h, m, ms)
  PROVE  RightAt(n)'
<1>1. PICK S, C, g, t, u, P, q, k, R, d, e, z :
        /\ S = Rest(bus[n]) /\ C = Range(bus'[n]) /\ g = grid[n]
        /\ t = table[n] /\ u = table'[n] /\ P = procedures[n] /\ q = procedures'[n]
        /\ k = nextId[n] /\ R = removals[n] /\ d = draining[n] /\ e = draining'[n]
        /\ z = procedures[n][h.id].slot
  OBVIOUS
<1>2. h = Head(bus[n]) /\ bus[n] # <<>> /\ grid' = grid /\ ProtocolInv
  BY DEF DrainFrom, Handles, gridVars
<1>3. /\ h.to = "MAC" /\ h.type = "SETR" /\ Answers(n, <<>>)
      /\ \/ /\ Accepted(h, P, "ALLOCATION")
            /\ table' = IF ExistsFrom(n, P[h.id].mac, z) THEN table
                        ELSE AddTableSlot(n, z, IF P[h.id].mode = "TX" THEN "SEND" ELSE "RECEIVE",
                                          P[h.id].mac)
         \/ Accepted(h, P, "REMOVAL") /\ table' = RemoveTableSlot(n, z)
         \/ Unaccepted(h, P) /\ table' = table
  BY <1>1, <1>2, FinishShape
<1>4. ms = <<>> /\ ~Marks(h)
  BY <1>3, DrainSilent DEF Marks, RemovalAsked, RemovalReported
<1>5. /\ Scene(h, S, m, ms, g, P, k, R) /\ Onward(S, m, ms, C, P, q, e)
      /\ TablesRight(S \cup {h}, g, t, P, d)
  BY <1>1 DEF DrainFrom, SceneOf, RightAt
<1>6. table \in [Node -> [Cell -> TableEntry]]
  BY <1>2 DEF ProtocolInv, TableTyped
<1>7. CASE Unaccepted(h, P) /\ table' = table
  <2>1. \A c \in Cell : SameCell(grid[n], grid'[n], c)
    BY <1>2 DEF SameCell
  <2> QED
    BY <1>1, <1>4, <1>7, <2>1, PlainDrain
<1>8. CASE /\ Accepted(h, P, "ALLOCATION")
           /\ table' = IF ExistsFrom(n, P[h.id].mac, z) THEN table
                       ELSE AddTableSlot(n, z, IF P[h.id].mode = "TX" THEN "SEND" ELSE "RECEIVE",
                                         P[h.id].mac)
  <2>1. /\ z \in Cell /\ P[h.id].mode \in Mode /\ t[z] = UnusedSlot
        /\ g[z].state = P[h.id].mode /\ g[z].mac = P[h.id].mac
    BY <1>1, <1>5, <1>8 DEF TablesRight, AddingRight
  <2>2. ~ExistsFrom(n, P[h.id].mac, z)
    BY <1>1, <2>1 DEF ExistsFrom, UnusedSlot
  <2>3. table' = [table EXCEPT ![n][z] = TableFor(g, z)]
    BY <1>1, <1>8, <2>1, <2>2, SMTT(30) DEF AddTableSlot, TableFor, Busy, Mode
  <2>4. FollowsIn(g, t, u, z)
    BY <1>1, <1>6, <2>1, <2>3 DEF FollowsIn
  <2>5. h \in Answered
    BY <1>5, <1>8 DEF Scene
  <2>6. TablesRight(C, g, u, q, e)
    <3>1. AnswersFor(h, P, z)
      BY <1>1, <1>8 DEF AnswersFor
    <3> QED
      BY <1>4, <1>5, <2>1, <2>4, <2>5, <3>1, DoneTables, Zenon
  <2> QED
    BY <1>1, <1>2, <2>6, SMTT(30) DEF RightAt
<1>9. CASE Accepted(h, P, "REMOVAL") /\ table' = RemoveTableSlot(n, z)
  <2>1. z \in Cell /\ ~Busy(g, z)
    BY <1>1, <1>5, <1>9 DEF TablesRight, DroppingRight
  <2>2. FollowsIn(g, t, u, z)
    BY <1>1, <1>6, <1>9, <2>1 DEF FollowsIn, RemoveTableSlot, TableFor
  <2>3. h \in Answered
    BY <1>5, <1>9 DEF Scene
  <2>4. TablesRight(C, g, u, q, e)
    <3>1. AnswersFor(h, P, z)
      BY <1>1, <1>9 DEF AnswersFor
    <3> QED
      BY <1>4, <1>5, <2>1, <2>2, <2>3, <3>1, DoneTables, Zenon
  <2> QED
    BY <1>1, <1>2, <2>4 DEF RightAt
<1> QED
  BY <1>3, <1>7, <1>8, <1>9

-----------------------------------------------------------------------------
(* An instant keeps the tables right. *)
LEMMA DrainTables ==
  ASSUME ProtocolInv, ProtocolInv', InstantInv, ConfirmedInv, ExchangeInv, TablesInv,
         NEW n \in Node, Drain(n)
  PROVE  TablesInv'
<1>1. OthersKeep(n) /\ \E h, m, ms : Handles(n, h, m, ms)
  BY DrainHandles
<1>2. PICK h, m, ms : Handles(n, h, m, ms)
  BY <1>1
<1>3. SceneOf(n, h, m, ms)
  <2>1. Drained(n)
    BY DEF Drain, Drained
  <2> QED
    BY <1>2, <2>1, HandledScene
<1>4. DrainFrom(n, h, m, ms) /\ h = Head(bus[n])
  BY <1>2, <1>3 DEF DrainFrom, TablesInv, Handles
<1>5. RightAt(n)'
  <2>1. CASE MacHandles(n) /\ UNCHANGED gridVars
    BY <1>4, <2>1, MacQuietRight, MacRemoveRight, FinishRight DEF MacHandles
  <2>2. CASE SelectionHandles(n) /\ UNCHANGED <<macVars, radioVars>>
    <3>1. CASE \/ AllocateReservedSlots(n) \/ IgnoreRequest(n) \/ ProposeSlots(n)
               \/ SelectSlot(n) \/ ExternalSlotsAllocated(n) \/ ExternalSlotRemoved(n)
      <4>1. QuietHead(h) /\ \A c \in Cell : SameCell(grid[n], grid'[n], c)
        BY <1>4, <3>1, QuietGrids
      <4>2. table'[n] = table[n]
        BY <2>2 DEF macVars
      <4> QED
        BY <1>4, <4>1, <4>2, QuietDrain
    <3>2. CASE \/ AllocateSlot(n) \/ RefuseAllocation(n) \/ RemoveSlot(n)
               \/ ProcessSetResponse(n) \/ ProcessStats(n)
      BY <1>4, <2>2, <3>2, AllocateRight, RefuseRight, RemoveRight, ResponseRight, StatsRight
    <3> QED
      BY <2>2, <3>1, <3>2 DEF SelectionHandles
  <2> QED
    BY <2>1, <2>2 DEF Drain
<1>6. ASSUME NEW x \in Node \ {n} PROVE RightAt(x)'
  BY <1>1 DEF OthersKeep, RightAt, TablesInv
<1> QED
  BY <1>5, <1>6 DEF TablesInv

-----------------------------------------------------------------------------
(* Between the instants nothing is on its way: the table is the grid's, and a *)
(* removal that is asked for is that of a marked cell.                        *)

AskedFor(g, x) == /\ \A d \in Cell : g[d].removal = x.id => d = x.slot
                  /\ Busy(g, x.slot) /\ g[x.slot].mac = x.mac /\ g[x.slot].removal = x.id
Resting(B, g, t) == /\ \A c \in Cell : t[c] = TableFor(g, c)
                    /\ \A x \in B : RemovalAsked(x) => AskedFor(g, x)

LEMMA RestingTables ==
  ASSUME NEW B, \A x \in B : Arrives(x) \/ x.type = "SET_BC_SLOTS",
         NEW g, NEW t, NEW P, NEW e, e = FALSE
  PROVE  TablesRight(B, g, t, P, e) <=> Resting(B, g, t)
<1>1. \A x \in B : Unaccepted(x, P) /\ ~RemovalReported(x)
  BY DEF Arrives, RemovalAsked, RemovalReported, Unaccepted, Accepted
<1>2. \A c \in Cell : ~Adding(B, P, c) /\ ~Dropping(B, P, c) /\ ~Ending(B, g, c)
  BY <1>1 DEF Adding, Dropping, Ending, Unaccepted
<1>3. CellsAgree(B, g, t, P) <=> \A c \in Cell : t[c] = TableFor(g, c)
  BY <1>2 DEF CellsAgree
<1>4. AddingRight(B, g, t, P) /\ DroppingRight(B, g, P) /\ EndingRight(B, g, t)
  BY <1>1, <1>2 DEF AddingRight, DroppingRight, EndingRight, Unaccepted
<1>5. AskingRight(B, g, e) <=> \A x \in B : RemovalAsked(x) => AskedFor(g, x)
  BY DEF AskingRight, AskedFor
<1> QED
  BY <1>3, <1>4, <1>5 DEF TablesRight, Resting

(* What the timers of a slot selection do to its cells: those in use stay, and *)
(* of their marks those of the removals R end.                                 *)
Trimmed(g, h, R) ==
  \A c \in Cell :
    /\ Busy(h, c) <=> Busy(g, c)
    /\ Busy(g, c) => h[c].state = g[c].state /\ h[c].mac = g[c].mac
    /\ h[c].removal \in {g[c].removal, 0}
    /\ Busy(g, c) /\ g[c].removal \notin R => h[c].removal = g[c].removal

LEMMA TimedTrims ==
  ASSUME NEW g \in Grid, NEW e, NEW f, NEW R,
         NEW h, h = AbortPendingRemovals(AbortRXProposals(AbortTXProposals(g, e), f), R)
  PROVE  h \in Grid /\ Trimmed(g, h, R)
<1>1. PICK g1 : g1 = AbortTXProposals(g, e)
  OBVIOUS
<1>2. g1 \in Grid /\ \A c \in Cell : g1[c] = g[c] \/ (~Busy(g, c) /\ g1[c] = FreeInfo)
  BY <1>1 DEF AbortTXProposals, TxProposals, FreeSlots, FreeInfo, Grid, SlotInfo, SlotState, Busy
<1>3. PICK g2 : g2 = AbortRXProposals(g1, f)
  OBVIOUS
<1>4. g2 \in Grid /\ \A c \in Cell : g2[c] = g1[c] \/ (~Busy(g1, c) /\ g2[c] = FreeInfo)
  BY <1>2, <1>3
     DEF AbortRXProposals, RxProposals, First, FreeSlots, FreeInfo, Grid, SlotInfo, SlotState, Busy
<1>5. \A c \in Cell : g2[c] = g[c] \/ (~Busy(g, c) /\ g2[c] = FreeInfo)
  BY <1>2, <1>4 DEF Busy
<1>6. h = AbortPendingRemovals(g2, R)
  BY <1>1, <1>3
<1>7. h \in Grid
  BY <1>4, <1>6, SMTT(30) DEF AbortPendingRemovals, Grid, SlotInfo
<1>8. \A c \in Cell : /\ h[c].state = g2[c].state /\ h[c].mac = g2[c].mac
                      /\ h[c].removal \in {g2[c].removal, 0}
                      /\ g2[c].removal \notin R => h[c].removal = g2[c].removal
  BY <1>4, <1>6 DEF AbortPendingRemovals, First, RemovalCells, Grid, SlotInfo
<1>9. Trimmed(g, h, R)
  BY <1>5, <1>8 DEF Trimmed, Busy, FreeInfo
<1> QED
  BY <1>7, <1>9

LEMMA TrimmedRests ==
  ASSUME NEW g, NEW h, NEW R, Trimmed(g, h, R), NEW B, NEW t, Resting(B, g, t),
         \A x \in B : RemovalAsked(x) => x.id # 0 /\ x.id \notin R /\ x.slot \in Cell
  PROVE  Resting(B, h, t)
<1>1. \A c \in Cell : t[c] = TableFor(h, c)
  BY DEF Resting, TableFor, Trimmed
<1>2. ASSUME NEW x \in B, RemovalAsked(x) PROVE AskedFor(h, x)
  <2>1. AskedFor(g, x) /\ x.id # 0 /\ x.id \notin R /\ x.slot \in Cell
    BY <1>2 DEF Resting
  <2> QED
    BY <2>1 DEF AskedFor, Trimmed
<1> QED
  BY <1>1, <1>2 DEF Resting

LEMMA MarkedRests ==
  ASSUME NEW B, NEW h, NEW t, Resting(B, h, t), NEW k, k # 0,
         \A x \in B : RemovalAsked(x) => x.id # 0 /\ x.id # k /\ x.slot \in Cell,
         \A c \in Cell : h[c].removal # k,
         NEW z \in Cell, Busy(h, z), h[z].removal = 0,
         NEW f, f[z].state = h[z].state, f[z].mac = h[z].mac, f[z].removal = k,
         \A c \in Cell \ {z} : f[c] = h[c],
         NEW m, m.id = k, m.mac = h[z].mac, m.slot = z
  PROVE  Resting(B \cup {m}, f, t)
<1>1. \A c \in Cell : t[c] = TableFor(f, c)
  BY DEF Resting, TableFor, Busy
<1>2. AskedFor(f, m)
  BY DEF AskedFor, Busy
<1>3. ASSUME NEW x \in B, RemovalAsked(x) PROVE AskedFor(f, x)
  <2>1. AskedFor(h, x) /\ x.id # 0 /\ x.id # k /\ x.slot \in Cell
    BY <1>3 DEF Resting
  <2>2. x.slot # z
    BY <2>1 DEF AskedFor
  <2> QED
    BY <2>1, <2>2 DEF AskedFor, Busy
<1> QED
  BY <1>1, <1>2, <1>3 DEF Resting

RestingAt(x) == Resting(Range(bus[x]), grid[x], table[x])

LEMMA TimersRest ==
  ASSUME ProtocolInv, InstantInv, NEW n \in Node, SelectionTimers(n), RestingAt(n)
  PROVE  RestingAt(n)'
<1>1. PICK expiredTx, expiredRx, expiredRemovals, due :
        /\ TimersMark(n, TimedGrid(n, expiredTx, expiredRx, expiredRemovals), due)
        /\ removals'[n] = (removals[n] \ expiredRemovals) \cup NewRemoval(n, due)
  BY TimersAdd
<1>2. PICK b, B, g, h, f, t, k :
        /\ b = bus[n] /\ B = Range(b) /\ g = grid[n]
        /\ h = TimedGrid(n, expiredTx, expiredRx, expiredRemovals)
        /\ f = grid'[n] /\ t = table[n] /\ k = nextId[n]
  OBVIOUS
<1>3. table'[n] = t /\ g \in Grid /\ Marked(g, removals[n]) /\ IsSeq(b) /\ B \subseteq Message
  <2>1. table' = table
    BY TimersAdd
  <2> QED
    BY <1>2, <2>1, ProtocolGrid, ProtocolStation, MessageSeq
<1>4. /\ k \in Nat \ {0} /\ \A id \in removals[n] : id < k /\ id \in Nat
      /\ \A x \in B : OldId(x, k)
  BY <1>2 DEF InstantInv, Accounted
<1>5. h \in Grid /\ Trimmed(g, h, expiredRemovals)
  BY <1>2, <1>3, TimedTrims DEF TimedGrid
<1>6. \A x \in B : RemovalAsked(x) =>
         x.id # 0 /\ x.id # k /\ x.id \notin expiredRemovals /\ x.slot \in Cell
  <2> SUFFICES ASSUME NEW x \in B, RemovalAsked(x)
               PROVE  x.id # 0 /\ x.id # k /\ x.id \notin expiredRemovals /\ x.slot \in Cell
    OBVIOUS
  <2>1. x.id \in Nat \ {0} /\ x.id < k
    BY <1>4 DEF OldId
  <2>2. x.id \in removals'[n]
    BY <1>2 DEF SelectionTimers, Range, RemovalAsked
  <2>3. x.id \notin NewRemoval(n, due)
    BY <1>2, <1>4, <2>1 DEF NewRemoval
  <2>4. x.slot \in Cell
    BY <1>3, MacMessage DEF RemovalAsked
  <2> QED
    BY <1>1, <1>4, <2>1, <2>2, <2>3, <2>4
<1>7. Resting(B, h, t)
  <2>1. Resting(B, g, t)
    BY <1>2 DEF RestingAt
  <2>2. \A x \in B : RemovalAsked(x) =>
          x.id # 0 /\ x.id \notin expiredRemovals /\ x.slot \in Cell
    BY <1>6
  <2> QED
    BY <1>5, <2>1, <2>2, TrimmedRests, Zenon
<1>8. \A c \in Cell : h[c].removal # k
  BY <1>3, <1>4, <1>5 DEF Trimmed, Marked
<1>9. f = MarkRemoval(h, due, k) /\ due \in Due(h, n) /\ bus'[n] = b \o RemovalRequest(h, due, k)
  BY <1>1, <1>2 DEF TimersMark
<1>10. CASE due = NoSlot
  <2>1. f = h /\ bus'[n] = b \o <<>>
    BY <1>9, <1>10 DEF MarkRemoval, RemovalRequest
  <2>2. PICK c, ms, m : ms = <<>> /\ c = b \o ms /\ m = 0
    OBVIOUS
  <2>3. OneAdded(b, m, ms, c) /\ ms # <<m>>
    <3>1. ms # <<m>>
      BY <2>2
    <3>2. ms \in {<<>>, <<m>>}
      BY <2>2
    <3> QED
      BY <1>3, <2>2, <3>1, <3>2, AddedRange
  <2>4. Range(bus'[n]) = B
    BY <1>2, <2>1, <2>2, <2>3 DEF OneAdded, Sent
  <2> QED
    BY <1>2, <1>3, <1>7, <2>1, <2>4 DEF RestingAt
<1>11. CASE due # NoSlot
  <2>1. PICK m, ms, c : /\ m = [to |-> "MAC", type |-> "SET_REMOVAL", id |-> k,
                                mac |-> h[due].mac, slot |-> due]
                        /\ ms = <<m>> /\ c = b \o ms
    OBVIOUS
  <2>2. bus'[n] = c
    BY <1>9, <1>11, <2>1 DEF RemovalRequest
  <2>3. OneAdded(b, m, ms, c)
    BY <1>3, <2>1, AddedRange
  <2>4. Range(bus'[n]) = B \cup {m}
    BY <1>2, <2>1, <2>2, <2>3 DEF OneAdded, Sent
  <2>5. /\ due \in Cell /\ Busy(h, due) /\ h[due].removal = 0
        /\ f[due].state = h[due].state /\ f[due].mac = h[due].mac /\ f[due].removal = k
        /\ \A d \in Cell \ {due} : f[d] = h[d]
    BY <1>4, <1>5, <1>9, <1>11, DueMarked
  <2>6. m.id = k /\ m.mac = h[due].mac /\ m.slot = due
    BY <2>1
  <2>7. Resting(B \cup {m}, f, t)
    BY <1>4, <1>6, <1>7, <1>8, <2>5, <2>6, MarkedRests, SMTT(30)
  <2> QED
    BY <1>2, <1>3, <2>4, <2>7 DEF RestingAt
<1> QED
  BY <1>10, <1>11

LEMMA PlainRest ==
  ASSUME NEW x, RestingAt(x), grid'[x] = grid[x], table'[x] = table[x],
         NEW m, ~RemovalAsked(m), Range(bus'[x]) \subseteq Range(bus[x]) \cup {m}
  PROVE  RestingAt(x)'
BY DEF RestingAt, Resting

(* A message that asks for no removal comes to x. *)
LEMMA AddedRest ==
  ASSUME ProtocolInv, NEW x \in Node, RestingAt(x), grid'[x] = grid[x], table'[x] = table[x],
         NEW m, Adds(x, m, <<m>>), ~RemovalAsked(m)
  PROVE  RestingAt(x)'
<1>1. PICK b, ms, c : b = bus[x] /\ ms = <<m>> /\ c = b \o ms
  OBVIOUS
<1>2. IsSeq(b) /\ bus'[x] = c
  BY <1>1, ProtocolStation DEF Adds
<1>3. OneAdded(b, m, ms, c)
  BY <1>1, <1>2, AddedRange
<1>4. Range(bus'[x]) \subseteq Range(bus[x]) \cup {m}
  BY <1>1, <1>2, <1>3 DEF OneAdded, Sent
<1> QED
  BY <1>4, PlainRest

LEMMA TickRestsOn ==
  ASSUME ProtocolInv, InstantInv, NEW n \in Node, Tick(n), NEW x \in Node, RestingAt(x)
  PROVE  RestingAt(x)'
<1>1. CASE AppSend(n) \/ QueueTimeout(n) \/ SendStatistics(n)
  <2>1. PICK m : Request(n, m) /\ m.to = "AI" /\ m.type \in {"GET_PROPOSED", "STATS"}
    BY <1>1, TickRequests
  <2>2. /\ Adds(n, m, <<m>>) /\ \A y \in Node \ {n} : bus'[y] = bus[y]
        /\ UNCHANGED <<grid, table>>
    BY <2>1, RequestAdds
  <2>3. ~RemovalAsked(m)
    BY <2>1 DEF RemovalAsked
  <2>4. CASE x = n
    BY <2>2, <2>3, <2>4, AddedRest
  <2>5. CASE x # n
    BY <2>2, <2>5 DEF RestingAt
  <2> QED
    BY <2>4, <2>5
<1>2. CASE SelectionTimers(n)
  <2>1. CASE x = n
    BY <1>2, <2>1, TimersRest
  <2>2. CASE x # n
    <3>1. bus'[x] = bus[x] /\ grid'[x] = grid[x] /\ table' = table
      BY <1>2, <2>2, TimersAdd
    <3> QED
      BY <3>1 DEF RestingAt
  <2> QED
    BY <2>1, <2>2
<1>3. CASE Transmit(n)
  <2>1. PICK e, m : e = Head(queue[n]) /\ m = Reception(n, e.packet)
    OBVIOUS
  <2>2. (\E heard : Reaches(n, e, m, heard)) /\ UNCHANGED <<grid, table>>
    BY <1>3, <2>1, TransmitAdds
  <2>3. PICK heard : Reaches(n, e, m, heard)
    BY <2>2
  <2>4. ~RemovalAsked(m)
    BY <2>1 DEF RemovalAsked, Reception
  <2>5. CASE x \in heard
    BY <2>2, <2>3, <2>4, <2>5, AddedRest DEF Reaches
  <2>6. CASE x \notin heard
    BY <2>2, <2>3, <2>6 DEF Reaches, RestingAt
  <2> QED
    BY <2>5, <2>6
<1>4. CASE Advertise(n) \/ Retransmit(n)
  BY <1>4 DEF Advertise, Retransmit, selVars, gridVars, macVars, RestingAt
<1> QED
  BY <1>1, <1>2, <1>3, <1>4 DEF Tick

LEMMA TickTables ==
  ASSUME ProtocolInv, ProtocolInv', InstantInv, InstantInv', TablesInv, NEW n \in Node, Tick(n)
  PROVE  TablesInv'
<1>1. ASSUME NEW x \in Node PROVE RightAt(x)'
  <2>1. draining[x] = FALSE /\ draining'[x] = draining[x]
    BY TickAdds
  <2>2. Rests(bus[x]) /\ Rests(bus'[x])
    BY <2>1 DEF InstantInv
  <2>3. RestingAt(x)
    BY <2>1, <2>2, RestingTables DEF TablesInv, RightAt, RestingAt, Rests
  <2>4. RestingAt(x)'
    BY <2>3, TickRestsOn
  <2> QED
    BY <2>1, <2>2, <2>4, RestingTables DEF RightAt, RestingAt, Rests
<1> QED
  BY <1>1 DEF TablesInv

LEMMA InitTables == ProtocolInit => TablesInv
<1> SUFFICES ASSUME ProtocolInit, NEW n \in Node PROVE RightAt(n)
  BY DEF TablesInv
<1>1. /\ bus[n] = <<SetBcSlots>> /\ grid[n] = EmptyGrid
      /\ table[n] = [c \in Cell |-> UnusedSlot] /\ draining[n] = FALSE
  BY StationAssumption DEF ProtocolInit, Init
<1>2. SetBcSlots.type = "SET_BC_SLOTS"
  BY DEF SetBcSlots
<1>3. PICK b : b = bus[n]
  OBVIOUS
<1>4. DOMAIN b = {1} /\ b[1] = SetBcSlots
  BY <1>1, <1>3
<1>5. Range(b) = {SetBcSlots}
  BY <1>4 DEF Range
<1>6. Resting({SetBcSlots}, grid[n], table[n])
  BY <1>1, <1>2 DEF Resting, RemovalAsked, TableFor, Busy, EmptyGrid, FreeInfo
<1>7. TablesRight({SetBcSlots}, grid[n], table[n], procedures[n], draining[n])
  BY <1>1, <1>2, <1>6, RestingTables
<1> QED
  BY <1>3, <1>5, <1>7 DEF RightAt

LEMMA TablesInvInductive ==
  ASSUME ProtocolInv, ProtocolInv', InstantInv, ConfirmedInv, ExchangeInv, TablesInv,
         [ProtocolNext]_vars
  PROVE  TablesInv'
<1>1. InstantInv'
  BY InstantInvInductive
<1>2. CASE UNCHANGED vars
  <2>1. UNCHANGED <<bus, grid, table, procedures, draining>>
    BY <1>2 DEF vars, selVars, gridVars, macVars
  <2> QED
    BY <2>1 DEF TablesInv, RightAt
<1>3. ASSUME NEW n \in Node, Drain(n) PROVE TablesInv'
  BY <1>3, DrainTables
<1>4. ASSUME NEW n \in Node, Tick(n) PROVE TablesInv'
  BY <1>1, <1>4, TickTables
<1> QED
  BY <1>2, <1>3, <1>4 DEF ProtocolNext

-----------------------------------------------------------------------------
(* The theorems *)

(* The instant: the messages of one packet are handled one at a time, nothing *)
(* the MAC's timers asked for comes after what the packet makes it set, and   *)
(* only what a tick brings waits on a bus between the instants - on any radio.*)
THEOREM InstantInvariant == ProtocolSpec => []InstantInv
BY InitInstant, InstantInvInductive, ProtocolInvariant, PTL DEF ProtocolSpec

(* The exchange: on a radio that loses nothing and is in time, an offer, the  *)
(* selection made of it and the result are one message or packet at a time,   *)
(* and no result comes for a cell that its station already sends in.          *)
THEOREM ExchangeInvariant ==
  ASSUME Reliable, Prompt PROVE ProtocolSpec => []ExchangeInv
<1>1. ProtocolInv /\ ProtocolInv' /\ InstantInv /\ ExchangeInv /\ [ProtocolNext]_vars
        => ExchangeInv'
  BY ExchangeInvInductive
<1> QED
  BY <1>1, InitExchange, ProtocolInvariant, InstantInvariant, PTL DEF ProtocolSpec

(* The table and the grid: on such a radio the table of a MAC differs from    *)
(* the grid of its slot selection only in a cell that a message of the very   *)
(* instant is about, and that message, once handled, makes them equal.        *)
THEOREM TablesInvariant ==
  ASSUME Reliable, Prompt PROVE ProtocolSpec => []TablesInv
<1>1. /\ ProtocolInv /\ ProtocolInv' /\ InstantInv /\ ConfirmedInv /\ ExchangeInv /\ TablesInv
      /\ [ProtocolNext]_vars
      => TablesInv'
  BY TablesInvInductive
<1>2. ProtocolSpec => []ExchangeInv
  BY ExchangeInvariant
<1> QED
  BY <1>1, <1>2, InitTables, ProtocolInvariant, InstantInvariant, ConfirmedInvariant, PTL
     DEF ProtocolSpec

LEMMA QuietTables ==
  ASSUME TablesInv, NEW n \in Node, Quiet(n), NEW c \in Cell
  PROVE  table[n][c] = TableFor(grid[n], c)
<1>1. PICK b : b = bus[n] /\ b = <<>>
  BY DEF Quiet
<1>2. DOMAIN b = {}
  BY <1>1
<1>3. Range(bus[n]) = {}
  BY <1>1, <1>2 DEF Range
<1> QED
  BY <1>3 DEF TablesInv, RightAt, TablesRight, CellsAgree, Adding, Dropping, Ending

(* Between instants the MAC can use every slot its slot selection allocated,  *)
(* in the same mode and for the same peer, on a radio that loses nothing and  *)
(* is in time.                                                                *)
THEOREM AllocatedInTableHolds ==
  ASSUME Reliable, Prompt PROVE ProtocolSpec => []AllocatedInTable
<1>1. TablesInv => AllocatedInTable
  BY QuietTables DEF AllocatedInTable, IsSlotAllocated, TableFor, Busy
<1>2. ProtocolSpec => []TablesInv
  BY TablesInvariant
<1> QED
  BY <1>1, <1>2, PTL

(* Between instants the MAC uses no slot that its slot selection does not     *)
(* know to be allocated to that peer, on such a radio.                        *)
THEOREM TableAllocatedHolds ==
  ASSUME Reliable, Prompt PROVE ProtocolSpec => []TableAllocated
<1>1. TablesInv => TableAllocated
  <2> SUFFICES ASSUME TablesInv, NEW n \in Node, NEW c \in Cell, Quiet(n),
                      table[n][c] # UnusedSlot
               PROVE  IsSlotAllocatedFor(grid[n], c, table[n][c].mac)
    BY DEF TableAllocated
  <2>1. table[n][c] = TableFor(grid[n], c)
    BY QuietTables
  <2>2. Busy(grid[n], c) /\ table[n][c].mac = grid[n][c].mac
    BY <2>1 DEF TableFor
  <2> QED
    BY <2>2 DEF IsSlotAllocatedFor, IsSlotAllocated, Busy
<1>2. ProtocolSpec => []TablesInv
  BY TablesInvariant
<1> QED
  BY <1>1, <1>2, PTL

=============================================================================
