----------------------- MODULE ControlTransfer_proofs -----------------------
(***************************************************************************)
(* Proofs about ControlTransfer: what an acknowledgement that is accepted  *)
(* means, how often a packet is transmitted and when it is given up, for   *)
(* every set of stations, number of tries and size of the lists.           *)
(***************************************************************************)
EXTENDS ControlTransfer, SequenceTheorems, TLAPS

IsPacket(e) == e.kind = "PACKET"
IsAck(e)    == e.kind = "ACK"

-----------------------------------------------------------------------------
(* What an action does to one queue *)

(* The packets of p are those of q from place lo on, in the same order. *)
Kept(p, q, lo) ==
  \E d \in Int : \A j \in DOMAIN p :
    IsPacket(p[j]) => j + d \in lo .. Len(q) /\ p[j] = q[j + d]

(* The acknowledgements of p are of q, or they are a. *)
AcksOf(p, q, a) ==
  \A j \in DOMAIN p : IsAck(p[j]) => p[j] = a \/ \E k \in DOMAIN q : p[j] = q[k]

(* p may be what one step makes of q, when no packet is added. *)
Worked(p, q, lo, a) == p \in Seq(Item) /\ Kept(p, q, lo) /\ AcksOf(p, q, a)

(* Whether a copy of the packet i is in q; whether there is one of each. *)
HasCopy(q, i) == \E j \in DOMAIN q : IsPacket(q[j]) /\ q[j].index = i
Single(q) ==
  \A j, k \in DOMAIN q :
    j # k /\ IsPacket(q[j]) /\ IsPacket(q[k]) => q[j].index # q[k].index

(* A queue that a step leaves alone. *)
LEMMA SameWorked ==
  ASSUME NEW q \in Seq(Item), NEW a PROVE Worked(q, q, 1, a)
<1>1. \A j \in DOMAIN q : j + 0 \in 1 .. Len(q) /\ q[j] = q[j + 0]
  OBVIOUS
<1>2. Kept(q, q, 1)
  BY <1>1, 0 \in Int DEF Kept
<1> QED
  BY <1>2 DEF Worked, AcksOf

(* The packet at the head is taken. *)
LEMMA TailWorked ==
  ASSUME NEW q \in Seq(Item), q # <<>>, NEW a PROVE Worked(Tail(q), q, 2, a)
<1> DEFINE p == Tail(q)
<1>1. /\ p \in Seq(Item) /\ Len(p) = Len(q) - 1
      /\ \A j \in DOMAIN p : j + 1 \in 2 .. Len(q) /\ p[j] = q[j + 1]
  OBVIOUS
<1>2. Len(q) \in Nat /\ DOMAIN q = 1 .. Len(q)
  OBVIOUS
<1> HIDE DEF p
<1>3. Kept(p, q, 2)
  BY <1>1, 1 \in Int DEF Kept
<1>4. \A j \in DOMAIN p : \E k \in DOMAIN q : p[j] = q[k]
  BY <1>1, <1>2
<1>5. AcksOf(p, q, a)
  BY <1>4 DEF AcksOf
<1> QED
  BY <1>1, <1>3, <1>5 DEF Worked, p

(* An acknowledgement goes before what is there. *)
LEMMA FrontWorked ==
  ASSUME NEW q \in Seq(Item), NEW p, NEW lo \in Nat, NEW a \in Item, IsAck(a),
         Worked(p, q, lo, a)
  PROVE  Worked(<<a>> \o p, q, lo, a)
<1> DEFINE r == <<a>> \o p
<1>0. p \in Seq(Item) /\ Len(p) \in Nat /\ DOMAIN p = 1 .. Len(p)
  BY DEF Worked
<1>1. /\ r \in Seq(Item) /\ Len(r) = Len(p) + 1
      /\ r[1] = a
      /\ \A j \in 2 .. Len(p) + 1 : r[j] = p[j - 1]
  BY <1>0
<1> HIDE DEF r
<1>2. DOMAIN r = 1 .. Len(p) + 1
  BY <1>1
<1>3. ~IsPacket(a)
  BY DEF IsAck, IsPacket
<1>4. Kept(r, q, lo)
  <2>1. PICK d \in Int : \A j \in DOMAIN p :
          IsPacket(p[j]) => j + d \in lo .. Len(q) /\ p[j] = q[j + d]
    BY DEF Worked, Kept
  <2>2. ASSUME NEW j \in DOMAIN r, IsPacket(r[j])
        PROVE  j + (d - 1) \in lo .. Len(q) /\ r[j] = q[j + (d - 1)]
    <3>1. j # 1
      BY <1>1, <1>3, <2>2
    <3>2. j - 1 \in DOMAIN p /\ r[j] = p[j - 1] /\ j \in Int
      BY <1>0, <1>1, <1>2, <3>1
    <3>3. (j - 1) + d \in lo .. Len(q) /\ p[j - 1] = q[(j - 1) + d]
      BY <2>1, <2>2, <3>2
    <3>4. (j - 1) + d = j + (d - 1)
      BY <3>2
    <3> QED
      BY <3>2, <3>3, <3>4
  <2>3. d - 1 \in Int
    OBVIOUS
  <2> QED
    BY <2>2, <2>3 DEF Kept
<1>5. AcksOf(r, q, a)
  <2>1. ASSUME NEW j \in DOMAIN r, IsAck(r[j])
        PROVE  r[j] = a \/ \E k \in DOMAIN q : r[j] = q[k]
    <3>1. CASE j = 1
      BY <1>1, <3>1
    <3>2. CASE j # 1
      <4>1. j - 1 \in DOMAIN p /\ r[j] = p[j - 1]
        BY <1>0, <1>1, <1>2, <3>2
      <4> QED
        BY <2>1, <4>1 DEF Worked, AcksOf
    <3> QED
      BY <3>1, <3>2
  <2> QED
    BY <2>1 DEF AcksOf
<1> QED
  BY <1>1, <1>4, <1>5 DEF Worked, r

(* A packet of the new queue is one of the old queue. *)
LEMMA KeptPacket ==
  ASSUME NEW p, NEW q \in Seq(Item), NEW lo \in Nat \ {0}, Kept(p, q, lo),
         NEW j \in DOMAIN p, IsPacket(p[j])
  PROVE  \E k \in DOMAIN q : k >= lo /\ p[j] = q[k]
<1>1. PICK d \in Int : j + d \in lo .. Len(q) /\ p[j] = q[j + d]
  BY DEF Kept
<1>2. j + d \in DOMAIN q /\ j + d >= lo
  BY <1>1
<1> QED
  BY <1>1, <1>2

LEMMA KeptSingle ==
  ASSUME NEW p \in Seq(Item), NEW q \in Seq(Item), NEW lo \in Nat \ {0}, Kept(p, q, lo), Single(q)
  PROVE  Single(p)
<1>1. PICK d \in Int : \A j \in DOMAIN p :
        IsPacket(p[j]) => j + d \in lo .. Len(q) /\ p[j] = q[j + d]
  BY DEF Kept
<1>2. ASSUME NEW j \in DOMAIN p, NEW k \in DOMAIN p, j # k, IsPacket(p[j]), IsPacket(p[k])
      PROVE  p[j].index # p[k].index
  <2>1. /\ j + d \in DOMAIN q /\ p[j] = q[j + d]
        /\ k + d \in DOMAIN q /\ p[k] = q[k + d]
    BY <1>1, <1>2
  <2>2. j + d # k + d
    BY <1>2
  <2> QED
    BY <1>2, <2>1, <2>2 DEF Single
<1> QED
  BY <1>2 DEF Single

(* When the head is taken, and it was a packet, no copy of it is left. *)
LEMMA HeadGone ==
  ASSUME NEW p \in Seq(Item), NEW q \in Seq(Item), q # <<>>, Kept(p, q, 2), Single(q),
         IsPacket(q[1])
  PROVE  ~HasCopy(p, q[1].index)
<1>1. ASSUME NEW j \in DOMAIN p, IsPacket(p[j]) PROVE p[j].index # q[1].index
  <2>1. PICK k \in DOMAIN q : k >= 2 /\ p[j] = q[k]
    BY <1>1, KeptPacket
  <2>2. 1 \in DOMAIN q /\ k # 1
    BY <2>1
  <2> QED
    BY <1>1, <2>1, <2>2 DEF Single
<1> QED
  BY <1>1 DEF HasCopy

(* A packet goes to the end. *)
LEMMA AppendPacket ==
  ASSUME NEW q \in Seq(Item), NEW e \in Item, IsPacket(e), NEW a
  PROVE  /\ Append(q, e) \in Seq(Item)
         /\ AcksOf(Append(q, e), q, a)
         /\ \A j \in DOMAIN Append(q, e) :
              \/ j \in DOMAIN q /\ Append(q, e)[j] = q[j]
              \/ j = Len(q) + 1 /\ Append(q, e)[j] = e
         /\ \A j \in DOMAIN q : j \in DOMAIN Append(q, e) /\ Append(q, e)[j] = q[j]
         /\ HasCopy(Append(q, e), e.index)
         /\ Single(q) /\ ~HasCopy(q, e.index) => Single(Append(q, e))
<1> DEFINE r == Append(q, e)
<1>1. /\ r \in Seq(Item)
      /\ \A j \in DOMAIN r : \/ j \in DOMAIN q /\ r[j] = q[j]
                             \/ j = Len(q) + 1 /\ r[j] = e
      /\ \A j \in DOMAIN q : j \in DOMAIN r /\ r[j] = q[j]
      /\ Len(q) + 1 \in DOMAIN r /\ r[Len(q) + 1] = e
  OBVIOUS
<1> HIDE DEF r
<1>2. ~IsAck(e)
  BY DEF IsPacket, IsAck
<1>3. AcksOf(r, q, a)
  BY <1>1, <1>2 DEF AcksOf
<1>4. HasCopy(r, e.index)
  BY <1>1 DEF HasCopy
<1>5. ASSUME Single(q), ~HasCopy(q, e.index) PROVE Single(r)
  <2>1. ASSUME NEW j \in DOMAIN r, NEW k \in DOMAIN r, j # k, IsPacket(r[j]), IsPacket(r[k])
        PROVE  r[j].index # r[k].index
    <3>1. CASE j \in DOMAIN q /\ r[j] = q[j] /\ k \in DOMAIN q /\ r[k] = q[k]
      BY <1>5, <2>1, <3>1 DEF Single
    <3>2. CASE j \in DOMAIN q /\ r[j] = q[j] /\ r[k] = e
      BY <1>5, <2>1, <3>2 DEF HasCopy
    <3>3. CASE r[j] = e /\ k \in DOMAIN q /\ r[k] = q[k]
      BY <1>5, <2>1, <3>3 DEF HasCopy
    <3> QED
      BY <1>1, <2>1, <3>1, <3>2, <3>3
  <2> QED
    BY <2>1 DEF Single
<1> QED
  BY <1>1, <1>3, <1>4, <1>5 DEF r

-----------------------------------------------------------------------------
(* The map and the lists *)

(* A list that is pushed on holds nothing but what it held and the new one. *)
LEMMA PushedShape ==
  ASSUME NEW T, NEW list \in Seq(T), NEW x \in T
  PROVE  /\ Pushed(list, x) \in Seq(T)
         /\ Range(Pushed(list, x)) \subseteq Range(list) \cup {x}
<1> DEFINE longer == Append(list, x)
           excess == IF Len(longer) > ListSize THEN Len(longer) - ListSize ELSE 0
           r      == SubSeq(longer, excess + 1, Len(longer))
<1>1. /\ longer \in Seq(T) /\ Len(longer) = Len(list) + 1 /\ Len(list) \in Nat
      /\ \A j \in 1 .. Len(longer) : longer[j] = x \/ (j \in DOMAIN list /\ longer[j] = list[j])
  OBVIOUS
<1> HIDE DEF longer
<1>2. excess \in Nat /\ excess <= Len(longer)
  BY <1>1, TransferAssumption
<1> HIDE DEF excess
<1>3. /\ r \in Seq(T)
      /\ \A j \in DOMAIN r : r[j] = longer[excess + j] /\ excess + j \in 1 .. Len(longer)
  BY <1>1, <1>2
<1>4. Pushed(list, x) = r
  BY DEF Pushed, longer, excess
<1> HIDE DEF r
<1>5. ASSUME NEW y \in Range(r) PROVE y \in Range(list) \cup {x}
  <2>1. PICK j \in DOMAIN r : y = r[j]
    BY DEF Range
  <2>2. y = x \/ \E k \in DOMAIN list : y = list[k]
    BY <1>1, <1>3, <2>1
  <2> QED
    BY <2>2 DEF Range
<1> QED
  BY <1>3, <1>4, <1>5

LEMMA StruckShape ==
  ASSUME NEW T, NEW list \in Seq(T), NEW k \in DOMAIN list
  PROVE  RemoveAt(list, k) \in Seq(T)
<1>1. SubSeq(list, 1, k - 1) \in Seq(T) /\ SubSeq(list, k + 1, Len(list)) \in Seq(T)
  OBVIOUS
<1> QED
  BY <1>1 DEF RemoveAt

(* Entering in the map and erasing from it, as an action writes them. *)
LEMMA EnteredShape ==
  ASSUME DOMAIN needed = Node, NEW n \in Node, NEW i, NEW entry, NEW r, r = Entered(n, i, entry)
  PROVE  /\ DOMAIN r = Node
         /\ \A x \in Node \ {n} : r[x] = needed[x]
         /\ DOMAIN r[n] = DOMAIN needed[n] \cup {i}
         /\ r[n][i] = entry
         /\ \A j \in DOMAIN needed[n] \ {i} : r[n][j] = needed[n][j]
BY DEF Entered

LEMMA ErasedShape ==
  ASSUME DOMAIN needed = Node, NEW n \in Node, NEW i, NEW r, r = Erased(n, i)
  PROVE  /\ DOMAIN r = Node
         /\ \A x \in Node \ {n} : r[x] = needed[x]
         /\ DOMAIN r[n] = DOMAIN needed[n] \ {i}
         /\ \A j \in DOMAIN needed[n] \ {i} : r[n][j] = needed[n][j]
BY DEF Erased

-----------------------------------------------------------------------------
(* The inductive invariant *)

HistoryOK ==
  /\ DOMAIN needed = Node
  /\ copies \in [Node -> [Index -> Nat]]
  /\ acks   \in [Node -> [Index -> Nat]]
  /\ got    \in [Node -> SUBSET (Node \X Index)]

(* m is the destination of the packet i of n: what n keeps, queues or got *)
(* through to a station says so.                                          *)
Destined(n, i, m) ==
  \/ Pair(n, i) \in got[m]
  \/ i \in DOMAIN needed[n] /\ needed[n][i].peer = m
  \/ \E j \in DOMAIN queue[n] :
        IsPacket(queue[n][j]) /\ queue[n][j].index = i /\ queue[n][j].peer = m

(* A number is used once, for one destination. *)
OneDestination ==
  \A n \in Node, i \in Index, m1, m2 \in Node :
    Destined(n, i, m1) /\ Destined(n, i, m2) => m1 = m2
Numbered ==
  \A n \in Node, i \in Index :
    i >= nextIndex[n] => /\ \A m \in Node : ~Destined(n, i, m)
                         /\ copies[n][i] = 0 /\ acks[n][i] = 0

(* An acknowledgement in a queue is of a packet that its sender received. *)
AcksTrue ==
  \A m \in Node : \A j \in DOMAIN queue[m] :
    IsAck(queue[m][j]) => Pair(queue[m][j].peer, queue[m][j].index) \in got[m]

(* What a station remembers as acknowledged; while it does, and it was once, *)
(* the packet is over.                                                       *)
Remembered ==
  \A n, m \in Node, i \in Index :
    Pair(m, i) \in Range(received[n]) =>
      /\ Pair(n, i) \in got[m]
      /\ acks[n][i] >= 1
      /\ acks[n][i] = 1 => i \notin DOMAIN needed[n] /\ copies[n][i] <= Tries

(* The transmissions that a packet may still have. *)
ToCome(n, i) ==
  IF i \in DOMAIN needed[n]
  THEN IF needed[n][i].waiting THEN needed[n][i].left ELSE needed[n][i].left - 1
  ELSE IF HasCopy(queue[n], i) THEN Tries ELSE 0

Started(n, i) == copies[n][i] > 0 \/ i \in DOMAIN needed[n]

(* The transmissions made and those to come are Tries for each of the times *)
(* that the packet was acknowledged, and Tries for now: no more, and while  *)
(* it is not acknowledged no fewer.                                         *)
Accounted(t, c, a, started) ==
  /\ c + t <= Tries * a + Tries
  /\ a = 0 /\ started => c + t = Tries
Counted ==
  \A n \in Node, i \in Index :
    Accounted(ToCome(n, i), copies[n][i], acks[n][i], Started(n, i))

OneCopy ==
  \A n \in Node :
    /\ Single(queue[n])
    /\ \A i \in DOMAIN needed[n] : HasCopy(queue[n], i) => needed[n][i].waiting

TransferInv == /\ TransferTypeOK /\ HistoryOK /\ OneDestination /\ Numbered
               /\ AcksTrue /\ Remembered /\ Counted /\ OneCopy

-----------------------------------------------------------------------------
(* What every action keeps, from what it does to one station or packet *)

LEMMA ToComeRange ==
  ASSUME TransferTypeOK, NEW n \in Node, NEW i \in Index
  PROVE  ToCome(n, i) \in 0 .. Tries
<1>1. Tries \in Nat \ {0}
  BY TransferAssumption
<1>2. CASE i \in DOMAIN needed[n]
  <2>1. needed[n][i].left \in 1 .. Tries
    BY <1>2 DEF TransferTypeOK, Need
  <2>2. ToCome(n, i) \in {needed[n][i].left, needed[n][i].left - 1}
    BY <1>2 DEF ToCome
  <2> QED
    BY <1>1, <2>1, <2>2
<1>3. CASE i \notin DOMAIN needed[n]
  BY <1>1, <1>3 DEF ToCome
<1> QED
  BY <1>2, <1>3

(* The head of the queue, or the place it leaves. *)
From(n, x) == IF x = n THEN 2 ELSE 1

(* A step of n that adds no packet, as the queue of x sees it: what is added *)
(* is an acknowledgement of a packet that x has received by then.            *)
QueueStep(n, x) ==
  \E a : /\ Worked(queue'[x], queue[x], From(n, x), a)
         /\ IsAck(a) => Pair(a.peer, a.index) \in got'[x]

LEMMA QueueStepKeeps ==
  ASSUME TransferInv, NEW n \in Node, \A x \in Node : QueueStep(n, x),
         \A x \in Node : got[x] \subseteq got'[x],
         queue' = [x \in Node |-> queue'[x]]
  PROVE  /\ queue' \in [Node -> Seq(Item)]
         /\ AcksTrue'
         /\ \A x \in Node : Single(queue'[x])
         /\ \A x \in Node, i \in Index : HasCopy(queue'[x], i) => HasCopy(queue[x], i)
         /\ \A x \in Node : \A j \in DOMAIN queue'[x] :
              IsPacket(queue'[x][j]) => \E k \in DOMAIN queue[x] : queue'[x][j] = queue[x][k]
<1>1. ASSUME NEW x \in Node
      PROVE  /\ queue'[x] \in Seq(Item)
             /\ \A j \in DOMAIN queue'[x] :
                  IsAck(queue'[x][j])
                    => Pair(queue'[x][j].peer, queue'[x][j].index) \in got'[x]
             /\ Single(queue'[x])
             /\ \A j \in DOMAIN queue'[x] :
                  IsPacket(queue'[x][j]) => \E k \in DOMAIN queue[x] : queue'[x][j] = queue[x][k]
  <2>1. PICK a : /\ Worked(queue'[x], queue[x], From(n, x), a)
                 /\ IsAck(a) => Pair(a.peer, a.index) \in got'[x]
    BY <1>1 DEF QueueStep
  <2>2. /\ queue'[x] \in Seq(Item) /\ queue[x] \in Seq(Item)
        /\ Kept(queue'[x], queue[x], From(n, x)) /\ AcksOf(queue'[x], queue[x], a)
    BY <2>1 DEF Worked, TransferInv, TransferTypeOK
  <2>3. From(n, x) \in Nat \ {0}
    BY DEF From
  <2>4. Single(queue'[x])
    BY <2>2, <2>3, KeptSingle DEF TransferInv, OneCopy
  <2>5. ASSUME NEW j \in DOMAIN queue'[x], IsPacket(queue'[x][j])
        PROVE  \E k \in DOMAIN queue[x] : queue'[x][j] = queue[x][k]
    BY <2>2, <2>3, <2>5, KeptPacket
  <2>6. ASSUME NEW j \in DOMAIN queue'[x], IsAck(queue'[x][j])
        PROVE  Pair(queue'[x][j].peer, queue'[x][j].index) \in got'[x]
    <3>1. CASE queue'[x][j] = a
      BY <2>1, <2>6, <3>1
    <3>2. CASE \E k \in DOMAIN queue[x] : queue'[x][j] = queue[x][k]
      <4>1. PICK k \in DOMAIN queue[x] : queue'[x][j] = queue[x][k]
        BY <3>2
      <4>2. Pair(queue[x][k].peer, queue[x][k].index) \in got[x]
        BY <2>6, <4>1 DEF TransferInv, AcksTrue
      <4> QED
        BY <4>1, <4>2
    <3> QED
      BY <2>2, <2>6, <3>1, <3>2 DEF AcksOf
  <2> QED
    BY <2>2, <2>4, <2>5, <2>6
<1>2. queue' \in [Node -> Seq(Item)]
  BY <1>1
<1>3. AcksTrue'
  BY <1>1 DEF AcksTrue
<1>4. ASSUME NEW x \in Node, NEW i \in Index, HasCopy(queue'[x], i)
      PROVE  HasCopy(queue[x], i)
  <2>1. PICK j \in DOMAIN queue'[x] : IsPacket(queue'[x][j]) /\ queue'[x][j].index = i
    BY <1>4 DEF HasCopy
  <2>2. PICK k \in DOMAIN queue[x] : queue'[x][j] = queue[x][k]
    BY <1>1, <2>1
  <2> QED
    BY <2>1, <2>2 DEF HasCopy
<1> QED
  BY <1>1, <1>2, <1>3, <1>4

(* A packet that gets no new destination keeps its destination. *)
LEMMA DestinationKept ==
  ASSUME OneDestination, Numbered, UNCHANGED nextIndex,
         \A n \in Node, i \in Index, m \in Node : Destined(n, i, m)' => Destined(n, i, m),
         \A n \in Node, i \in Index :
           i >= nextIndex[n] =>
             \/ copies'[n][i] = copies[n][i] /\ acks'[n][i] = acks[n][i]
             \/ \E m \in Node : Destined(n, i, m)
  PROVE  OneDestination' /\ Numbered'
<1>1. OneDestination'
  BY DEF OneDestination
<1>2. ASSUME NEW n \in Node, NEW i \in Index, i >= nextIndex[n]
      PROVE  /\ \A m \in Node : ~Destined(n, i, m)'
             /\ copies'[n][i] = 0 /\ acks'[n][i] = 0
  <2>1. /\ \A m \in Node : ~Destined(n, i, m)
        /\ copies[n][i] = 0 /\ acks[n][i] = 0
    BY <1>2 DEF Numbered
  <2> QED
    BY <1>2, <2>1
<1>3. Numbered'
  BY <1>2 DEF Numbered
<1> QED
  BY <1>1, <1>3

(* The packet i of n, when a step leaves its entry and its counts alone. *)
Untouched(n, i) ==
  /\ copies'[n][i] = copies[n][i] /\ acks'[n][i] = acks[n][i]
  /\ i \in DOMAIN needed'[n] <=> i \in DOMAIN needed[n]
  /\ i \in DOMAIN needed[n] => needed'[n][i] = needed[n][i]
  /\ HasCopy(queue'[n], i) => HasCopy(queue[n], i)

AccountedFor(n, i) == Accounted(ToCome(n, i), copies[n][i], acks[n][i], Started(n, i))

LEMMA UntouchedAccounted ==
  ASSUME TransferInv, NEW n \in Node, NEW i \in Index, Untouched(n, i)
  PROVE  AccountedFor(n, i)'
<1> DEFINE t == ToCome(n, i)
           u == ToCome(n, i)'
<1>1. /\ copies[n][i] \in Nat /\ acks[n][i] \in Nat /\ Tries \in Nat \ {0}
      /\ t \in 0 .. Tries
  BY ToComeRange, TransferAssumption DEF TransferInv, HistoryOK
<1>2. Accounted(t, copies[n][i], acks[n][i], Started(n, i))
  BY DEF TransferInv, Counted
<1>3. Started(n, i)' <=> Started(n, i)
  BY DEF Started, Untouched
<1>4. CASE u = t
  BY <1>2, <1>3, <1>4 DEF Accounted, AccountedFor, Untouched
<1>5. CASE /\ i \notin DOMAIN needed[n] /\ t = Tries /\ u = 0
  <2>1. Started(n, i) <=> copies[n][i] > 0
    BY <1>5 DEF Started
  <2>2. Tries * acks[n][i] \in Nat
    BY <1>1
  <2>3. copies[n][i] + u <= Tries * acks[n][i] + Tries
    BY <1>1, <1>2, <1>5, <2>2 DEF Accounted
  <2>4. ~(acks[n][i] = 0 /\ copies[n][i] > 0)
    <3>1. ASSUME acks[n][i] = 0, copies[n][i] > 0 PROVE FALSE
      <4>1. copies[n][i] + Tries = Tries
        BY <1>2, <1>5, <2>1, <3>1 DEF Accounted
      <4> QED
        BY <1>1, <3>1, <4>1
    <3> QED
      BY <3>1
  <2> QED
    BY <1>3, <2>1, <2>3, <2>4 DEF Accounted, AccountedFor, Untouched
<1>6. u = t \/ (i \notin DOMAIN needed[n] /\ t = Tries /\ u = 0)
  BY DEF ToCome, Untouched
<1> QED
  BY <1>4, <1>5, <1>6

(* What is remembered of a packet stays so while no copy of it is sent. *)
LEMMA UntouchedRemembered ==
  ASSUME TransferInv, NEW n \in Node, NEW i \in Index, Untouched(n, i), NEW m \in Node,
         Pair(m, i) \in Range(received[n]), \A x \in Node : got[x] \subseteq got'[x]
  PROVE  /\ Pair(n, i) \in got'[m]
         /\ acks'[n][i] >= 1
         /\ acks'[n][i] = 1 => i \notin DOMAIN needed'[n] /\ copies'[n][i] <= Tries
<1>1. /\ Pair(n, i) \in got[m]
      /\ acks[n][i] >= 1
      /\ acks[n][i] = 1 => i \notin DOMAIN needed[n] /\ copies[n][i] <= Tries
  BY DEF TransferInv, Remembered
<1> QED
  BY <1>1 DEF Untouched

-----------------------------------------------------------------------------
(* The actions *)

LEMMA InitTransferInv == Init => TransferInv
<1> SUFFICES ASSUME Init PROVE TransferInv
  OBVIOUS
<1>0. /\ Tries \in Nat \ {0} /\ MaxIndex \in Nat
  BY TransferAssumption
<1>1. \A n \in Node : /\ queue[n] = <<>> /\ DOMAIN needed[n] = {} /\ received[n] = <<>>
                      /\ answered[n] = <<>> /\ nextIndex[n] = 1 /\ got[n] = {}
                      /\ \A i \in Index : copies[n][i] = 0 /\ acks[n][i] = 0
  BY DEF Init
<1>2. TransferTypeOK
  <2>1. <<>> \in Seq(Item) /\ <<>> \in Seq(Node \X Index) /\ 1 \in 1 .. MaxIndex + 1
    BY <1>0
  <2>2. /\ queue \in [Node -> Seq(Item)] /\ received \in [Node -> Seq(Node \X Index)]
        /\ answered \in [Node -> Seq(Node \X Index)]
    BY <2>1 DEF Init
  <2>3. nextIndex \in [Node -> 1 .. MaxIndex + 1]
    BY <2>1 DEF Init
  <2> QED
    BY <1>1, <2>2, <2>3 DEF TransferTypeOK
<1>3. HistoryOK
  BY DEF Init, HistoryOK
<1>4. DOMAIN <<>> = {} /\ Range(<<>>) = {}
  BY DEF Range
<1>5. OneDestination /\ Numbered
  <2>1. \A n \in Node, i \in Index, m \in Node : ~Destined(n, i, m)
    BY <1>1, <1>4 DEF Destined
  <2> QED
    BY <1>1, <2>1 DEF OneDestination, Numbered
<1>6. AcksTrue /\ Remembered /\ OneCopy
  BY <1>1, <1>4 DEF AcksTrue, Remembered, OneCopy, Single
<1>7. Counted
  <2>1. ASSUME NEW n \in Node, NEW i \in Index
        PROVE  Accounted(ToCome(n, i), copies[n][i], acks[n][i], Started(n, i))
    <3>1. ToCome(n, i) = 0 /\ copies[n][i] = 0 /\ acks[n][i] = 0
      BY <1>1, <1>4 DEF ToCome, HasCopy
    <3>2. ~Started(n, i)
      BY <1>1, <3>1 DEF Started
    <3> QED
      BY <1>0, <3>1, <3>2 DEF Accounted
  <2> QED
    BY <2>1 DEF Counted
<1> QED
  BY <1>2, <1>3, <1>5, <1>6, <1>7 DEF TransferInv

(* The queues after the head of the queue of n is taken. *)
LEMMA HeadTaken ==
  ASSUME TransferTypeOK, NEW n \in Node, queue[n] # <<>>, NEW a,
         NEW q, q = [queue EXCEPT ![n] = Tail(@)], NEW x \in Node
  PROVE  q \in [Node -> Seq(Item)] /\ Worked(q[x], queue[x], From(n, x), a)
<1>1. queue \in [Node -> Seq(Item)] /\ queue[n] \in Seq(Item) /\ queue[x] \in Seq(Item)
  BY DEF TransferTypeOK
<1>2. Tail(queue[n]) \in Seq(Item)
  BY <1>1
<1>3. q \in [Node -> Seq(Item)]
  BY <1>1, <1>2
<1>4. CASE x = n
  BY <1>1, <1>4, TailWorked DEF From
<1>5. CASE x # n
  BY <1>1, <1>5, SameWorked DEF From
<1> QED
  BY <1>3, <1>4, <1>5

(* The packet at the head, its destination and what is known of both. *)
LEMMA HeadPacket ==
  ASSUME TransferInv, NEW n \in Node, queue[n] # <<>>, NEW e, e = Head(queue[n]), IsPacket(e)
  PROVE  /\ e \in Item /\ e.peer \in Node /\ e.index \in Index
         /\ 1 \in DOMAIN queue[n] /\ queue[n][1] = e
         /\ HasCopy(queue[n], e.index)
         /\ Destined(n, e.index, e.peer)
<1>1. queue[n] \in Seq(Item)
  BY DEF TransferInv, TransferTypeOK
<1>2. e \in Item /\ 1 \in DOMAIN queue[n] /\ queue[n][1] = e
  BY <1>1
<1>3. e.peer \in Node /\ e.index \in Index
  BY <1>2 DEF Item
<1> QED
  BY <1>2, <1>3 DEF HasCopy, Destined

(* What TransmitPacket does to the queues, and to what was received. *)
LEMMA TransmitPacketQueues ==
  ASSUME TransferInv, NEW n \in Node, TransmitPacket(n), NEW e, e = Head(queue[n])
  PROVE  /\ \A x \in Node : QueueStep(n, x)
         /\ queue' = [x \in Node |-> queue'[x]]
         /\ \A x \in Node : got[x] \subseteq got'[x]
         /\ \A x \in Node, y \in Node, i \in Index :
              Pair(y, i) \in got'[x] => \/ Pair(y, i) \in got[x]
                                        \/ y = n /\ i = e.index /\ x = e.peer
         /\ got' \in [Node -> SUBSET (Node \X Index)]
         /\ answered' \in [Node -> Seq(Node \X Index)]
<1>1. queue[n] # <<>> /\ IsPacket(e)
  BY DEF TransmitPacket, IsPacket
<1>2. /\ e \in Item /\ e.peer \in Node /\ e.index \in Index
  BY <1>1, HeadPacket
<1>3. PICK q : q = [queue EXCEPT ![n] = Tail(@)]
  OBVIOUS
<1>4. /\ q \in [Node -> Seq(Item)]
      /\ \A x \in Node : \A a : Worked(q[x], queue[x], From(n, x), a)
  BY <1>1, <1>3, HeadTaken DEF TransferInv
<1>5. \/ queue' = q /\ UNCHANGED <<answered, got>>
      \/ /\ Answer(e.peer, n, e.index, q)
         /\ got' = [got EXCEPT ![e.peer] = @ \cup {Pair(n, e.index)}]
  BY <1>3 DEF TransmitPacket
<1>6. ~IsAck(e)
  BY <1>1 DEF IsAck, IsPacket
<1>7. /\ got \in [Node -> SUBSET (Node \X Index)]
      /\ answered \in [Node -> Seq(Node \X Index)]
      /\ Pair(n, e.index) \in Node \X Index
  BY <1>2 DEF TransferInv, HistoryOK, TransferTypeOK, Pair
<1>8. CASE queue' = q /\ UNCHANGED <<answered, got>>
  <2>1. \A x \in Node : QueueStep(n, x)
    BY <1>4, <1>6, <1>8 DEF QueueStep
  <2> QED
    BY <1>4, <1>7, <1>8, <2>1
<1>9. CASE /\ Answer(e.peer, n, e.index, q)
           /\ got' = [got EXCEPT ![e.peer] = @ \cup {Pair(n, e.index)}]
  <2>1. /\ got' \in [Node -> SUBSET (Node \X Index)]
        /\ \A x \in Node : got[x] \subseteq got'[x]
        /\ \A x \in Node, y \in Node, i \in Index :
             Pair(y, i) \in got'[x] => \/ Pair(y, i) \in got[x]
                                       \/ y = n /\ i = e.index /\ x = e.peer
        /\ Pair(n, e.index) \in got'[e.peer]
    BY <1>2, <1>7, <1>9 DEF Pair
  <2>2. CASE Pair(n, e.index) \in Range(answered[e.peer])
    <3>1. queue' = q /\ UNCHANGED answered
      BY <1>9, <2>2 DEF Answer
    <3>2. \A x \in Node : QueueStep(n, x)
      BY <1>4, <1>6, <3>1 DEF QueueStep
    <3> QED
      BY <1>4, <1>7, <2>1, <3>1, <3>2
  <2>3. CASE Pair(n, e.index) \notin Range(answered[e.peer])
    <3>1. PICK a : a = [kind |-> "ACK", peer |-> n, index |-> e.index]
      OBVIOUS
    <3>2. /\ answered' = [answered EXCEPT ![e.peer] = Pushed(@, Pair(n, e.index))]
          /\ queue' = [q EXCEPT ![e.peer] = <<a>> \o @]
      BY <1>9, <2>3, <3>1 DEF Answer
    <3>3. a \in Item /\ IsAck(a) /\ a.peer = n /\ a.index = e.index
      BY <1>2, <3>1 DEF Item, IsAck
    <3>4. answered' \in [Node -> Seq(Node \X Index)]
      <4>1. Pushed(answered[e.peer], Pair(n, e.index)) \in Seq(Node \X Index)
        BY <1>2, <1>7, PushedShape
      <4> QED
        BY <1>2, <1>7, <3>2, <4>1
    <3>5. queue' = [x \in Node |-> queue'[x]]
      BY <1>4, <3>2
    <3>6. ASSUME NEW x \in Node PROVE QueueStep(n, x)
      <4>1. CASE x = e.peer
        <5>1. queue'[x] = <<a>> \o q[x]
          BY <1>4, <3>2, <4>1
        <5>2. queue[x] \in Seq(Item) /\ From(n, x) \in Nat
          BY DEF TransferInv, TransferTypeOK, From
        <5>3. Worked(queue'[x], queue[x], From(n, x), a)
          BY <1>4, <3>3, <5>1, <5>2, FrontWorked
        <5> QED
          BY <2>1, <3>3, <4>1, <5>3 DEF QueueStep
      <4>2. CASE x # e.peer
        <5>1. queue'[x] = q[x]
          BY <1>4, <3>2, <4>2
        <5> QED
          BY <1>4, <1>6, <5>1 DEF QueueStep
      <4> QED
        BY <4>1, <4>2
    <3> QED
      BY <2>1, <3>4, <3>5, <3>6
  <2> QED
    BY <2>2, <2>3
<1> QED
  BY <1>5, <1>8, <1>9

(* The entry of a packet that is transmitted. *)
LEMMA TransmitPacketEntry ==
  ASSUME TransferInv, NEW n \in Node, TransmitPacket(n), NEW e, e = Head(queue[n])
  PROVE  /\ e.index \in Index /\ e.peer \in Node
         /\ HasCopy(queue[n], e.index) /\ Destined(n, e.index, e.peer)
         /\ DOMAIN needed' = Node
         /\ \A x \in Node \ {n} : needed'[x] = needed[x]
         /\ DOMAIN needed'[n] = DOMAIN needed[n] \cup {e.index}
         /\ \A j \in DOMAIN needed[n] \ {e.index} : needed'[n][j] = needed[n][j]
         /\ needed'[n][e.index] \in Need /\ ~needed'[n][e.index].waiting
         /\ Destined(n, e.index, needed'[n][e.index].peer)
         /\ needed'[n][e.index].left = ToCome(n, e.index)
         /\ e.index \notin DOMAIN needed[n] => ToCome(n, e.index) = Tries
<1>1. queue[n] # <<>> /\ IsPacket(e)
  BY DEF TransmitPacket, IsPacket
<1>2. /\ e \in Item /\ e.peer \in Node /\ e.index \in Index
      /\ HasCopy(queue[n], e.index) /\ Destined(n, e.index, e.peer)
  BY <1>1, HeadPacket
<1>3. PICK entry : entry = NeedAfter(n, e)
  OBVIOUS
<1>4. needed' = Entered(n, e.index, entry)
  BY <1>3 DEF TransmitPacket
<1>5. DOMAIN needed = Node
  BY DEF TransferInv, HistoryOK
<1>6. /\ DOMAIN needed' = Node
      /\ \A x \in Node \ {n} : needed'[x] = needed[x]
      /\ DOMAIN needed'[n] = DOMAIN needed[n] \cup {e.index}
      /\ needed'[n][e.index] = entry
      /\ \A j \in DOMAIN needed[n] \ {e.index} : needed'[n][j] = needed[n][j]
  BY <1>4, <1>5, EnteredShape
<1>7. /\ entry \in Need /\ ~entry.waiting /\ Destined(n, e.index, entry.peer)
      /\ entry.left = ToCome(n, e.index)
      /\ e.index \notin DOMAIN needed[n] => ToCome(n, e.index) = Tries
  <2>1. CASE e.index \in DOMAIN needed[n]
    <3>1. PICK old : old = needed[n][e.index]
      OBVIOUS
    <3>2. old \in Need /\ old.waiting
      BY <1>2, <2>1, <3>1 DEF TransferInv, TransferTypeOK, OneCopy
    <3>3. entry = [old EXCEPT !.waiting = FALSE]
      BY <1>3, <2>1, <3>1 DEF NeedAfter
    <3>4. entry \in Need /\ entry.peer = old.peer /\ entry.left = old.left /\ ~entry.waiting
      BY <3>2, <3>3 DEF Need
    <3>5. Destined(n, e.index, old.peer)
      BY <2>1, <3>1 DEF Destined
    <3>6. ToCome(n, e.index) = old.left
      BY <2>1, <3>1, <3>2 DEF ToCome
    <3> QED
      BY <2>1, <3>4, <3>5, <3>6
  <2>2. CASE e.index \notin DOMAIN needed[n]
    <3>1. entry = [peer |-> e.peer, left |-> Tries, waiting |-> FALSE]
      BY <1>3, <2>2 DEF NeedAfter
    <3>2. Tries \in 1 .. Tries
      BY TransferAssumption
    <3>3. entry \in Need /\ entry.peer = e.peer /\ entry.left = Tries /\ ~entry.waiting
      BY <1>2, <3>1, <3>2 DEF Need
    <3>4. ToCome(n, e.index) = Tries
      BY <1>2, <2>2 DEF ToCome
    <3> QED
      BY <1>2, <3>3, <3>4
  <2> QED
    BY <2>1, <2>2
<1> QED
  BY <1>2, <1>6, <1>7

(* The arithmetic of a transmission and of an acknowledgement. *)
LEMMA AccountedTransmission ==
  ASSUME NEW t \in 1 .. Tries, NEW c \in Nat, NEW a \in Nat, NEW started \in BOOLEAN,
         Accounted(t, c, a, started), ~started => t = Tries /\ c = 0
  PROVE  Accounted(t - 1, c + 1, a, TRUE)
<1>1. Tries \in Nat /\ Tries * a \in Nat
  BY TransferAssumption
<1>2. (c + 1) + (t - 1) = c + t
  OBVIOUS
<1>3. ASSUME a = 0 PROVE c + t = Tries
  <2>1. CASE started
    BY <1>3, <2>1 DEF Accounted
  <2>2. CASE ~started
    BY <1>1, <2>2
  <2> QED
    BY <2>1, <2>2
<1>4. c + t <= Tries * a + Tries
  BY DEF Accounted
<1> QED
  BY <1>2, <1>3, <1>4 DEF Accounted

LEMMA AccountedAcknowledgement ==
  ASSUME NEW t \in Nat, NEW u \in 0 .. Tries, NEW c \in Nat, NEW a \in Nat,
         NEW started, NEW s, Accounted(t, c, a, started)
  PROVE  Accounted(u, c, a + 1, s)
<1>1. Tries \in Nat /\ Tries * a \in Nat
  BY TransferAssumption
<1>2. Tries * (a + 1) = Tries * a + Tries
  BY <1>1
<1>3. c + t <= Tries * a + Tries
  BY DEF Accounted
<1>4. c + u <= Tries * (a + 1) + Tries
  BY <1>1, <1>2, <1>3
<1>5. a + 1 # 0
  OBVIOUS
<1> QED
  BY <1>4, <1>5 DEF Accounted

(* A packet that is transmitted is not one that is remembered. *)
LEMMA TransmittedNotRemembered ==
  ASSUME TransferInv, NEW n \in Node, TransmitPacket(n), NEW e, e = Head(queue[n]),
         NEW m \in Node
  PROVE  Pair(m, e.index) \notin Range(received[n])
<1> SUFFICES ASSUME Pair(m, e.index) \in Range(received[n]) PROVE FALSE
  OBVIOUS
<1>1. e.index \in Index /\ e.peer \in Node /\ Destined(n, e.index, e.peer)
  BY TransmitPacketEntry
<1>2. Pair(n, e.index) \in got[m]
  BY <1>1 DEF TransferInv, Remembered
<1>3. m = e.peer
  BY <1>1, <1>2 DEF TransferInv, OneDestination, Destined
<1>4. ~Acknowledged(n, e)
  BY DEF TransmitPacket
<1> QED
  BY <1>3, <1>4 DEF Acknowledged

LEMMA TransmitPacketInv ==
  ASSUME TransferInv, NEW n \in Node, TransmitPacket(n) PROVE TransferInv'
<1>0. PICK e : e = Head(queue[n])
  OBVIOUS
<1>1. /\ e.index \in Index /\ e.peer \in Node
      /\ HasCopy(queue[n], e.index) /\ Destined(n, e.index, e.peer)
      /\ DOMAIN needed' = Node
      /\ \A x \in Node \ {n} : needed'[x] = needed[x]
      /\ DOMAIN needed'[n] = DOMAIN needed[n] \cup {e.index}
      /\ \A j \in DOMAIN needed[n] \ {e.index} : needed'[n][j] = needed[n][j]
      /\ needed'[n][e.index] \in Need /\ ~needed'[n][e.index].waiting
      /\ Destined(n, e.index, needed'[n][e.index].peer)
      /\ needed'[n][e.index].left = ToCome(n, e.index)
      /\ e.index \notin DOMAIN needed[n] => ToCome(n, e.index) = Tries
  BY <1>0, TransmitPacketEntry
<1>2. /\ \A x \in Node : QueueStep(n, x)
      /\ queue' = [x \in Node |-> queue'[x]]
      /\ \A x \in Node : got[x] \subseteq got'[x]
      /\ \A x \in Node, y \in Node, i \in Index :
           Pair(y, i) \in got'[x] => \/ Pair(y, i) \in got[x]
                                     \/ y = n /\ i = e.index /\ x = e.peer
      /\ got' \in [Node -> SUBSET (Node \X Index)]
      /\ answered' \in [Node -> Seq(Node \X Index)]
  BY <1>0, TransmitPacketQueues
<1>3. /\ queue' \in [Node -> Seq(Item)]
      /\ AcksTrue'
      /\ \A x \in Node : Single(queue'[x])
      /\ \A x \in Node, i \in Index : HasCopy(queue'[x], i) => HasCopy(queue[x], i)
      /\ \A x \in Node : \A j \in DOMAIN queue'[x] :
           IsPacket(queue'[x][j]) => \E k \in DOMAIN queue[x] : queue'[x][j] = queue[x][k]
  BY <1>2, QueueStepKeeps
<1>4. /\ UNCHANGED <<received, nextIndex, acks>>
      /\ copies' = [copies EXCEPT ![n][e.index] = @ + 1]
  BY <1>0 DEF TransmitPacket
<1>5. /\ copies \in [Node -> [Index -> Nat]] /\ acks \in [Node -> [Index -> Nat]]
      /\ DOMAIN needed = Node
  BY DEF TransferInv, HistoryOK
<1>6. /\ copies' \in [Node -> [Index -> Nat]]
      /\ copies'[n][e.index] = copies[n][e.index] + 1
      /\ \A x \in Node, i \in Index :
           ~(x = n /\ i = e.index) => copies'[x][i] = copies[x][i]
  BY <1>1, <1>4, <1>5
<1>7. \A x \in Node, i \in Index : ~(x = n /\ i = e.index) => Untouched(x, i)
  BY <1>1, <1>3, <1>4, <1>6 DEF Untouched
<1>8. ~HasCopy(queue'[n], e.index)
  <2>1. queue[n] # <<>> /\ IsPacket(e)
    BY <1>0 DEF TransmitPacket, IsPacket
  <2>2. /\ queue[n] \in Seq(Item) /\ queue'[n] \in Seq(Item) /\ Single(queue[n])
    BY <1>3 DEF TransferInv, TransferTypeOK, OneCopy
  <2>3. queue[n][1] = e
    BY <1>0, <2>1, HeadPacket
  <2>4. Kept(queue'[n], queue[n], 2)
    BY <1>2 DEF QueueStep, Worked, From
  <2> QED
    BY <2>1, <2>2, <2>3, <2>4, HeadGone
<1>9. TransferTypeOK'
  <2>1. ASSUME NEW x \in Node
        PROVE  /\ DOMAIN needed'[x] \subseteq Index
               /\ \A i \in DOMAIN needed'[x] : needed'[x][i] \in Need
    <3>1. DOMAIN needed[x] \subseteq Index /\ \A i \in DOMAIN needed[x] : needed[x][i] \in Need
      BY DEF TransferInv, TransferTypeOK
    <3>2. CASE x = n
      BY <1>1, <3>1, <3>2
    <3>3. CASE x # n
      BY <1>1, <3>1, <3>3
    <3> QED
      BY <3>2, <3>3
  <2> QED
    BY <1>2, <1>3, <1>4, <2>1 DEF TransferInv, TransferTypeOK
<1>10. HistoryOK'
  BY <1>1, <1>2, <1>4, <1>5, <1>6 DEF HistoryOK
<1>11. OneDestination' /\ Numbered'
  <2>1. ASSUME NEW x \in Node, NEW i \in Index, NEW m \in Node, Destined(x, i, m)'
        PROVE  Destined(x, i, m)
    <3>1. CASE Pair(x, i) \in got'[m]
      BY <1>1, <1>2, <3>1 DEF Destined
    <3>2. CASE i \in DOMAIN needed'[x] /\ needed'[x][i].peer = m
      BY <1>1, <3>2 DEF Destined
    <3>3. CASE \E j \in DOMAIN queue'[x] :
                 IsPacket(queue'[x][j]) /\ queue'[x][j].index = i /\ queue'[x][j].peer = m
      BY <1>3, <3>3 DEF Destined
    <3> QED
      BY <2>1, <3>1, <3>2, <3>3 DEF Destined
  <2>2. ASSUME NEW x \in Node, NEW i \in Index
        PROVE  \/ copies'[x][i] = copies[x][i] /\ acks'[x][i] = acks[x][i]
               \/ \E m \in Node : Destined(x, i, m)
    BY <1>1, <1>4, <1>6
  <2> QED
    BY <1>4, <2>1, <2>2, DestinationKept DEF TransferInv
<1>12. Remembered'
  <2>1. ASSUME NEW x \in Node, NEW m \in Node, NEW i \in Index, Pair(m, i) \in Range(received[x])
        PROVE  /\ Pair(x, i) \in got'[m]
               /\ acks'[x][i] >= 1
               /\ acks'[x][i] = 1 => i \notin DOMAIN needed'[x] /\ copies'[x][i] <= Tries
    <3>1. ~(x = n /\ i = e.index)
      BY <1>0, <2>1, TransmittedNotRemembered
    <3> QED
      BY <1>2, <1>7, <2>1, <3>1, UntouchedRemembered
  <2> QED
    BY <1>4, <2>1 DEF Remembered
<1>13. Counted'
  <2>1. AccountedFor(n, e.index)'
    <3>1. PICK t, c, a, st : /\ t = ToCome(n, e.index) /\ c = copies[n][e.index]
                             /\ a = acks[n][e.index] /\ st = Started(n, e.index)
      OBVIOUS
    <3>2. t \in 1 .. Tries /\ c \in Nat /\ a \in Nat /\ st \in BOOLEAN
      <4>1. needed'[n][e.index].left \in 1 .. Tries
        BY <1>1 DEF Need
      <4> QED
        BY <1>1, <1>5, <3>1, <4>1 DEF Started
    <3>3. Accounted(t, c, a, st)
      BY <1>1, <3>1 DEF TransferInv, Counted
    <3>4. ASSUME ~st PROVE t = Tries /\ c = 0
      <4>1. ~(copies[n][e.index] > 0) /\ e.index \notin DOMAIN needed[n]
        BY <3>1, <3>4 DEF Started
      <4>2. ~(c > 0) /\ c \in Nat
        BY <3>1, <3>2, <4>1
      <4>3. c = 0
        BY <4>2
      <4> QED
        BY <1>1, <3>1, <4>1, <4>3
    <3>5. Accounted(t - 1, c + 1, a, TRUE)
      BY <3>2, <3>3, <3>4, AccountedTransmission
    <3>6. ToCome(n, e.index)' = t - 1
      BY <1>1, <3>1 DEF ToCome
    <3>7. Started(n, e.index)' = TRUE
      BY <1>1 DEF Started
    <3> QED
      BY <1>4, <1>6, <3>1, <3>5, <3>6, <3>7 DEF AccountedFor, Accounted
  <2>2. ASSUME NEW x \in Node, NEW i \in Index PROVE AccountedFor(x, i)'
    BY <1>7, <2>1, UntouchedAccounted
  <2> QED
    BY <2>2 DEF Counted, AccountedFor
<1>14. OneCopy'
  <2>1. ASSUME NEW x \in Node, NEW i \in DOMAIN needed'[x], HasCopy(queue'[x], i)
        PROVE  needed'[x][i].waiting
    <3>1. i \in Index
      BY <1>9 DEF TransferTypeOK
    <3>2. ~(x = n /\ i = e.index)
      BY <1>8, <2>1
    <3>3. Untouched(x, i)
      BY <1>7, <3>1, <3>2
    <3> QED
      BY <2>1, <3>3 DEF Untouched, TransferInv, OneCopy
  <2> QED
    BY <1>3, <2>1 DEF OneCopy
<1> QED
  BY <1>3, <1>9, <1>10, <1>11, <1>12, <1>13, <1>14 DEF TransferInv

(* The queue is emptied behind a packet that is acknowledged already. *)
LEMMA SkipAcknowledgedInv ==
  ASSUME TransferInv, NEW n \in Node, SkipAcknowledged(n) PROVE TransferInv'
<1>1. /\ queue' = [queue EXCEPT ![n] = <<>>]
      /\ UNCHANGED <<needed, received, answered, nextIndex, copies, acks, got>>
  BY DEF SkipAcknowledged, history
<1>2. queue \in [Node -> Seq(Item)]
  BY DEF TransferInv, TransferTypeOK
<1>3. ASSUME NEW x \in Node PROVE QueueStep(n, x)
  <2>1. PICK a : a = [kind |-> "PACKET"]
    OBVIOUS
  <2>2. ~IsAck(a)
    BY <2>1 DEF IsAck
  <2>3. CASE x = n
    <3>1. queue'[x] = <<>> /\ <<>> \in Seq(Item) /\ DOMAIN <<>> = {}
      BY <1>1, <1>2, <2>3
    <3>2. Kept(queue'[x], queue[x], From(n, x))
      BY <3>1, 0 \in Int DEF Kept
    <3>3. AcksOf(queue'[x], queue[x], a)
      BY <3>1 DEF AcksOf
    <3> QED
      BY <2>2, <3>1, <3>2, <3>3 DEF QueueStep, Worked
  <2>4. CASE x # n
    <3>1. queue'[x] = queue[x] /\ queue[x] \in Seq(Item) /\ From(n, x) = 1
      BY <1>1, <1>2, <2>4 DEF From
    <3> QED
      BY <2>2, <3>1, SameWorked DEF QueueStep
  <2> QED
    BY <2>3, <2>4
<1>4. /\ queue' \in [Node -> Seq(Item)]
      /\ AcksTrue'
      /\ \A x \in Node : Single(queue'[x])
      /\ \A x \in Node, i \in Index : HasCopy(queue'[x], i) => HasCopy(queue[x], i)
      /\ \A x \in Node : \A j \in DOMAIN queue'[x] :
           IsPacket(queue'[x][j]) => \E k \in DOMAIN queue[x] : queue'[x][j] = queue[x][k]
  <2>1. queue' = [x \in Node |-> queue'[x]]
    BY <1>1, <1>2
  <2>2. \A x \in Node : got[x] \subseteq got'[x]
    BY <1>1
  <2> QED
    BY <1>3, <2>1, <2>2, QueueStepKeeps
<1>5. \A x \in Node, i \in Index : Untouched(x, i)
  BY <1>1, <1>4 DEF Untouched
<1>6. TransferTypeOK' /\ HistoryOK'
  BY <1>1, <1>4 DEF TransferInv, TransferTypeOK, HistoryOK
<1>7. OneDestination' /\ Numbered'
  <2>1. ASSUME NEW x \in Node, NEW i \in Index, NEW m \in Node, Destined(x, i, m)'
        PROVE  Destined(x, i, m)
    BY <1>1, <1>4, <2>1 DEF Destined
  <2> QED
    BY <1>1, <2>1, DestinationKept DEF TransferInv
<1>8. Remembered'
  BY <1>1 DEF Remembered, TransferInv
<1>9. Counted'
  BY <1>5, UntouchedAccounted DEF Counted, AccountedFor
<1>10. OneCopy'
  <2>1. ASSUME NEW x \in Node, NEW i \in DOMAIN needed'[x], HasCopy(queue'[x], i)
        PROVE  needed'[x][i].waiting
    <3>1. i \in Index
      BY <1>6 DEF TransferTypeOK
    <3> QED
      BY <1>1, <1>4, <2>1, <3>1 DEF TransferInv, OneCopy
  <2> QED
    BY <1>4, <2>1 DEF OneCopy
<1> QED
  BY <1>4, <1>6, <1>7, <1>8, <1>9, <1>10 DEF TransferInv

(* An acknowledgement leaves the queue of n; it may reach its station. *)
LEMMA TransmitAckInv ==
  ASSUME TransferInv, NEW n \in Node, TransmitAck(n) PROVE TransferInv'
<1>0. PICK e : e = Head(queue[n])
  OBVIOUS
<1>1. /\ queue[n] # <<>> /\ IsAck(e)
      /\ queue' = [queue EXCEPT ![n] = Tail(@)]
      /\ Struck(n, Pair(e.peer, e.index))
      /\ UNCHANGED <<nextIndex, copies, got>>
      /\ UNCHANGED <<received, needed, acks>> \/ Accept(e.peer, e.index)
  BY <1>0 DEF TransmitAck, IsAck
<1>2. /\ queue \in [Node -> Seq(Item)] /\ queue[n] \in Seq(Item)
      /\ answered \in [Node -> Seq(Node \X Index)]
      /\ received \in [Node -> Seq(Node \X Index)]
  BY DEF TransferInv, TransferTypeOK
<1>3. /\ e \in Item /\ e.peer \in Node /\ e.index \in Index
      /\ Pair(e.peer, e.index) \in got[n]
  <2>1. 1 \in DOMAIN queue[n] /\ queue[n][1] = e /\ e \in Item
    BY <1>0, <1>1, <1>2
  <2> QED
    BY <1>1, <2>1 DEF TransferInv, AcksTrue, Item
<1>4. ASSUME NEW x \in Node PROVE QueueStep(n, x)
  <2>1. PICK a : a = [kind |-> "PACKET"]
    OBVIOUS
  <2>2. ~IsAck(a)
    BY <2>1 DEF IsAck
  <2>3. Worked(queue'[x], queue[x], From(n, x), a)
    BY <1>1, HeadTaken DEF TransferInv
  <2> QED
    BY <2>2, <2>3 DEF QueueStep
<1>5. /\ queue' \in [Node -> Seq(Item)]
      /\ AcksTrue'
      /\ \A x \in Node : Single(queue'[x])
      /\ \A x \in Node, i \in Index : HasCopy(queue'[x], i) => HasCopy(queue[x], i)
      /\ \A x \in Node : \A j \in DOMAIN queue'[x] :
           IsPacket(queue'[x][j]) => \E k \in DOMAIN queue[x] : queue'[x][j] = queue[x][k]
  <2>1. queue' = [x \in Node |-> queue'[x]]
    BY <1>1, <1>2
  <2>2. \A x \in Node : got[x] \subseteq got'[x]
    BY <1>1
  <2> QED
    BY <1>4, <2>1, <2>2, QueueStepKeeps
<1>6. answered' \in [Node -> Seq(Node \X Index)]
  <2>1. CASE UNCHANGED answered
    BY <1>2, <2>1
  <2>2. CASE \E k \in DOMAIN answered[n] : answered' = [answered EXCEPT ![n] = RemoveAt(@, k)]
    <3>1. PICK k \in DOMAIN answered[n] : answered' = [answered EXCEPT ![n] = RemoveAt(@, k)]
      BY <2>2
    <3>2. RemoveAt(answered[n], k) \in Seq(Node \X Index)
      BY <1>2, StruckShape
    <3> QED
      BY <1>2, <3>1, <3>2
  <2> QED
    BY <1>1, <2>1, <2>2 DEF Struck
<1>7. CASE UNCHANGED <<received, needed, acks>>
  <2>1. \A x \in Node, i \in Index : Untouched(x, i)
    BY <1>1, <1>5, <1>7 DEF Untouched
  <2>2. TransferTypeOK' /\ HistoryOK'
    BY <1>1, <1>5, <1>6, <1>7 DEF TransferInv, TransferTypeOK, HistoryOK
  <2>3. OneDestination' /\ Numbered'
    <3>1. ASSUME NEW x \in Node, NEW i \in Index, NEW m \in Node, Destined(x, i, m)'
          PROVE  Destined(x, i, m)
      BY <1>1, <1>5, <1>7, <3>1 DEF Destined
    <3> QED
      BY <1>1, <1>7, <3>1, DestinationKept DEF TransferInv
  <2>4. Remembered'
    BY <1>1, <1>7 DEF Remembered, TransferInv
  <2>5. Counted'
    BY <2>1, UntouchedAccounted DEF Counted, AccountedFor
  <2>6. OneCopy'
    <3>1. ASSUME NEW x \in Node, NEW i \in DOMAIN needed'[x], HasCopy(queue'[x], i)
          PROVE  needed'[x][i].waiting
      <4>1. i \in Index
        BY <2>2 DEF TransferTypeOK
      <4> QED
        BY <1>5, <1>7, <3>1, <4>1 DEF TransferInv, OneCopy
    <3> QED
      BY <1>5, <3>1 DEF OneCopy
  <2> QED
    BY <1>5, <2>2, <2>3, <2>4, <2>5, <2>6 DEF TransferInv
<1>8. CASE e.index \in DOMAIN needed[e.peer] /\ Accept(e.peer, e.index)
  <2>0. PICK p, i : p = e.peer /\ i = e.index
    OBVIOUS
  <2>1. /\ received' = [received EXCEPT ![p] = Pushed(@, Pair(needed[p][i].peer, i))]
        /\ needed' = Erased(p, i)
        /\ acks' = [acks EXCEPT ![p][i] = @ + 1]
        /\ p \in Node /\ i \in Index /\ i \in DOMAIN needed[p]
    BY <1>3, <1>8, <2>0 DEF Accept
  <2>2. needed[p][i] \in Need /\ needed[p][i].peer \in Node
    BY <2>1 DEF TransferInv, TransferTypeOK, Need
  <2>3. needed[p][i].peer = n
    BY <1>3, <2>0, <2>1, <2>2 DEF TransferInv, OneDestination, Destined
  <2>4. /\ acks \in [Node -> [Index -> Nat]] /\ DOMAIN needed = Node
        /\ copies \in [Node -> [Index -> Nat]]
    BY DEF TransferInv, HistoryOK
  <2>5. /\ DOMAIN needed' = Node
        /\ \A x \in Node \ {p} : needed'[x] = needed[x]
        /\ DOMAIN needed'[p] = DOMAIN needed[p] \ {i}
        /\ \A j \in DOMAIN needed[p] \ {i} : needed'[p][j] = needed[p][j]
    BY <2>1, <2>4, ErasedShape
  <2>6. /\ acks' \in [Node -> [Index -> Nat]]
        /\ acks'[p][i] = acks[p][i] + 1
        /\ \A x \in Node, j \in Index : ~(x = p /\ j = i) => acks'[x][j] = acks[x][j]
    BY <2>1, <2>4
  <2>7. /\ received' \in [Node -> Seq(Node \X Index)]
        /\ \A x \in Node \ {p} : received'[x] = received[x]
        /\ Range(received'[p]) \subseteq Range(received[p]) \cup {Pair(n, i)}
    <3>1. Pair(n, i) \in Node \X Index /\ received[p] \in Seq(Node \X Index)
      BY <1>2, <2>1 DEF Pair
    <3>2. /\ Pushed(received[p], Pair(n, i)) \in Seq(Node \X Index)
          /\ Range(Pushed(received[p], Pair(n, i))) \subseteq Range(received[p]) \cup {Pair(n, i)}
      BY <3>1, PushedShape
    <3> QED
      BY <1>2, <2>1, <2>3, <3>2
  <2>8. \A x \in Node, j \in Index : ~(x = p /\ j = i) => Untouched(x, j)
    BY <1>1, <1>5, <2>5, <2>6 DEF Untouched
  <2>9. TransferTypeOK'
    <3>1. ASSUME NEW x \in Node
          PROVE  /\ DOMAIN needed'[x] \subseteq Index
                 /\ \A j \in DOMAIN needed'[x] : needed'[x][j] \in Need
      <4>1. DOMAIN needed[x] \subseteq Index /\ \A j \in DOMAIN needed[x] : needed[x][j] \in Need
        BY DEF TransferInv, TransferTypeOK
      <4> QED
        BY <2>5, <4>1
    <3> QED
      BY <1>1, <1>5, <1>6, <2>7, <3>1 DEF TransferInv, TransferTypeOK
  <2>10. HistoryOK'
    BY <1>1, <2>5, <2>6 DEF TransferInv, HistoryOK
  <2>11. OneDestination' /\ Numbered'
    <3>1. ASSUME NEW x \in Node, NEW j \in Index, NEW m \in Node, Destined(x, j, m)'
          PROVE  Destined(x, j, m)
      <4>1. CASE Pair(x, j) \in got'[m]
        BY <1>1, <4>1 DEF Destined
      <4>2. CASE j \in DOMAIN needed'[x] /\ needed'[x][j].peer = m
        BY <2>5, <4>2 DEF Destined
      <4>3. CASE \E k \in DOMAIN queue'[x] :
                   IsPacket(queue'[x][k]) /\ queue'[x][k].index = j /\ queue'[x][k].peer = m
        BY <1>5, <4>3 DEF Destined
      <4> QED
        BY <3>1, <4>1, <4>2, <4>3 DEF Destined
    <3>2. Destined(p, i, n)
      BY <2>1, <2>3 DEF Destined
    <3>3. ASSUME NEW x \in Node, NEW j \in Index
          PROVE  \/ copies'[x][j] = copies[x][j] /\ acks'[x][j] = acks[x][j]
                 \/ \E m \in Node : Destined(x, j, m)
      BY <1>1, <2>6, <3>2
    <3> QED
      BY <1>1, <3>1, <3>3, DestinationKept DEF TransferInv
  <2>12. Accounted(ToCome(p, i), copies[p][i], acks[p][i], Started(p, i)) /\ Started(p, i)
    BY <2>1 DEF TransferInv, Counted, Started
  <2>13. ToCome(p, i) \in 0 .. Tries
    BY <2>1, ToComeRange DEF TransferInv
  <2>14. Remembered'
    <3>1. ASSUME NEW x \in Node, NEW m \in Node, NEW j \in Index, Pair(m, j) \in Range(received'[x])
          PROVE  /\ Pair(x, j) \in got'[m]
                 /\ acks'[x][j] >= 1
                 /\ acks'[x][j] = 1 => j \notin DOMAIN needed'[x] /\ copies'[x][j] <= Tries
      <4>1. CASE ~(x = p /\ j = i)
        <5>1. Pair(m, j) \in Range(received[x])
          <6>1. CASE x = p
            <7>1. Pair(m, j) # Pair(n, i)
              BY <4>1, <6>1 DEF Pair
            <7> QED
              BY <2>7, <3>1, <6>1, <7>1
          <6>2. CASE x # p
            BY <2>7, <3>1, <6>2
          <6> QED
            BY <6>1, <6>2
        <5> QED
          BY <1>1, <2>8, <4>1, <5>1, UntouchedRemembered
      <4>2. CASE x = p /\ j = i
        <5>1. Pair(x, j) \in got[m]
          <6>1. CASE Pair(m, j) = Pair(n, i)
            BY <1>3, <2>0, <4>2, <6>1 DEF Pair
          <6>2. CASE Pair(m, j) # Pair(n, i)
            <7>1. Pair(m, j) \in Range(received[x])
              BY <2>7, <3>1, <4>2, <6>2
            <7> QED
              BY <7>1 DEF TransferInv, Remembered
          <6> QED
            BY <6>1, <6>2
        <5>2. acks[p][i] \in Nat /\ copies[p][i] \in Nat /\ Tries \in Nat
          BY <2>1, <2>4, TransferAssumption
        <5>3. acks'[p][i] >= 1 /\ (acks'[p][i] = 1 => acks[p][i] = 0)
          <6>1. PICK a : a = acks[p][i]
            OBVIOUS
          <6>2. PICK b : b = acks'[p][i]
            OBVIOUS
          <6>3. a \in Nat /\ b = a + 1
            BY <2>6, <5>2, <6>1, <6>2
          <6>4. b >= 1 /\ (b = 1 => a = 0)
            BY <6>3
          <6> QED
            BY <6>1, <6>2, <6>4
        <5>4. acks[p][i] = 0 => copies[p][i] <= Tries
          <6>1. acks[p][i] = 0 => copies[p][i] + ToCome(p, i) = Tries
            BY <2>12 DEF Accounted
          <6> QED
            BY <2>13, <5>2, <6>1
        <5> QED
          BY <1>1, <2>5, <4>2, <5>1, <5>3, <5>4
      <4> QED
        BY <4>1, <4>2
    <3> QED
      BY <3>1 DEF Remembered
  <2>15. Counted'
    <3>1. AccountedFor(p, i)'
      <4>1. PICK t, u, c, a, st, sv :
              /\ t = ToCome(p, i) /\ u = ToCome(p, i)' /\ c = copies[p][i]
              /\ a = acks[p][i] /\ st = Started(p, i) /\ sv = Started(p, i)'
        OBVIOUS
      <4>2. u \in 0 .. Tries
        <5>1. i \notin DOMAIN needed'[p] /\ Tries \in Nat
          BY <2>5, TransferAssumption
        <5>2. u = IF HasCopy(queue'[p], i) THEN Tries ELSE 0
          BY <4>1, <5>1 DEF ToCome
        <5> QED
          BY <5>1, <5>2
      <4>3. t \in Nat /\ c \in Nat /\ a \in Nat
        BY <2>1, <2>4, <2>13, <4>1
      <4>4. Accounted(t, c, a, st)
        BY <2>12, <4>1
      <4>5. Accounted(u, c, a + 1, sv)
        BY <4>2, <4>3, <4>4, AccountedAcknowledgement
      <4> QED
        BY <1>1, <2>6, <4>1, <4>5 DEF AccountedFor
    <3>2. ASSUME NEW x \in Node, NEW j \in Index PROVE AccountedFor(x, j)'
      BY <2>8, <3>1, UntouchedAccounted
    <3> QED
      BY <3>2 DEF Counted, AccountedFor
  <2>16. OneCopy'
    <3>1. ASSUME NEW x \in Node, NEW j \in DOMAIN needed'[x], HasCopy(queue'[x], j)
          PROVE  needed'[x][j].waiting
      <4>1. j \in Index /\ ~(x = p /\ j = i)
        BY <2>5, <2>9 DEF TransferTypeOK
      <4>2. Untouched(x, j)
        BY <2>8, <4>1
      <4> QED
        BY <3>1, <4>2 DEF Untouched, TransferInv, OneCopy
    <3> QED
      BY <1>5, <3>1 DEF OneCopy
  <2> QED
    BY <1>5, <2>9, <2>10, <2>11, <2>14, <2>15, <2>16 DEF TransferInv
<1> QED
  BY <1>1, <1>7, <1>8 DEF Accept

(* A new packet: its number is one that nothing refers to. *)
LEMMA SendInv ==
  ASSUME TransferInv, NEW n \in Node, Send(n) PROVE TransferInv'
<1>0. PICK i : i = nextIndex[n]
  OBVIOUS
<1>1. PICK m \in Node : queue' = [queue EXCEPT ![n] =
                           Append(@, [kind |-> "PACKET", peer |-> m, index |-> i])]
  BY <1>0 DEF Send
<1>2. PICK e : e = [kind |-> "PACKET", peer |-> m, index |-> i]
  OBVIOUS
<1>3. /\ UNCHANGED <<needed, received, answered, copies, acks, got>>
      /\ nextIndex' = [nextIndex EXCEPT ![n] = @ + 1]
      /\ i <= MaxIndex
  BY <1>0 DEF Send, history
<1>4. /\ queue \in [Node -> Seq(Item)]
      /\ nextIndex \in [Node -> 1 .. MaxIndex + 1] /\ MaxIndex \in Nat
  BY TransferAssumption DEF TransferInv, TransferTypeOK
<1>5. /\ i \in Index /\ i \in Nat /\ e \in Item /\ IsPacket(e)
      /\ e.index = i /\ e.peer = m
  <2>1. i \in Index /\ i \in Nat
    BY <1>0, <1>3, <1>4 DEF Index
  <2> QED
    BY <1>2, <2>1 DEF Item, IsPacket
<1>6. /\ \A y \in Node : ~Destined(n, i, y)
      /\ copies[n][i] = 0 /\ acks[n][i] = 0
  <2>1. i >= nextIndex[n]
    BY <1>0, <1>4
  <2> QED
    BY <1>5, <2>1 DEF TransferInv, Numbered
<1>7. /\ i \notin DOMAIN needed[n] /\ ~HasCopy(queue[n], i)
  <2>1. i \notin DOMAIN needed[n]
    <3>1. ASSUME i \in DOMAIN needed[n] PROVE FALSE
      <4>1. needed[n][i].peer \in Node
        BY <3>1 DEF TransferInv, TransferTypeOK, Need
      <4> QED
        BY <1>6, <3>1, <4>1 DEF Destined
    <3> QED
      BY <3>1
  <2>2. ASSUME HasCopy(queue[n], i) PROVE FALSE
    <3>1. PICK j \in DOMAIN queue[n] : IsPacket(queue[n][j]) /\ queue[n][j].index = i
      BY <2>2 DEF HasCopy
    <3>2. queue[n][j].peer \in Node
      <4>1. queue[n] \in Seq(Item)
        BY <1>4
      <4>2. queue[n][j] \in Item
        BY <3>1, <4>1
      <4> QED
        BY <4>2 DEF Item
    <3> QED
      BY <1>6, <3>1, <3>2 DEF Destined
  <2> QED
    BY <2>1, <2>2
<1>8. /\ queue' \in [Node -> Seq(Item)]
      /\ \A x \in Node \ {n} : queue'[x] = queue[x]
      /\ AcksOf(queue'[n], queue[n], e)
      /\ \A j \in DOMAIN queue'[n] :
           \/ j \in DOMAIN queue[n] /\ queue'[n][j] = queue[n][j]
           \/ j = Len(queue[n]) + 1 /\ queue'[n][j] = e
      /\ Single(queue[n]) /\ ~HasCopy(queue[n], i) => Single(queue'[n])
  <2>1. queue'[n] = Append(queue[n], e) /\ queue[n] \in Seq(Item)
    BY <1>1, <1>2, <1>4
  <2>2. Append(queue[n], e) \in Seq(Item)
    BY <1>5, <2>1, AppendPacket
  <2>3. queue' \in [Node -> Seq(Item)] /\ \A x \in Node \ {n} : queue'[x] = queue[x]
    BY <1>1, <1>2, <1>4, <2>2
  <2>4. PICK q \in Seq(Item) : q = queue[n]
    BY <2>1
  <2>5. /\ AcksOf(Append(q, e), q, e)
        /\ \A j \in DOMAIN Append(q, e) :
             \/ j \in DOMAIN q /\ Append(q, e)[j] = q[j]
             \/ j = Len(q) + 1 /\ Append(q, e)[j] = e
        /\ Single(q) /\ ~HasCopy(q, e.index) => Single(Append(q, e))
    BY <1>5, AppendPacket, Zenon
  <2>6. queue'[n] = Append(q, e)
    BY <2>1, <2>4
  <2> QED
    BY <1>5, <2>3, <2>4, <2>5, <2>6, Zenon
<1>9. \A x \in Node, j \in Index : ~(x = n /\ j = i) => Untouched(x, j)
  BY <1>3, <1>5, <1>8 DEF Untouched, HasCopy
<1>10. TransferTypeOK'
  <2>1. nextIndex' \in [Node -> 1 .. MaxIndex + 1]
    <3>1. i + 1 \in 1 .. MaxIndex + 1
      BY <1>3, <1>4, <1>5
    <3> QED
      BY <1>0, <1>3, <1>4, <3>1
  <2> QED
    BY <1>3, <1>8, <2>1 DEF TransferInv, TransferTypeOK
<1>11. HistoryOK'
  BY <1>3 DEF TransferInv, HistoryOK
<1>12. ASSUME NEW x \in Node, NEW j \in Index, NEW y \in Node, Destined(x, j, y)'
       PROVE  Destined(x, j, y) \/ (x = n /\ j = i /\ y = m)
  BY <1>3, <1>5, <1>8, <1>12 DEF Destined
<1>13. OneDestination'
  <2>1. ASSUME NEW x \in Node, NEW j \in Index, NEW m1 \in Node, NEW m2 \in Node,
               Destined(x, j, m1)', Destined(x, j, m2)'
        PROVE  m1 = m2
    <3>1. CASE x = n /\ j = i
      BY <1>6, <1>12, <2>1, <3>1
    <3>2. CASE ~(x = n /\ j = i)
      BY <1>12, <2>1, <3>2 DEF TransferInv, OneDestination
    <3> QED
      BY <3>1, <3>2
  <2> QED
    BY <2>1 DEF OneDestination
<1>14. Numbered'
  <2>1. ASSUME NEW x \in Node, NEW j \in Index, j >= nextIndex'[x]
        PROVE  /\ \A y \in Node : ~Destined(x, j, y)'
               /\ copies'[x][j] = 0 /\ acks'[x][j] = 0
    <3>1. j \in Nat /\ nextIndex[x] \in Nat
      BY <1>4 DEF Index
    <3>2. j >= nextIndex[x] /\ ~(x = n /\ j = i)
      BY <1>0, <1>3, <1>4, <2>1, <3>1
    <3>3. /\ \A y \in Node : ~Destined(x, j, y)
          /\ copies[x][j] = 0 /\ acks[x][j] = 0
      BY <3>2 DEF TransferInv, Numbered
    <3> QED
      BY <1>3, <1>12, <3>2, <3>3
  <2> QED
    BY <2>1 DEF Numbered
<1>15. AcksTrue'
  <2>1. ASSUME NEW x \in Node, NEW j \in DOMAIN queue'[x], IsAck(queue'[x][j])
        PROVE  Pair(queue'[x][j].peer, queue'[x][j].index) \in got'[x]
    <3>1. ~IsAck(e)
      BY <1>5 DEF IsAck, IsPacket
    <3>2. j \in DOMAIN queue[x] /\ queue'[x][j] = queue[x][j]
      BY <1>8, <2>1, <3>1
    <3> QED
      BY <1>3, <2>1, <3>2 DEF TransferInv, AcksTrue
  <2> QED
    BY <2>1 DEF AcksTrue
<1>16. Remembered'
  BY <1>3 DEF TransferInv, Remembered
<1>17. Counted'
  <2>1. AccountedFor(n, i)'
    <3>1. Tries \in Nat \ {0}
      BY TransferAssumption
    <3>2. ToCome(n, i)' \in {0, Tries}
      BY <1>3, <1>7 DEF ToCome
    <3>3. ~Started(n, i)'
      <4>1. copies'[n][i] = 0 /\ ~(0 > 0)
        BY <1>3, <1>6
      <4> QED
        BY <1>3, <1>7, <4>1 DEF Started
    <3>4. copies'[n][i] = 0 /\ acks'[n][i] = 0
      BY <1>3, <1>6
    <3>5. ASSUME NEW t \in {0, Tries} PROVE 0 + t <= Tries * 0 + Tries
      BY <3>1
    <3> QED
      BY <3>2, <3>3, <3>4, <3>5 DEF AccountedFor, Accounted
  <2>2. ASSUME NEW x \in Node, NEW j \in Index PROVE AccountedFor(x, j)'
    BY <1>9, <2>1, UntouchedAccounted
  <2> QED
    BY <2>2 DEF Counted, AccountedFor
<1>18. OneCopy'
  <2>1. ASSUME NEW x \in Node, NEW j \in DOMAIN needed'[x], HasCopy(queue'[x], j)
        PROVE  needed'[x][j].waiting
    <3>1. j \in Index
      BY <1>10 DEF TransferTypeOK
    <3>2. Untouched(x, j)
      BY <1>3, <1>7, <1>9, <2>1, <3>1
    <3> QED
      BY <2>1, <3>2 DEF Untouched, TransferInv, OneCopy
  <2>2. \A x \in Node : Single(queue'[x])
    BY <1>7, <1>8 DEF TransferInv, OneCopy
  <2> QED
    BY <2>1, <2>2 DEF OneCopy
<1> QED
  BY <1>10, <1>11, <1>13, <1>14, <1>15, <1>16, <1>17, <1>18 DEF TransferInv

(* What a timeout does to the queues when the packet is queued again. *)
LEMMA RequeueInv ==
  ASSUME TransferInv, NEW n \in Node, NEW i \in DOMAIN needed[n], ~needed[n][i].waiting,
         needed[n][i].left > 1,
         needed' = Entered(n, i, Requeued(needed[n][i])),
         queue' = [queue EXCEPT ![n] =
           Append(@, [kind |-> "PACKET", peer |-> needed[n][i].peer, index |-> i])],
         UNCHANGED <<received, answered, nextIndex, copies, acks, got>>
  PROVE  TransferInv'
<1>1. PICK old, entry, e : /\ old = needed[n][i] /\ entry = Requeued(old)
                           /\ e = [kind |-> "PACKET", peer |-> old.peer, index |-> i]
  OBVIOUS
<1>2. /\ queue \in [Node -> Seq(Item)] /\ old \in Need /\ i \in Index /\ ~old.waiting
  BY <1>1 DEF TransferInv, TransferTypeOK
<1>3. /\ entry = [old EXCEPT !.left = @ - 1, !.waiting = TRUE]
      /\ old.left > 1
  BY <1>1 DEF Requeued
<1>4. /\ entry \in Need /\ entry.peer = old.peer /\ old.peer \in Node
      /\ entry.waiting /\ entry.left = old.left - 1
  <2>1. Tries \in Nat /\ old.left \in 1 .. Tries
    BY <1>2, TransferAssumption DEF Need
  <2>2. old.left - 1 \in 1 .. Tries
    BY <1>3, <2>1
  <2> QED
    BY <1>2, <1>3, <2>2 DEF Need
<1>5. e \in Item /\ IsPacket(e) /\ e.index = i /\ e.peer = old.peer
  BY <1>1, <1>2, <1>4 DEF Item, IsPacket
<1>6. DOMAIN needed = Node
  BY DEF TransferInv, HistoryOK
<1>7. /\ DOMAIN needed' = Node
      /\ \A x \in Node \ {n} : needed'[x] = needed[x]
      /\ DOMAIN needed'[n] = DOMAIN needed[n] \cup {i}
      /\ needed'[n][i] = entry
      /\ \A j \in DOMAIN needed[n] \ {i} : needed'[n][j] = needed[n][j]
  BY <1>1, <1>6, EnteredShape
<1>8. ~HasCopy(queue[n], i)
  BY <1>1, <1>2 DEF TransferInv, OneCopy
<1>9. /\ queue' \in [Node -> Seq(Item)]
      /\ \A x \in Node \ {n} : queue'[x] = queue[x]
      /\ \A j \in DOMAIN queue'[n] :
           \/ j \in DOMAIN queue[n] /\ queue'[n][j] = queue[n][j]
           \/ j = Len(queue[n]) + 1 /\ queue'[n][j] = e
      /\ Single(queue[n]) /\ ~HasCopy(queue[n], i) => Single(queue'[n])
  <2>1. PICK q \in Seq(Item) : q = queue[n]
    BY <1>2
  <2>2. /\ Append(q, e) \in Seq(Item)
        /\ \A j \in DOMAIN Append(q, e) :
             \/ j \in DOMAIN q /\ Append(q, e)[j] = q[j]
             \/ j = Len(q) + 1 /\ Append(q, e)[j] = e
        /\ Single(q) /\ ~HasCopy(q, e.index) => Single(Append(q, e))
    BY <1>5, AppendPacket, Zenon
  <2>3. /\ queue'[n] = Append(q, e)
        /\ queue' \in [Node -> Seq(Item)] /\ \A x \in Node \ {n} : queue'[x] = queue[x]
    BY <1>1, <1>2, <2>1, <2>2
  <2> QED
    BY <1>5, <2>1, <2>2, <2>3, Zenon
<1>10. \A x \in Node, j \in Index : ~(x = n /\ j = i) => Untouched(x, j)
  BY <1>5, <1>7, <1>9 DEF Untouched, HasCopy
<1>11. TransferTypeOK'
  <2>1. ASSUME NEW x \in Node
        PROVE  /\ DOMAIN needed'[x] \subseteq Index
               /\ \A j \in DOMAIN needed'[x] : needed'[x][j] \in Need
    <3>1. DOMAIN needed[x] \subseteq Index /\ \A j \in DOMAIN needed[x] : needed[x][j] \in Need
      BY DEF TransferInv, TransferTypeOK
    <3> QED
      BY <1>2, <1>4, <1>7, <3>1
  <2> QED
    BY <1>9, <2>1 DEF TransferInv, TransferTypeOK
<1>12. HistoryOK'
  BY <1>7 DEF TransferInv, HistoryOK
<1>13. OneDestination' /\ Numbered'
  <2>1. ASSUME NEW x \in Node, NEW j \in Index, NEW m \in Node, Destined(x, j, m)'
        PROVE  Destined(x, j, m)
    <3>1. Destined(n, i, old.peer)
      BY <1>1 DEF Destined
    <3>2. CASE Pair(x, j) \in got'[m]
      BY <3>2 DEF Destined
    <3>3. CASE j \in DOMAIN needed'[x] /\ needed'[x][j].peer = m
      BY <1>4, <1>7, <3>1, <3>3 DEF Destined
    <3>4. CASE \E k \in DOMAIN queue'[x] :
                 IsPacket(queue'[x][k]) /\ queue'[x][k].index = j /\ queue'[x][k].peer = m
      BY <1>5, <1>9, <3>1, <3>4 DEF Destined
    <3> QED
      BY <2>1, <3>2, <3>3, <3>4 DEF Destined
  <2> QED
    BY <2>1, DestinationKept DEF TransferInv
<1>14. AcksTrue'
  <2>1. ASSUME NEW x \in Node, NEW j \in DOMAIN queue'[x], IsAck(queue'[x][j])
        PROVE  Pair(queue'[x][j].peer, queue'[x][j].index) \in got'[x]
    <3>1. ~IsAck(e)
      BY <1>5 DEF IsAck, IsPacket
    <3>2. j \in DOMAIN queue[x] /\ queue'[x][j] = queue[x][j]
      BY <1>9, <2>1, <3>1
    <3> QED
      BY <2>1, <3>2 DEF TransferInv, AcksTrue
  <2> QED
    BY <2>1 DEF AcksTrue
<1>15. Remembered'
  BY <1>7 DEF TransferInv, Remembered
<1>16. Counted'
  <2>1. AccountedFor(n, i)'
    <3>1. AccountedFor(n, i) /\ Started(n, i)
      BY <1>2 DEF TransferInv, Counted, AccountedFor, Started
    <3>2. ToCome(n, i) = old.left - 1
      BY <1>1, <1>2 DEF ToCome
    <3>3. ToCome(n, i)' = entry.left
      BY <1>4, <1>7 DEF ToCome
    <3> QED
      BY <1>4, <3>1, <3>2, <3>3 DEF AccountedFor, Accounted
  <2>2. ASSUME NEW x \in Node, NEW j \in Index PROVE AccountedFor(x, j)'
    BY <1>10, <2>1, UntouchedAccounted
  <2> QED
    BY <2>2 DEF Counted, AccountedFor
<1>17. OneCopy'
  <2>1. ASSUME NEW x \in Node, NEW j \in DOMAIN needed'[x], HasCopy(queue'[x], j)
        PROVE  needed'[x][j].waiting
    <3>1. j \in Index
      BY <1>11 DEF TransferTypeOK
    <3>2. CASE x = n /\ j = i
      BY <1>4, <1>7, <3>2
    <3>3. CASE ~(x = n /\ j = i)
      BY <1>10, <2>1, <3>1, <3>3 DEF Untouched, TransferInv, OneCopy
    <3> QED
      BY <3>2, <3>3
  <2>2. \A x \in Node : Single(queue'[x])
    BY <1>8, <1>9 DEF TransferInv, OneCopy
  <2> QED
    BY <2>1, <2>2 DEF OneCopy
<1> QED
  BY <1>11, <1>12, <1>13, <1>14, <1>15, <1>16, <1>17 DEF TransferInv

(* ... and when no try is left. *)
LEMMA GiveUpInv ==
  ASSUME TransferInv, NEW n \in Node, NEW i \in DOMAIN needed[n], ~needed[n][i].waiting,
         needed[n][i].left = 1, needed' = Erased(n, i),
         UNCHANGED <<queue, received, answered, nextIndex, copies, acks, got>>
  PROVE  TransferInv'
<1>1. i \in Index
  BY DEF TransferInv, TransferTypeOK
<1>2. DOMAIN needed = Node
  BY DEF TransferInv, HistoryOK
<1>3. /\ DOMAIN needed' = Node
      /\ \A x \in Node \ {n} : needed'[x] = needed[x]
      /\ DOMAIN needed'[n] = DOMAIN needed[n] \ {i}
      /\ \A j \in DOMAIN needed[n] \ {i} : needed'[n][j] = needed[n][j]
  BY <1>2, ErasedShape
<1>4. \A x \in Node, j \in Index : ~(x = n /\ j = i) => Untouched(x, j)
  BY <1>3 DEF Untouched
<1>5. TransferTypeOK'
  <2>1. ASSUME NEW x \in Node
        PROVE  /\ DOMAIN needed'[x] \subseteq Index
               /\ \A j \in DOMAIN needed'[x] : needed'[x][j] \in Need
    <3>1. DOMAIN needed[x] \subseteq Index /\ \A j \in DOMAIN needed[x] : needed[x][j] \in Need
      BY DEF TransferInv, TransferTypeOK
    <3> QED
      BY <1>3, <3>1
  <2> QED
    BY <2>1 DEF TransferInv, TransferTypeOK
<1>6. HistoryOK' /\ AcksTrue'
  BY <1>3 DEF TransferInv, HistoryOK, AcksTrue
<1>7. OneDestination' /\ Numbered'
  <2>1. ASSUME NEW x \in Node, NEW j \in Index, NEW m \in Node, Destined(x, j, m)'
        PROVE  Destined(x, j, m)
    BY <1>3, <2>1 DEF Destined
  <2> QED
    BY <2>1, DestinationKept DEF TransferInv
<1>8. Remembered'
  BY <1>3 DEF TransferInv, Remembered
<1>9. Counted'
  <2>1. AccountedFor(n, i)'
    <3>1. AccountedFor(n, i) /\ Started(n, i)
      BY <1>1 DEF TransferInv, Counted, AccountedFor, Started
    <3>2. ToCome(n, i) = 0
      BY DEF ToCome
    <3>3. ~HasCopy(queue[n], i)
      BY DEF TransferInv, OneCopy
    <3>4. ToCome(n, i)' = 0
      BY <1>3, <3>3 DEF ToCome
    <3> QED
      BY <3>1, <3>2, <3>4 DEF AccountedFor, Accounted
  <2>2. ASSUME NEW x \in Node, NEW j \in Index PROVE AccountedFor(x, j)'
    BY <1>4, <2>1, UntouchedAccounted
  <2> QED
    BY <2>2 DEF Counted, AccountedFor
<1>10. OneCopy'
  <2>1. ASSUME NEW x \in Node, NEW j \in DOMAIN needed'[x], HasCopy(queue'[x], j)
        PROVE  needed'[x][j].waiting
    <3>1. j \in DOMAIN needed[x] /\ needed'[x][j] = needed[x][j]
      BY <1>3
    <3> QED
      BY <2>1, <3>1 DEF TransferInv, OneCopy
  <2> QED
    BY <2>1 DEF TransferInv, OneCopy
<1> QED
  BY <1>5, <1>6, <1>7, <1>8, <1>9, <1>10 DEF TransferInv

LEMMA TimeOutInv ==
  ASSUME TransferInv, NEW n \in Node, TimeOut(n) PROVE TransferInv'
<1>1. UNCHANGED <<received, answered, nextIndex, copies, acks, got>>
  BY DEF TimeOut, history
<1>2. PICK i \in DOMAIN needed[n] :
        /\ ~needed[n][i].waiting
        /\ \/ /\ needed[n][i].left > 1
              /\ needed' = Entered(n, i, Requeued(needed[n][i]))
              /\ queue' = [queue EXCEPT ![n] =
                   Append(@, [kind |-> "PACKET", peer |-> needed[n][i].peer, index |-> i])]
           \/ /\ needed[n][i].left = 1
              /\ needed' = Erased(n, i)
              /\ UNCHANGED queue
  BY DEF TimeOut
<1> QED
  BY <1>1, <1>2, RequeueInv, GiveUpInv

-----------------------------------------------------------------------------
(* The theorems *)

(* Every action preserves the inductive invariant. *)
THEOREM TransferInvInductive == TransferInv /\ [Next]_vars => TransferInv'
<1>1. CASE Next
  BY <1>1, SendInv, TransmitPacketInv, SkipAcknowledgedInv, TransmitAckInv, TimeOutInv DEF Next
<1>2. CASE UNCHANGED vars
  BY <1>2 DEF vars, history, TransferInv, TransferTypeOK, HistoryOK, OneDestination, Numbered,
     AcksTrue, Remembered, Counted, OneCopy, Destined, ToCome, Started
<1> QED
  BY <1>1, <1>2

LEMMA TransferInvariant == Spec => []TransferInv
BY InitTransferInv, TransferInvInductive, PTL DEF Spec

(* The state has its type: among others, the number of tries that an entry  *)
(* of the map has left never leaves 1 .. RETRY_COUNTER_MAX.                 *)
THEOREM TransferTypes == Spec => []TransferTypeOK
<1>1. TransferInv => TransferTypeOK
  BY DEF TransferInv
<1> QED
  BY <1>1, TransferInvariant, PTL

(* RETRY_COUNTER_MAX transmissions, and as many more for each of the        *)
(* acknowledgements accepted; no more at all while it is remembered.        *)
THEOREM TransmissionsBounded == Spec => []BoundedTransmissions
<1>1. TransferInv => BoundedTransmissions
  <2> SUFFICES ASSUME TransferInv, NEW n \in Node, NEW i \in Index
               PROVE  /\ copies[n][i] <= Tries * (acks[n][i] + 1)
                      /\ (acks[n][i] = 1 /\ \E m \in Node : Pair(m, i) \in Range(received[n]))
                           => copies[n][i] <= Tries
    BY DEF BoundedTransmissions
  <2>1. PICK c, a, t : c = copies[n][i] /\ a = acks[n][i] /\ t = ToCome(n, i)
    OBVIOUS
  <2>2. c \in Nat /\ a \in Nat /\ t \in 0 .. Tries /\ Tries \in Nat
    BY <2>1, ToComeRange, TransferAssumption DEF TransferInv, HistoryOK
  <2>3. c + t <= Tries * a + Tries
    BY <2>1 DEF TransferInv, Counted, Accounted
  <2>4. Tries * (a + 1) = Tries * a + Tries /\ Tries * a \in Nat
    BY <2>2
  <2>5. c <= Tries * (a + 1)
    BY <2>2, <2>3, <2>4
  <2> QED
    BY <2>1, <2>5 DEF TransferInv, Remembered
<1> QED
  BY <1>1, TransferInvariant, PTL

(* A packet is given up after all its transmissions, and not before. *)
THEOREM GivenUpLast == Spec => []GivenUpAfterAllTries
<1>1. TransferInv => GivenUpAfterAllTries
  <2> SUFFICES ASSUME TransferInv, NEW n \in Node, NEW i \in Index,
                      copies[n][i] > 0, acks[n][i] = 0, i \notin DOMAIN needed[n]
               PROVE  copies[n][i] = Tries
    BY DEF GivenUpAfterAllTries
  <2>1. copies[n][i] + ToCome(n, i) = Tries
    BY DEF TransferInv, Counted, Accounted, Started
  <2>2. ToCome(n, i) = Tries \/ ToCome(n, i) = 0
    BY DEF ToCome
  <2>3. copies[n][i] \in Nat /\ Tries \in Nat
    BY TransferAssumption DEF TransferInv, HistoryOK
  <2> QED
    BY <2>1, <2>2, <2>3
<1> QED
  BY <1>1, TransferInvariant, PTL

(* What is remembered as acknowledged was received by that station. *)
THEOREM AcknowledgementsTrue == Spec => []AcknowledgedWasReceived
<1>1. TransferInv => AcknowledgedWasReceived
  BY DEF TransferInv, Remembered, AcknowledgedWasReceived
<1> QED
  BY <1>1, TransferInvariant, PTL

(* One copy of a packet waits at most, and none while its timeout runs. *)
THEOREM CopiesSingle == Spec => []OneCopyQueued
<1>1. TransferInv => OneCopyQueued
  BY DEF TransferInv, OneCopy, OneCopyQueued, Single, HasCopy, IsPacket
<1> QED
  BY <1>1, TransferInvariant, PTL
=============================================================================
