------------------------ MODULE SlotProtocol_proofs ------------------------
(***************************************************************************)
(* Proofs about SlotProtocol: every answer of the slot selection finds the *)
(* procedure that it answers, and the lock of the MAC is held exactly      *)
(* while an allocation waits for its answer; the protocol implements       *)
(* SlotSelection, so what is proved of one slot selection holds of every   *)
(* station; and a selection is always confirmed.  For any number of        *)
(* stations and whatever the radio loses, repeats or delays.               *)
(***************************************************************************)
EXTENDS SlotProtocol, SlotSelection_proofs, FiniteSetTheorems, TLAPS

-----------------------------------------------------------------------------
(* One station *)

IsSeq(b) == \E S : b \in Seq(S)

(* A message on the bus that a procedure waits for: the request itself, or *)
(* the answer to it.                                                       *)
Awaited(m) ==
  \/ m.to = "AI" /\ m.type \in {"SET_BC_SLOTS", "SET_ALLOCATION", "SET_REMOVAL"}
  \/ m.to = "MAC" /\ m.type = "SETR"

(* A message that may yet start an allocation. *)
Carrier(m) ==
  \/ m.to = "MAC" /\ m.type \in {"RECEIVE", "GETR_SELECTED"}
  \/ m.to = "AI" /\ m.type = "GET_SELECTED"

(* A message that has started one, of the procedures p, or may yet. *)
Token(p, m) == Carrier(m) \/ (Awaited(m) /\ p[m.id].set = "ALLOCATION")

(* The bus b of a station, its procedures p, its next id k. *)
IdsFresh(p, k) == k \in Nat /\ \A id \in DOMAIN p : id \in Nat /\ id < k
AwaitedKnown(b, p) ==
  /\ \A i \in DOMAIN b : Awaited(b[i]) => b[i].id \in DOMAIN p
  /\ \A i, j \in DOMAIN b : Awaited(b[i]) /\ Awaited(b[j]) /\ b[i].id = b[j].id => i = j
OneToken(b, p) == \A i, j \in DOMAIN b : Token(p, b[i]) /\ Token(p, b[j]) => i = j
AllocationAwaited(b, p) ==
  \A id \in DOMAIN p : p[id].set = "ALLOCATION"
    => \E i \in DOMAIN b : Awaited(b[i]) /\ b[i].id = id

BusSound(b, p, k) == /\ IsSeq(b) /\ IdsFresh(p, k) /\ AwaitedKnown(b, p)
                     /\ OneToken(b, p) /\ AllocationAwaited(b, p)

(* Between the instants, only a packet may wait to start an allocation. *)
Idle(b, p) == \A i \in DOMAIN b : Token(p, b[i]) => Carrier(b[i]) /\ b[i].type = "RECEIVE"

Allocating(p) == \E id \in DOMAIN p : p[id].set = "ALLOCATION"

-----------------------------------------------------------------------------
(* The bus, by its messages *)

(* c is b without its head, and with m at the end if it has one more. *)
TailShape(b, m, ms, c) ==
  /\ IsSeq(c)
  /\ 1 \in DOMAIN b /\ Head(b) = b[1]
  /\ \A j \in DOMAIN c : \/ j + 1 \in DOMAIN b /\ j + 1 # 1 /\ c[j] = b[j + 1]
                         \/ j = Len(b) /\ ms = <<m>> /\ c[j] = m
  /\ \A i \in DOMAIN b : i # 1 => i - 1 \in DOMAIN c /\ c[i - 1] = b[i]
  /\ ms = <<m>> => Len(b) \in DOMAIN c /\ c[Len(b)] = m
  /\ \A j \in DOMAIN c : j \in Nat \ {0}
  /\ \A j \in DOMAIN b : j \in Nat

LEMMA TailPlus ==
  ASSUME NEW b, IsSeq(b), b # <<>>, NEW m, NEW ms \in {<<>>, <<m>>}, NEW c, c = Tail(b) \o ms
  PROVE  TailShape(b, m, ms, c)
<1> SUFFICES
        /\ IsSeq(c)
        /\ 1 \in DOMAIN b /\ Head(b) = b[1]
        /\ \A j \in DOMAIN c : \/ j + 1 \in DOMAIN b /\ j + 1 # 1 /\ c[j] = b[j + 1]
                               \/ j = Len(b) /\ ms = <<m>> /\ c[j] = m
        /\ \A i \in DOMAIN b : i # 1 => i - 1 \in DOMAIN c /\ c[i - 1] = b[i]
        /\ ms = <<m>> => Len(b) \in DOMAIN c /\ c[Len(b)] = m
        /\ \A j \in DOMAIN c : j \in Nat \ {0}
        /\ \A j \in DOMAIN b : j \in Nat
  BY DEF TailShape
<1>1. PICK S : b \in Seq(S)
  BY DEF IsSeq
<1>2. PICK T : T = S \cup {m}
  OBVIOUS
<1>3. b \in Seq(T)
  <2>1. b \in [1 .. Len(b) -> S] /\ Len(b) \in Nat
    BY <1>1
  <2>2. b \in [1 .. Len(b) -> T]
    BY <1>2, <2>1
  <2> QED
    BY <1>1, <1>2
<1>4. ms \in Seq(T)
  <2>1. m \in T
    BY <1>2
  <2>2. <<m>> \in Seq(T) /\ <<>> \in Seq(T)
    BY <2>1
  <2> QED
    BY <2>2
<1>5. PICK t : t = Tail(b)
  OBVIOUS
<1>6. /\ t \in Seq(T) /\ Len(t) = Len(b) - 1 /\ Len(b) \in Nat /\ Len(b) >= 1
      /\ \A j \in 1 .. Len(b) - 1 : t[j] = b[j + 1]
  BY <1>3, <1>5
<1>7. /\ c \in Seq(T) /\ Len(c) = Len(t) + Len(ms)
      /\ \A j \in 1 .. Len(t) + Len(ms) :
           c[j] = IF j <= Len(t) THEN t[j] ELSE ms[j - Len(t)]
  BY <1>4, <1>5, <1>6
<1>8. IsSeq(c)
  BY <1>7 DEF IsSeq
<1>9. 1 \in DOMAIN b /\ Head(b) = b[1] /\ DOMAIN b = 1 .. Len(b) /\ DOMAIN c = 1 .. Len(c)
  BY <1>3, <1>6, <1>7
<1>10. CASE ms = <<>>
  <2>1. Len(ms) = 0 /\ <<>> # <<m>>
    BY <1>10
  <2>2. Len(c) = Len(b) - 1 /\ \A j \in 1 .. Len(b) - 1 : c[j] = b[j + 1]
    BY <1>6, <1>7, <2>1
  <2> QED
    BY <1>6, <1>8, <1>9, <1>10, <2>1, <2>2
<1>11. CASE ms = <<m>>
  <2>1. Len(ms) = 1 /\ ms[1] = m
    BY <1>11
  <2>2. /\ Len(c) = Len(b) /\ c[Len(b)] = m
        /\ \A j \in 1 .. Len(b) - 1 : c[j] = b[j + 1]
    BY <1>6, <1>7, <2>1
  <2> QED
    BY <1>6, <1>8, <1>9, <1>11, <2>2
<1> QED
  BY <1>10, <1>11

(* c is b with m at the end if it has one more. *)
PlusShape(b, m, ms, c) ==
  /\ IsSeq(c)
  /\ \A j \in DOMAIN c : \/ j \in DOMAIN b /\ c[j] = b[j]
                         \/ j = Len(b) + 1 /\ ms = <<m>> /\ c[j] = m
  /\ \A i \in DOMAIN b : i \in DOMAIN c /\ c[i] = b[i]

LEMMA Plus ==
  ASSUME NEW b, IsSeq(b), NEW m, NEW ms \in {<<>>, <<m>>}, NEW c, c = b \o ms
  PROVE  PlusShape(b, m, ms, c)
<1> SUFFICES
      /\ IsSeq(c)
      /\ \A j \in DOMAIN c : \/ j \in DOMAIN b /\ c[j] = b[j]
                             \/ j = Len(b) + 1 /\ ms = <<m>> /\ c[j] = m
      /\ \A i \in DOMAIN b : i \in DOMAIN c /\ c[i] = b[i]
  BY DEF PlusShape
<1>1. PICK S : b \in Seq(S)
  BY DEF IsSeq
<1>2. PICK T : T = S \cup {m}
  OBVIOUS
<1>3. b \in Seq(T)
  <2>1. b \in [1 .. Len(b) -> S] /\ Len(b) \in Nat
    BY <1>1
  <2>2. b \in [1 .. Len(b) -> T]
    BY <1>2, <2>1
  <2> QED
    BY <1>1, <1>2
<1>4. ms \in Seq(T) /\ Len(b) \in Nat
  <2>1. m \in T
    BY <1>2
  <2>2. <<m>> \in Seq(T) /\ <<>> \in Seq(T)
    BY <2>1
  <2>3. Len(b) \in Nat
    BY <1>3
  <2> QED
    BY <2>2, <2>3
<1>5. /\ c \in Seq(T) /\ Len(c) = Len(b) + Len(ms)
      /\ \A j \in 1 .. Len(b) + Len(ms) :
           c[j] = IF j <= Len(b) THEN b[j] ELSE ms[j - Len(b)]
  BY <1>3, <1>4
<1>6. IsSeq(c)
  BY <1>5 DEF IsSeq
<1>7. CASE ms = <<>>
  <2>1. Len(ms) = 0 /\ c = b
    BY <1>3, <1>7
  <2> QED
    BY <1>6, <2>1
<1>8. CASE ms = <<m>>
  <2>1. Len(ms) = 1 /\ ms[1] = m
    BY <1>8
  <2>2. /\ DOMAIN c = 1 .. Len(b) + 1 /\ DOMAIN b = 1 .. Len(b)
        /\ c[Len(b) + 1] = m /\ \A j \in 1 .. Len(b) : c[j] = b[j]
    BY <1>3, <1>4, <1>5, <2>1
  <2> QED
    BY <1>4, <1>6, <1>8, <2>2
<1> QED
  BY <1>7, <1>8

-----------------------------------------------------------------------------
(* The ways in which a bus and the procedures change together *)

(* The head is handled and what follows from it is sent. *)
LEMMA HandledSound ==
  ASSUME NEW b, NEW p, NEW k, BusSound(b, p, k), b # <<>>, NEW h, h = Head(b),
         NEW m, NEW ms \in {<<>>, <<m>>}, NEW c, c = Tail(b) \o ms,
         NEW l, l \in Nat, l >= k,
         Awaited(m) => Awaited(h) /\ m.id = h.id,
         Carrier(m) => Carrier(h),
         Awaited(h) => ms = <<m>> /\ Awaited(m)
  PROVE  BusSound(c, p, l)
<1>1. /\ IsSeq(b) /\ IdsFresh(p, k) /\ AwaitedKnown(b, p)
      /\ OneToken(b, p) /\ AllocationAwaited(b, p)
  BY DEF BusSound
<1>2. /\ IsSeq(c)
      /\ 1 \in DOMAIN b /\ h = b[1]
      /\ \A j \in DOMAIN c : \/ j + 1 \in DOMAIN b /\ j + 1 # 1 /\ c[j] = b[j + 1]
                             \/ j = Len(b) /\ ms = <<m>> /\ c[j] = m
      /\ \A i \in DOMAIN b : i # 1 => i - 1 \in DOMAIN c /\ c[i - 1] = b[i]
      /\ ms = <<m>> => Len(b) \in DOMAIN c /\ c[Len(b)] = m
      /\ \A j \in DOMAIN c : j \in Nat \ {0}
      /\ \A j \in DOMAIN b : j \in Nat
  <2>1. TailShape(b, m, ms, c)
    BY <1>1, TailPlus, Zenon
  <2> QED
    BY <2>1 DEF TailShape
<1>3. IdsFresh(p, l)
  BY <1>1 DEF IdsFresh
<1>4. AwaitedKnown(c, p)
  <2>1. ASSUME NEW i \in DOMAIN c, Awaited(c[i])
        PROVE  \E u \in DOMAIN b : /\ Awaited(b[u]) /\ b[u].id = c[i].id
                                   /\ u = i + 1 \/ (u = 1 /\ i = Len(b))
    <3>1. CASE i + 1 \in DOMAIN b /\ i + 1 # 1 /\ c[i] = b[i + 1]
      BY <2>1, <3>1
    <3>2. CASE i = Len(b) /\ ms = <<m>> /\ c[i] = m
      BY <1>2, <2>1, <3>2
    <3> QED
      BY <1>2, <3>1, <3>2
  <2>2. ASSUME NEW i \in DOMAIN c, Awaited(c[i]) PROVE c[i].id \in DOMAIN p
    BY <1>1, <2>1, <2>2 DEF AwaitedKnown
  <2>3. ASSUME NEW i \in DOMAIN c, NEW j \in DOMAIN c, Awaited(c[i]), Awaited(c[j]),
               c[i].id = c[j].id
        PROVE  i = j
    <3>1. PICK u \in DOMAIN b : /\ Awaited(b[u]) /\ b[u].id = c[i].id
                                /\ u = i + 1 \/ (u = 1 /\ i = Len(b))
      BY <2>1, <2>3
    <3>2. PICK v \in DOMAIN b : /\ Awaited(b[v]) /\ b[v].id = c[j].id
                                /\ v = j + 1 \/ (v = 1 /\ j = Len(b))
      BY <2>1, <2>3
    <3>3. u = v
      BY <1>1, <2>3, <3>1, <3>2 DEF AwaitedKnown
    <3> QED
      BY <1>2, <3>1, <3>2, <3>3
  <2> QED
    BY <2>2, <2>3 DEF AwaitedKnown
<1>5. OneToken(c, p)
  <2>1. ASSUME NEW i \in DOMAIN c, Token(p, c[i])
        PROVE  \E u \in DOMAIN b : /\ Token(p, b[u])
                                   /\ u = i + 1 \/ (u = 1 /\ i = Len(b))
    <3>1. CASE i + 1 \in DOMAIN b /\ i + 1 # 1 /\ c[i] = b[i + 1]
      BY <2>1, <3>1
    <3>2. CASE i = Len(b) /\ ms = <<m>> /\ c[i] = m
      <4>1. Token(p, h)
        BY <2>1, <3>2 DEF Token
      <4> QED
        BY <1>2, <3>2, <4>1
    <3> QED
      BY <1>2, <3>1, <3>2
  <2>2. ASSUME NEW i \in DOMAIN c, NEW j \in DOMAIN c, Token(p, c[i]), Token(p, c[j])
        PROVE  i = j
    <3>1. PICK u \in DOMAIN b : Token(p, b[u]) /\ (u = i + 1 \/ (u = 1 /\ i = Len(b)))
      BY <2>1, <2>2
    <3>2. PICK v \in DOMAIN b : Token(p, b[v]) /\ (v = j + 1 \/ (v = 1 /\ j = Len(b)))
      BY <2>1, <2>2
    <3>3. u = v
      BY <1>1, <3>1, <3>2 DEF OneToken
    <3> QED
      BY <1>2, <3>1, <3>2, <3>3
  <2> QED
    BY <2>2 DEF OneToken
<1>6. AllocationAwaited(c, p)
  <2>1. ASSUME NEW id \in DOMAIN p, p[id].set = "ALLOCATION"
        PROVE  \E i \in DOMAIN c : Awaited(c[i]) /\ c[i].id = id
    <3>1. PICK u \in DOMAIN b : Awaited(b[u]) /\ b[u].id = id
      BY <1>1, <2>1 DEF AllocationAwaited
    <3>2. CASE u # 1
      BY <1>2, <3>1, <3>2
    <3>3. CASE u = 1
      BY <1>2, <3>1, <3>3
    <3> QED
      BY <3>2, <3>3
  <2> QED
    BY <2>1 DEF AllocationAwaited
<1> QED
  BY <1>2, <1>3, <1>4, <1>5, <1>6 DEF BusSound

(* The head makes the MAC send a request of its own: a procedure begins. *)
Extended(p, k, r) == [i \in DOMAIN p \cup {k} |-> IF i = k THEN r ELSE p[i]]

Begins(h, m, k, r) ==
  /\ Awaited(m) /\ ~Carrier(m) /\ m.id = k /\ ~Awaited(h)
  /\ r.set = "ALLOCATION" => Carrier(h)

LEMMA BegunSound ==
  ASSUME NEW b, NEW p, NEW k, BusSound(b, p, k), b # <<>>, NEW h, h = Head(b),
         NEW m, NEW c, c = Tail(b) \o <<m>>, NEW r,
         NEW q, q = Extended(p, k, r),
         Begins(h, m, k, r)
  PROVE  /\ BusSound(c, q, k + 1)
         /\ Allocating(q) <=> Allocating(p) \/ r.set = "ALLOCATION"
<1>0. PICK ms : ms = <<m>>
  OBVIOUS
<1>1. /\ IsSeq(b) /\ IdsFresh(p, k) /\ AwaitedKnown(b, p)
      /\ OneToken(b, p) /\ AllocationAwaited(b, p)
  BY DEF BusSound
<1> Awaited(m) /\ ~Carrier(m) /\ m.id = k /\ ~Awaited(h) /\ (r.set = "ALLOCATION" => Carrier(h))
  BY DEF Begins
<1>2. /\ IsSeq(c)
      /\ 1 \in DOMAIN b /\ h = b[1]
      /\ \A j \in DOMAIN c : \/ j + 1 \in DOMAIN b /\ j + 1 # 1 /\ c[j] = b[j + 1]
                             \/ j = Len(b) /\ ms = <<m>> /\ c[j] = m
      /\ \A i \in DOMAIN b : i # 1 => i - 1 \in DOMAIN c /\ c[i - 1] = b[i]
      /\ Len(b) \in DOMAIN c /\ c[Len(b)] = m
      /\ \A j \in DOMAIN c : j \in Nat \ {0}
      /\ \A j \in DOMAIN b : j \in Nat
  <2>1. TailShape(b, m, ms, c)
    BY <1>0, <1>1, c = Tail(b) \o ms, ms \in {<<>>, <<m>>}, TailPlus, Zenon
  <2> QED
    BY <1>0, <2>1 DEF TailShape
<1>3. /\ k \in Nat /\ k \notin DOMAIN p
      /\ DOMAIN q = DOMAIN p \cup {k} /\ q[k] = r
      /\ \A id \in DOMAIN p : q[id] = p[id]
  BY <1>1 DEF IdsFresh, Extended
<1>4. IdsFresh(q, k + 1)
  BY <1>1, <1>3 DEF IdsFresh
<1>5. ASSUME NEW i \in DOMAIN b, Awaited(b[i]) PROVE b[i].id \in DOMAIN p /\ i # 1
  BY <1>1, <1>2, <1>5 DEF AwaitedKnown
<1>6. ASSUME NEW i \in DOMAIN b PROVE Token(q, b[i]) <=> Token(p, b[i])
  BY <1>3, <1>5 DEF Token
<1>7. AwaitedKnown(c, q)
  <2>1. ASSUME NEW i \in DOMAIN c, Awaited(c[i]) PROVE c[i].id \in DOMAIN q
    BY <1>2, <1>3, <1>5, <2>1
  <2>2. ASSUME NEW i \in DOMAIN c, NEW j \in DOMAIN c, Awaited(c[i]), Awaited(c[j]),
               c[i].id = c[j].id
        PROVE  i = j
    <3>1. CASE c[i] = b[i + 1] /\ i + 1 \in DOMAIN b /\ c[j] = b[j + 1] /\ j + 1 \in DOMAIN b
      <4>1. i + 1 = j + 1
        BY <1>1, <2>2, <3>1 DEF AwaitedKnown
      <4> QED
        BY <1>2, <4>1
    <3>2. CASE c[i] = b[i + 1] /\ i + 1 \in DOMAIN b /\ c[j] = m
      BY <1>3, <1>5, <2>2, <3>2
    <3>3. CASE c[i] = m /\ c[j] = b[j + 1] /\ j + 1 \in DOMAIN b
      BY <1>3, <1>5, <2>2, <3>3
    <3>4. CASE i = Len(b) /\ j = Len(b)
      BY <3>4
    <3> QED
      BY <1>2, <3>1, <3>2, <3>3, <3>4
  <2> QED
    BY <2>1, <2>2 DEF AwaitedKnown
<1>8. OneToken(c, q)
  <2>1. ASSUME NEW i \in DOMAIN c, Token(q, c[i])
        PROVE  \E u \in DOMAIN b : /\ Token(p, b[u])
                                   /\ u = i + 1 \/ (u = 1 /\ i = Len(b))
    <3>1. CASE i + 1 \in DOMAIN b /\ i + 1 # 1 /\ c[i] = b[i + 1]
      BY <1>6, <2>1, <3>1
    <3>2. CASE i = Len(b) /\ ms = <<m>> /\ c[i] = m
      <4>1. Token(p, h)
        BY <1>3, <2>1, <3>2 DEF Token
      <4> QED
        BY <1>2, <3>2, <4>1
    <3> QED
      BY <1>2, <3>1, <3>2
  <2>2. ASSUME NEW i \in DOMAIN c, NEW j \in DOMAIN c, Token(q, c[i]), Token(q, c[j])
        PROVE  i = j
    <3>1. PICK u \in DOMAIN b : Token(p, b[u]) /\ (u = i + 1 \/ (u = 1 /\ i = Len(b)))
      BY <2>1, <2>2
    <3>2. PICK v \in DOMAIN b : Token(p, b[v]) /\ (v = j + 1 \/ (v = 1 /\ j = Len(b)))
      BY <2>1, <2>2
    <3>3. u = v
      BY <1>1, <3>1, <3>2 DEF OneToken
    <3> QED
      BY <1>2, <3>1, <3>2, <3>3
  <2> QED
    BY <2>2 DEF OneToken
<1>9. AllocationAwaited(c, q)
  <2>1. ASSUME NEW id \in DOMAIN q, q[id].set = "ALLOCATION"
        PROVE  \E i \in DOMAIN c : Awaited(c[i]) /\ c[i].id = id
    <3>1. CASE id = k
      BY <1>2, <3>1
    <3>2. CASE id \in DOMAIN p
      <4>1. PICK u \in DOMAIN b : Awaited(b[u]) /\ b[u].id = id
        BY <1>1, <1>3, <2>1, <3>2 DEF AllocationAwaited
      <4> QED
        BY <1>2, <1>5, <4>1
    <3> QED
      BY <1>3, <3>1, <3>2
  <2> QED
    BY <2>1 DEF AllocationAwaited
<1>10. Allocating(q) <=> Allocating(p) \/ r.set = "ALLOCATION"
  BY <1>3 DEF Allocating
<1> QED
  BY <1>2, <1>4, <1>7, <1>8, <1>9, <1>10 DEF BusSound

(* The head is the answer to a procedure, which ends.  If that was an        *)
(* allocation there is no other.                                             *)
LEMMA EndedSound ==
  ASSUME NEW b, NEW p, NEW k, BusSound(b, p, k), b # <<>>, NEW h, h = Head(b), Awaited(h),
         NEW c, c = Tail(b) \o <<>>,
         NEW q, q = [i \in DOMAIN p \ {h.id} |-> p[i]]
  PROVE  /\ BusSound(c, q, k)
         /\ h.id \in DOMAIN p
         /\ p[h.id].set = "ALLOCATION" => ~Allocating(q)
         /\ p[h.id].set # "ALLOCATION" => (Allocating(q) <=> Allocating(p))
<1>0. PICK m, ms : ms = <<>> /\ m = h
  OBVIOUS
<1>1. /\ IsSeq(b) /\ IdsFresh(p, k) /\ AwaitedKnown(b, p)
      /\ OneToken(b, p) /\ AllocationAwaited(b, p)
  BY DEF BusSound
<1>2. /\ IsSeq(c)
      /\ 1 \in DOMAIN b /\ h = b[1]
      /\ \A j \in DOMAIN c : \/ j + 1 \in DOMAIN b /\ j + 1 # 1 /\ c[j] = b[j + 1]
                             \/ j = Len(b) /\ ms = <<m>> /\ c[j] = m
      /\ \A i \in DOMAIN b : i # 1 => i - 1 \in DOMAIN c /\ c[i - 1] = b[i]
      /\ ms = <<m>> => Len(b) \in DOMAIN c /\ c[Len(b)] = m
      /\ \A j \in DOMAIN c : j \in Nat \ {0}
      /\ \A j \in DOMAIN b : j \in Nat
  <2>1. TailShape(b, m, ms, c)
    BY <1>0, <1>1, ms \in {<<>>, <<m>>}, c = Tail(b) \o ms, TailPlus, Zenon
  <2> QED
    BY <2>1 DEF TailShape
<1>3. <<>> # <<m>>
  OBVIOUS
<1>4. \A j \in DOMAIN c : j + 1 \in DOMAIN b /\ j + 1 # 1 /\ c[j] = b[j + 1]
  BY <1>0, <1>2, <1>3
<1>5. /\ h.id \in DOMAIN p
      /\ \A i \in DOMAIN b : i # 1 /\ Awaited(b[i]) => b[i].id \in DOMAIN p /\ b[i].id # h.id
  BY <1>1, <1>2 DEF AwaitedKnown
<1>6. DOMAIN q = DOMAIN p \ {h.id} /\ \A id \in DOMAIN q : q[id] = p[id]
  OBVIOUS
<1>7. IdsFresh(q, k)
  BY <1>1, <1>6 DEF IdsFresh
<1>8. AwaitedKnown(c, q)
  <2>1. ASSUME NEW i \in DOMAIN c, Awaited(c[i]) PROVE c[i].id \in DOMAIN q
    BY <1>4, <1>5, <1>6, <2>1
  <2>2. ASSUME NEW i \in DOMAIN c, NEW j \in DOMAIN c, Awaited(c[i]), Awaited(c[j]),
               c[i].id = c[j].id
        PROVE  i = j
    <3>1. i + 1 = j + 1
      BY <1>1, <1>4, <2>2 DEF AwaitedKnown
    <3> QED
      BY <1>2, <3>1
  <2> QED
    BY <2>1, <2>2 DEF AwaitedKnown
<1>9. OneToken(c, q)
  <2>1. ASSUME NEW i \in DOMAIN c, NEW j \in DOMAIN c, Token(q, c[i]), Token(q, c[j])
        PROVE  i = j
    <3>1. Token(p, b[i + 1]) /\ Token(p, b[j + 1])
      BY <1>4, <1>5, <1>6, <2>1 DEF Token
    <3>2. i + 1 = j + 1
      BY <1>1, <1>4, <3>1 DEF OneToken
    <3> QED
      BY <1>2, <3>2
  <2> QED
    BY <2>1 DEF OneToken
<1>10. AllocationAwaited(c, q)
  <2>1. ASSUME NEW id \in DOMAIN q, q[id].set = "ALLOCATION"
        PROVE  \E i \in DOMAIN c : Awaited(c[i]) /\ c[i].id = id
    <3>1. PICK u \in DOMAIN b : Awaited(b[u]) /\ b[u].id = id
      BY <1>1, <1>6, <2>1 DEF AllocationAwaited
    <3>2. u # 1
      BY <1>2, <1>6, <2>1, <3>1
    <3> QED
      BY <1>2, <3>1, <3>2
  <2> QED
    BY <2>1 DEF AllocationAwaited
<1>11. ASSUME p[h.id].set = "ALLOCATION", NEW id \in DOMAIN q, q[id].set = "ALLOCATION"
       PROVE  FALSE
  <2>1. PICK u \in DOMAIN b : Awaited(b[u]) /\ b[u].id = id
    BY <1>1, <1>6, <1>11 DEF AllocationAwaited
  <2>2. Token(p, b[u]) /\ Token(p, b[1])
    BY <1>2, <1>6, <1>11, <2>1 DEF Token
  <2>3. u = 1
    BY <1>1, <1>2, <2>2 DEF OneToken
  <2> QED
    BY <1>2, <1>6, <2>1, <2>3
<1>12. ASSUME p[h.id].set # "ALLOCATION" PROVE Allocating(q) <=> Allocating(p)
  BY <1>6, <1>12 DEF Allocating
<1> QED
  BY <1>2, <1>5, <1>7, <1>8, <1>9, <1>10, <1>11, <1>12 DEF BusSound, Allocating

(* Something is put on the bus from outside: a request or a packet. *)
LEMMA BroughtSound ==
  ASSUME NEW b, NEW p, NEW k, BusSound(b, p, k), NEW l, l \in Nat, l >= k,
         NEW m, NEW ms \in {<<>>, <<m>>}, NEW c, c = b \o ms, ~Awaited(m), Idle(b, p),
         Carrier(m) => /\ m.type = "RECEIVE"
                       /\ \A i \in DOMAIN b : b[i].type # "RECEIVE"
  PROVE  BusSound(c, p, l) /\ Idle(c, p)
<1>1. /\ IsSeq(b) /\ IdsFresh(p, k) /\ AwaitedKnown(b, p)
      /\ OneToken(b, p) /\ AllocationAwaited(b, p)
  BY DEF BusSound
<1>2. /\ IsSeq(c)
      /\ \A j \in DOMAIN c : \/ j \in DOMAIN b /\ c[j] = b[j]
                             \/ j = Len(b) + 1 /\ ms = <<m>> /\ c[j] = m
      /\ \A i \in DOMAIN b : i \in DOMAIN c /\ c[i] = b[i]
  <2>1. PlusShape(b, m, ms, c)
    BY <1>1, Plus, Zenon
  <2> QED
    BY <2>1 DEF PlusShape
<1>3. IdsFresh(p, l)
  BY <1>1 DEF IdsFresh
<1>4. ASSUME NEW j \in DOMAIN c, Awaited(c[j]) PROVE j \in DOMAIN b /\ c[j] = b[j]
  BY <1>2, <1>4
<1>5. AwaitedKnown(c, p)
  BY <1>1, <1>4 DEF AwaitedKnown
<1>6. AllocationAwaited(c, p)
  BY <1>1, <1>2 DEF AllocationAwaited
<1>7. ASSUME NEW j \in DOMAIN c, Token(p, c[j])
      PROVE  /\ Carrier(c[j]) /\ c[j].type = "RECEIVE"
             /\ \/ j \in DOMAIN b /\ Token(p, b[j]) /\ b[j].type = "RECEIVE" /\ ~Carrier(m)
                \/ j = Len(b) + 1
  BY <1>2, <1>7 DEF Idle, Token
<1>8. OneToken(c, p)
  BY <1>1, <1>2, <1>7 DEF OneToken, Token
<1>9. Idle(c, p)
  BY <1>7 DEF Idle
<1> QED
  BY <1>2, <1>3, <1>5, <1>6, <1>8, <1>9 DEF BusSound

-----------------------------------------------------------------------------
(* The inductive invariant *)

ProcedureInv ==
  /\ DOMAIN bus = Node /\ DOMAIN procedures = Node /\ DOMAIN nextId = Node
  /\ lock \in [Node -> BOOLEAN] /\ draining \in [Node -> BOOLEAN]
  /\ \A n \in Node : /\ BusSound(bus[n], procedures[n], nextId[n])
                     /\ draining[n] = FALSE => Idle(bus[n], procedures[n])
                     /\ lock[n] = TRUE <=> Allocating(procedures[n])

LEMMA InitProcedures == ProtocolInit => ProcedureInv
<1> SUFFICES ASSUME ProtocolInit PROVE ProcedureInv
  OBVIOUS
<1>1. /\ bus = [n \in Node |-> <<SetBcSlots>>] /\ nextId = [n \in Node |-> 1]
      /\ procedures = [n \in Node |-> [i \in {0} |-> [set |-> "BC_SLOTS"]]]
      /\ lock = [n \in Node |-> FALSE] /\ draining = [n \in Node |-> FALSE]
  BY StationAssumption DEF ProtocolInit, Init
<1>2. ASSUME NEW n \in Node
      PROVE  /\ BusSound(bus[n], procedures[n], nextId[n])
             /\ Idle(bus[n], procedures[n]) /\ ~Allocating(procedures[n])
  <2>1. PICK b, p : b = bus[n] /\ p = procedures[n]
    OBVIOUS
  <2>2. b = <<SetBcSlots>> /\ nextId[n] = 1 /\ p = [i \in {0} |-> [set |-> "BC_SLOTS"]]
    BY <1>1, <2>1
  <2>3. /\ DOMAIN b = {1} /\ b[1] = SetBcSlots /\ DOMAIN p = {0} /\ p[0].set = "BC_SLOTS"
        /\ b \in Seq({SetBcSlots})
    BY <2>2
  <2>4. SetBcSlots.id = 0 /\ ~Carrier(SetBcSlots)
    BY DEF SetBcSlots, Carrier
  <2>5. IsSeq(b) /\ IdsFresh(p, 1) /\ AwaitedKnown(b, p)
    BY <2>3, <2>4 DEF IsSeq, IdsFresh, AwaitedKnown
  <2>6. ~Allocating(p) /\ AllocationAwaited(b, p)
    BY <2>3 DEF Allocating, AllocationAwaited
  <2>7. OneToken(b, p)
    BY <2>3 DEF OneToken
  <2>8. ~Token(p, SetBcSlots)
    BY <2>3, <2>4 DEF Token
  <2>9. Idle(b, p)
    BY <2>3, <2>8 DEF Idle
  <2> QED
    BY <2>1, <2>2, <2>5, <2>6, <2>7, <2>9 DEF BusSound
<1> QED
  BY <1>1, <1>2 DEF ProcedureInv

(* A step of one station. *)
LEMMA StationStep ==
  ASSUME ProcedureInv, NEW n \in Node,
         DOMAIN bus' = Node, DOMAIN procedures' = Node, DOMAIN nextId' = Node,
         lock' \in [Node -> BOOLEAN], draining' \in [Node -> BOOLEAN],
         \A x \in Node \ {n} : /\ bus'[x] = bus[x] /\ procedures'[x] = procedures[x]
                               /\ nextId'[x] = nextId[x]
                               /\ lock'[x] = lock[x] /\ draining'[x] = draining[x],
         BusSound(bus'[n], procedures'[n], nextId'[n]),
         draining'[n] = FALSE => Idle(bus'[n], procedures'[n]),
         lock'[n] = TRUE <=> Allocating(procedures'[n])
  PROVE  ProcedureInv'
<1>1. ASSUME NEW x \in Node
      PROVE  /\ BusSound(bus'[x], procedures'[x], nextId'[x])
             /\ draining'[x] = FALSE => Idle(bus'[x], procedures'[x])
             /\ lock'[x] = TRUE <=> Allocating(procedures'[x])
  <2>1. CASE x = n
    BY <2>1
  <2>2. CASE x # n
    BY <2>2 DEF ProcedureInv
  <2> QED
    BY <2>1, <2>2
<1> QED
  BY <1>1 DEF ProcedureInv

-----------------------------------------------------------------------------
(* The steps of an instant *)

(* A bus that is drained is empty. *)
Drained(n) == draining' = [draining EXCEPT ![n] = bus'[n] # <<>>]

LEMMA DrainedIdle ==
  ASSUME ProcedureInv, NEW n \in Node, Drained(n), NEW p
  PROVE  /\ draining' \in [Node -> BOOLEAN]
         /\ \A x \in Node \ {n} : draining'[x] = draining[x]
         /\ draining'[n] = FALSE => Idle(bus'[n], p)
<1>1. draining \in [Node -> BOOLEAN]
  BY DEF ProcedureInv
<1>2. /\ draining' \in [Node -> BOOLEAN]
      /\ \A x \in Node \ {n} : draining'[x] = draining[x]
  BY <1>1 DEF Drained
<1>3. ASSUME draining'[n] = FALSE PROVE bus'[n] = <<>>
  BY <1>1, <1>3 DEF Drained
<1>4. DOMAIN <<>> = {}
  OBVIOUS
<1> QED
  BY <1>2, <1>3, <1>4 DEF Idle

(* ms follows from the head h of a bus without touching the procedures. *)
Follows(h, m, ms) ==
  /\ ms \in {<<>>, <<m>>}
  /\ Awaited(m) => Awaited(h) /\ m.id = h.id
  /\ Carrier(m) => Carrier(h)
  /\ Awaited(h) => ms = <<m>> /\ Awaited(m)

IdsKept(n) == \/ UNCHANGED nextId
              \/ nextId' = [nextId EXCEPT ![n] = @ + 1]

LEMMA HandledInv ==
  ASSUME ProcedureInv, NEW n \in Node, bus[n] # <<>>, Drained(n),
         UNCHANGED <<procedures, lock>>, IdsKept(n),
         NEW m, NEW ms, Follows(Head(bus[n]), m, ms), Answers(n, ms)
  PROVE  ProcedureInv'
<1>1. PICK b, p, k, h, c : /\ b = bus[n] /\ p = procedures[n] /\ k = nextId[n]
                           /\ h = Head(b) /\ c = Tail(b) \o ms
  OBVIOUS
<1>2. BusSound(b, p, k)
  BY <1>1 DEF ProcedureInv
<1>3. /\ DOMAIN bus' = Node /\ bus'[n] = c
      /\ \A x \in Node \ {n} : bus'[x] = bus[x]
  BY <1>1 DEF ProcedureInv, Answers
<1>4. k \in Nat
  BY <1>2 DEF BusSound, IdsFresh
<1>5. /\ DOMAIN nextId' = Node /\ \A x \in Node \ {n} : nextId'[x] = nextId[x]
      /\ nextId'[n] = k \/ nextId'[n] = k + 1
  BY <1>1 DEF ProcedureInv, IdsKept
<1>6. PICK l : l = nextId'[n]
  OBVIOUS
<1>7. l \in Nat /\ l >= k
  BY <1>4, <1>5, <1>6
<1>8. BusSound(c, p, l)
  BY <1>1, <1>2, <1>7, HandledSound, Zenon DEF Follows
<1>9. /\ draining' \in [Node -> BOOLEAN]
      /\ \A x \in Node \ {n} : draining'[x] = draining[x]
      /\ draining'[n] = FALSE => Idle(bus'[n], p)
  BY DrainedIdle
<1>10. /\ DOMAIN procedures' = Node /\ lock' \in [Node -> BOOLEAN]
       /\ procedures'[n] = p
       /\ \A x \in Node : procedures'[x] = procedures[x] /\ lock'[x] = lock[x]
       /\ lock'[n] = TRUE <=> Allocating(procedures'[n])
  BY <1>1, Zenon DEF ProcedureInv
<1>11. BusSound(bus'[n], procedures'[n], nextId'[n])
  BY <1>3, <1>6, <1>8, <1>10
<1>12. draining'[n] = FALSE => Idle(bus'[n], procedures'[n])
  BY <1>9, <1>10
<1> QED
  BY <1>3, <1>5, <1>9, <1>10, <1>11, <1>12, StationStep, Zenon

(* A procedure begins: the request carries its id. *)
LEMMA BegunInv ==
  ASSUME ProcedureInv, NEW n \in Node, bus[n] # <<>>, Drained(n),
         NEW m, NEW r, NEW v, Remember(n, nextId[n], r), FreshId(n), Answers(n, <<m>>),
         Awaited(m), ~Carrier(m), m.id = nextId[n], ~Awaited(Head(bus[n])),
         r.set = "ALLOCATION" => Carrier(Head(bus[n])),
         lock' = [lock EXCEPT ![n] = v],
         r.set = "ALLOCATION" => v = TRUE, r.set # "ALLOCATION" => v = lock[n]
  PROVE  ProcedureInv'
<1>1. PICK b, p, k, h, c, q :
        /\ b = bus[n] /\ p = procedures[n] /\ k = nextId[n] /\ h = Head(b)
        /\ c = Tail(b) \o <<m>>
        /\ q = Extended(p, k, r)
  OBVIOUS
<1>2. BusSound(b, p, k) /\ (lock[n] = TRUE <=> Allocating(p))
  BY <1>1, Zenon DEF ProcedureInv
<1>3. /\ DOMAIN bus' = Node /\ bus'[n] = c
      /\ \A x \in Node \ {n} : bus'[x] = bus[x]
  BY <1>1 DEF ProcedureInv, Answers
<1>4. /\ DOMAIN nextId' = Node /\ \A x \in Node \ {n} : nextId'[x] = nextId[x]
      /\ nextId'[n] = k + 1
  BY <1>1 DEF ProcedureInv, FreshId
<1>5. /\ DOMAIN procedures' = Node /\ procedures'[n] = q
      /\ \A x \in Node \ {n} : procedures'[x] = procedures[x]
  BY <1>1 DEF ProcedureInv, Remember, Extended
<1>6. BusSound(c, q, k + 1) /\ (Allocating(q) <=> Allocating(p) \/ r.set = "ALLOCATION")
  <2>1. /\ b # <<>> /\ h = Head(b) /\ c = Tail(b) \o <<m>>
        /\ q = Extended(p, k, r)
    BY <1>1
  <2>2. Begins(h, m, k, r)
    BY <1>1 DEF Begins
  <2> QED
    BY <1>2, <2>1, <2>2, BegunSound, Zenon
<1>7. /\ draining' \in [Node -> BOOLEAN]
      /\ \A x \in Node \ {n} : draining'[x] = draining[x]
      /\ draining'[n] = FALSE => Idle(bus'[n], q)
  BY DrainedIdle
<1>8. lock \in [Node -> BOOLEAN]
  BY DEF ProcedureInv
<1>9. v \in BOOLEAN
  BY <1>8, Zenon
<1>10. /\ lock' \in [Node -> BOOLEAN] /\ lock'[n] = v
       /\ \A x \in Node \ {n} : lock'[x] = lock[x]
  BY <1>8, <1>9, Zenon
<1>11. v = TRUE <=> Allocating(q)
  BY <1>2, <1>6, Zenon
<1>12. BusSound(bus'[n], procedures'[n], nextId'[n])
  BY <1>3, <1>4, <1>5, <1>6
<1>13. draining'[n] = FALSE => Idle(bus'[n], procedures'[n])
  BY <1>5, <1>7
<1>14. lock'[n] = TRUE <=> Allocating(procedures'[n])
  BY <1>5, <1>10, <1>11, Zenon
<1> QED
  BY <1>3, <1>4, <1>5, <1>7, <1>10, <1>12, <1>13, <1>14, StationStep, Zenon

(* A procedure ends with its answer. *)
LEMMA EndedInv ==
  ASSUME ProcedureInv, NEW n \in Node, bus[n] # <<>>, Drained(n), UNCHANGED nextId,
         Awaited(Head(bus[n])), Answers(n, <<>>), Forget(n, Head(bus[n]).id),
         NEW v, lock' = [lock EXCEPT ![n] = v],
         procedures[n][Head(bus[n]).id].set = "ALLOCATION" => v = FALSE,
         procedures[n][Head(bus[n]).id].set # "ALLOCATION" => v = lock[n]
  PROVE  ProcedureInv'
<1>1. PICK b, p, k, h, c, q :
        /\ b = bus[n] /\ p = procedures[n] /\ k = nextId[n] /\ h = Head(b)
        /\ c = Tail(b) \o <<>>
        /\ q = [i \in DOMAIN p \ {h.id} |-> p[i]]
  OBVIOUS
<1>2. BusSound(b, p, k) /\ (lock[n] = TRUE <=> Allocating(p))
  BY <1>1, Zenon DEF ProcedureInv
<1>3. /\ DOMAIN bus' = Node /\ bus'[n] = c
      /\ \A x \in Node \ {n} : bus'[x] = bus[x]
  BY <1>1 DEF ProcedureInv, Answers
<1>4. DOMAIN nextId' = Node /\ \A x \in Node : nextId'[x] = nextId[x]
  BY DEF ProcedureInv
<1>5. /\ DOMAIN procedures' = Node /\ procedures'[n] = q
      /\ \A x \in Node \ {n} : procedures'[x] = procedures[x]
  BY <1>1 DEF ProcedureInv, Forget
<1>6. /\ BusSound(c, q, k)
      /\ p[h.id].set = "ALLOCATION" => ~Allocating(q)
      /\ p[h.id].set # "ALLOCATION" => (Allocating(q) <=> Allocating(p))
  <2>1. /\ b # <<>> /\ h = Head(b) /\ Awaited(h) /\ c = Tail(b) \o <<>>
        /\ q = [i \in DOMAIN p \ {h.id} |-> p[i]]
    BY <1>1
  <2> QED
    BY <1>2, <2>1, EndedSound, Zenon
<1>7. /\ draining' \in [Node -> BOOLEAN]
      /\ \A x \in Node \ {n} : draining'[x] = draining[x]
      /\ draining'[n] = FALSE => Idle(bus'[n], q)
  BY DrainedIdle
<1>8. lock \in [Node -> BOOLEAN]
  BY DEF ProcedureInv
<1>9. v \in BOOLEAN
  BY <1>8, Zenon
<1>10. /\ lock' \in [Node -> BOOLEAN] /\ lock'[n] = v
       /\ \A x \in Node \ {n} : lock'[x] = lock[x]
  BY <1>8, <1>9, Zenon
<1>11. v = TRUE <=> Allocating(q)
  <2>1. CASE p[h.id].set = "ALLOCATION"
    BY <1>1, <1>6, <2>1, Zenon
  <2>2. CASE p[h.id].set # "ALLOCATION"
    BY <1>1, <1>2, <1>6, <2>2, Zenon
  <2> QED
    BY <2>1, <2>2
<1>12. BusSound(bus'[n], procedures'[n], nextId'[n])
  BY <1>1, <1>3, <1>4, <1>5, <1>6
<1>13. draining'[n] = FALSE => Idle(bus'[n], procedures'[n])
  BY <1>5, <1>7
<1>14. lock'[n] = TRUE <=> Allocating(procedures'[n])
  BY <1>5, <1>10, <1>11, Zenon
<1> QED
  BY <1>3, <1>4, <1>5, <1>7, <1>10, <1>12, <1>13, <1>14, StationStep, Zenon

(* Nothing follows from the head of the bus, and nothing waits for it. *)
LEMMA NothingFollows ==
  ASSUME NEW h, ~Awaited(h) PROVE \E m : Follows(h, m, <<>>)
<1>1. PICK m : m = [to |-> "NOBODY", type |-> "NOTHING"]
  OBVIOUS
<1>2. ~Awaited(m) /\ ~Carrier(m)
  BY <1>1 DEF Awaited, Carrier
<1> QED
  BY <1>2 DEF Follows

(* A message follows that neither answers nor can start anything. *)
LEMMA PlainFollows ==
  ASSUME NEW h, ~Awaited(h), NEW m, ~Awaited(m), ~Carrier(m) PROVE Follows(h, m, <<m>>)
BY DEF Follows

(* The answer follows the request. *)
LEMMA AnswerFollows ==
  ASSUME NEW h, Awaited(h), NEW ok PROVE Follows(h, SetR(h.id, ok), <<SetR(h.id, ok)>>)
<1>1. /\ Awaited(SetR(h.id, ok)) /\ ~Carrier(SetR(h.id, ok)) /\ SetR(h.id, ok).id = h.id
  BY DEF SetR, Awaited, Carrier
<1> QED
  BY <1>1 DEF Follows

(* Every handler of the slot selection. *)
LEMMA SelectionHandlesInv ==
  ASSUME ProcedureInv, NEW n \in Node, SelectionHandles(n), UNCHANGED <<macVars, radioVars>>,
         Drained(n)
  PROVE  ProcedureInv'
<1>1. UNCHANGED <<procedures, lock>>
  BY DEF macVars
<1>2. PICK h : h = Head(bus[n])
  OBVIOUS
<1> SUFFICES /\ bus[n] # <<>> /\ IdsKept(n)
             /\ \E m, ms : Follows(Head(bus[n]), m, ms) /\ Answers(n, ms)
  BY <1>1, HandledInv
<1>3. CASE AllocateReservedSlots(n)
  <2>1. Awaited(h) /\ Answers(n, <<SetR(h.id, TRUE)>>)
    BY <1>2, <1>3 DEF AllocateReservedSlots, Addressed, Awaited
  <2>2. bus[n] # <<>> /\ UNCHANGED nextId
    BY <1>3 DEF AllocateReservedSlots, Addressed
  <2> QED
    BY <1>2, <2>1, <2>2, AnswerFollows DEF IdsKept
<1>4. CASE IgnoreRequest(n) \/ ProcessSetResponse(n) \/ ExternalSlotsAllocated(n)
             \/ ExternalSlotRemoved(n)
  <2>1. /\ h.to = "AI" /\ bus[n] # <<>>
        /\ h.type \in {"GET_PROPOSED", "SETR", "SET_EXTERNAL_USED", "SET_EXTERNAL_FREE"}
        /\ Answers(n, <<>>) /\ UNCHANGED nextId
    BY <1>2, <1>4 DEF IgnoreRequest, ProcessSetResponse, ExternalSlotsAllocated,
       ExternalSlotRemoved, Addressed
  <2>2. ~Awaited(h)
    BY <2>1 DEF Awaited
  <2> QED
    BY <1>2, <2>1, <2>2, NothingFollows DEF IdsKept
<1>5. CASE ProposeSlots(n)
  <2>1. /\ h.to = "AI" /\ h.type = "GET_PROPOSED" /\ bus[n] # <<>> /\ UNCHANGED nextId
        /\ \E accepted : Answers(n, <<[to |-> "MAC", type |-> "GETR_PROPOSED", id |-> h.id,
                                       mac |-> h.mac, slots |-> accepted]>>)
    BY <1>2, <1>5 DEF ProposeSlots, Addressed
  <2>2. PICK m : /\ Answers(n, <<m>>) /\ m.to = "MAC" /\ m.type = "GETR_PROPOSED"
    BY <2>1
  <2>3. ~Awaited(h) /\ ~Awaited(m) /\ ~Carrier(m)
    BY <2>1, <2>2 DEF Awaited, Carrier
  <2> QED
    BY <1>2, <2>1, <2>2, <2>3, PlainFollows DEF IdsKept
<1>6. CASE SelectSlot(n)
  <2>1. /\ h.to = "AI" /\ h.type = "GET_SELECTED" /\ bus[n] # <<>> /\ UNCHANGED nextId
        /\ \E chosen : Answers(n, <<[to |-> "MAC", type |-> "GETR_SELECTED", id |-> h.id,
                                     mac |-> h.mac, slot |-> chosen]>>)
    BY <1>2, <1>6 DEF SelectSlot, Addressed
  <2>2. PICK m : /\ Answers(n, <<m>>) /\ m.to = "MAC" /\ m.type = "GETR_SELECTED"
    BY <2>1
  <2>3. ~Awaited(h) /\ ~Awaited(m) /\ Carrier(h)
    BY <2>1, <2>2 DEF Awaited, Carrier
  <2>4. Follows(h, m, <<m>>)
    BY <2>3 DEF Follows
  <2> QED
    BY <1>2, <2>1, <2>2, <2>4 DEF IdsKept
<1>7. CASE AllocateSlot(n) \/ RefuseAllocation(n) \/ RemoveSlot(n)
  <2>1. /\ h.to = "AI" /\ h.type \in {"SET_ALLOCATION", "SET_REMOVAL"} /\ bus[n] # <<>>
        /\ UNCHANGED nextId
        /\ \E ok : Answers(n, <<SetR(h.id, ok)>>)
    <3>1. CASE AllocateSlot(n)
      BY <1>2, <3>1 DEF AllocateSlot, Addressed
    <3>2. CASE RefuseAllocation(n)
      BY <1>2, <3>2 DEF RefuseAllocation, Addressed
    <3>3. CASE RemoveSlot(n)
      BY <1>2, <3>3 DEF RemoveSlot, Addressed
    <3> QED
      BY <1>7, <3>1, <3>2, <3>3
  <2>2. Awaited(h)
    BY <2>1 DEF Awaited
  <2> QED
    BY <1>2, <2>1, <2>2, AnswerFollows DEF IdsKept
<1>8. CASE ProcessStats(n)
  <2>1. h.to = "AI" /\ h.type = "STATS" /\ bus[n] # <<>>
    BY <1>2, <1>8 DEF ProcessStats, Addressed
  <2>2. PICK due : TakeId(n, due) /\ Answers(n, RemovalRequest(grid[n], due, nextId[n]))
    BY <1>8 DEF ProcessStats
  <2>3. ~Awaited(h)
    BY <2>1 DEF Awaited
  <2>4. CASE due = NoSlot
    <3>1. UNCHANGED nextId /\ Answers(n, <<>>)
      BY <2>2, <2>4 DEF TakeId, RemovalRequest
    <3> QED
      BY <1>2, <2>1, <2>3, <3>1, NothingFollows DEF IdsKept
  <2>5. CASE due # NoSlot
    <3>1. PICK m : m = [to |-> "MAC", type |-> "SET_REMOVAL", id |-> nextId[n],
                        mac |-> grid[n][due].mac, slot |-> due]
      OBVIOUS
    <3>2. IdsKept(n) /\ Answers(n, <<m>>)
      BY <2>2, <2>5, <3>1 DEF TakeId, RemovalRequest, IdsKept
    <3>3. ~Awaited(m) /\ ~Carrier(m)
      BY <3>1 DEF Awaited, Carrier
    <3> QED
      BY <1>2, <2>1, <2>3, <3>2, <3>3, PlainFollows
  <2> QED
    BY <2>4, <2>5
<1> QED
  BY <1>3, <1>4, <1>5, <1>6, <1>7, <1>8 DEF SelectionHandles

(* The handlers of the MAC that leave the procedures alone. *)
LEMMA MacPlainInv ==
  ASSUME ProcedureInv, NEW n \in Node, Drained(n),
         \/ SendProposal(n) \/ RemoveForSelection(n) \/ ReceiveAddSlot(n)
         \/ ReceiveAdvertisement(n) \/ ReceiveAckDelete(n)
         \/ SendSelection(n) /\ Head(bus[n]).slot = NoSlot
  PROVE  ProcedureInv'
<1>1. PICK h : h = Head(bus[n])
  OBVIOUS
<1> SUFFICES /\ bus[n] # <<>> /\ UNCHANGED <<nextId, procedures, lock>>
             /\ \E m, ms : Follows(Head(bus[n]), m, ms) /\ Answers(n, ms)
  BY HandledInv DEF IdsKept
<1>2. CASE SendProposal(n)
  <2>1. /\ h.to = "MAC" /\ h.type = "GETR_PROPOSED" /\ bus[n] # <<>> /\ Answers(n, <<>>)
        /\ UNCHANGED <<nextId, procedures, lock>>
    BY <1>1, <1>2 DEF SendProposal, Addressed, macVars
  <2>2. ~Awaited(h)
    BY <2>1 DEF Awaited
  <2> QED
    BY <1>1, <2>1, <2>2, NothingFollows
<1>3. CASE SendSelection(n) /\ Head(bus[n]).slot = NoSlot
  <2>1. /\ h.to = "MAC" /\ h.type = "GETR_SELECTED" /\ bus[n] # <<>> /\ Answers(n, <<>>)
        /\ UNCHANGED <<nextId, procedures, lock>>
    BY <1>1, <1>3 DEF SendSelection, Addressed, macVars
  <2>2. ~Awaited(h)
    BY <2>1 DEF Awaited
  <2> QED
    BY <1>1, <2>1, <2>2, NothingFollows
<1>4. CASE RemoveForSelection(n)
  <2>1. /\ h.to = "MAC" /\ h.type = "SET_REMOVAL" /\ bus[n] # <<>>
        /\ Answers(n, <<[to |-> "AI", type |-> "SETR", id |-> h.id, result |-> "OK"]>>)
        /\ UNCHANGED <<nextId, procedures, lock>>
    BY <1>1, <1>4 DEF RemoveForSelection, Addressed
  <2>2. PICK m : Answers(n, <<m>>) /\ m.to = "AI" /\ m.type = "SETR"
    BY <2>1
  <2>3. ~Awaited(h) /\ ~Awaited(m) /\ ~Carrier(m)
    BY <2>1, <2>2 DEF Awaited, Carrier
  <2> QED
    BY <1>1, <2>1, <2>2, <2>3, PlainFollows
<1>5. CASE ReceiveAddSlot(n)
  <2>1. /\ h.to = "MAC" /\ h.type = "RECEIVE" /\ bus[n] # <<>>
        /\ Answers(n, <<[to |-> "AI", type |-> "GET_SELECTED", id |-> 0, mac |-> h.src,
                         slots |-> h.packet.slots]>>)
        /\ UNCHANGED <<nextId, procedures, lock>>
    BY <1>1, <1>5 DEF ReceiveAddSlot, Received, Addressed, macVars
  <2>2. PICK m : Answers(n, <<m>>) /\ m.to = "AI" /\ m.type = "GET_SELECTED"
    BY <2>1
  <2>3. ~Awaited(h) /\ ~Awaited(m) /\ Carrier(h)
    BY <2>1, <2>2 DEF Awaited, Carrier
  <2>4. Follows(h, m, <<m>>)
    BY <2>3 DEF Follows
  <2> QED
    BY <1>1, <2>1, <2>2, <2>4
<1>6. CASE ReceiveAdvertisement(n) \/ ReceiveAckDelete(n)
  <2>1. /\ h.to = "MAC" /\ h.type = "RECEIVE" /\ bus[n] # <<>>
        /\ \E m : /\ Answers(n, <<m>>) /\ m.to = "AI"
                  /\ m.type \in {"SET_EXTERNAL_USED", "SET_EXTERNAL_FREE"}
        /\ UNCHANGED <<nextId, procedures, lock>>
    <3>1. CASE ReceiveAdvertisement(n)
      <4>1. PICK m : m = [to |-> "AI", type |-> "SET_EXTERNAL_USED", src |-> h.src,
                          slots |-> h.packet.slots]
        OBVIOUS
      <4>2. m.to = "AI" /\ m.type = "SET_EXTERNAL_USED"
        BY <4>1
      <4> QED
        BY <1>1, <3>1, <4>1, <4>2 DEF ReceiveAdvertisement, Received, Addressed, macVars
    <3>2. CASE ReceiveAckDelete(n)
      <4>1. PICK c : Answers(n, <<[to |-> "AI", type |-> "SET_EXTERNAL_FREE", slot |-> c]>>)
        BY <3>2 DEF ReceiveAckDelete
      <4>2. PICK m : m = [to |-> "AI", type |-> "SET_EXTERNAL_FREE", slot |-> c]
        OBVIOUS
      <4>3. Answers(n, <<m>>) /\ m.to = "AI" /\ m.type = "SET_EXTERNAL_FREE"
        BY <4>1, <4>2
      <4> QED
        BY <1>1, <3>2, <4>3 DEF ReceiveAckDelete, Received, Addressed, macVars
    <3> QED
      BY <1>6, <3>1, <3>2
  <2>2. PICK m : /\ Answers(n, <<m>>) /\ m.to = "AI"
                 /\ m.type \in {"SET_EXTERNAL_USED", "SET_EXTERNAL_FREE"}
    BY <2>1
  <2>3. ~Awaited(h) /\ ~Awaited(m) /\ ~Carrier(m)
    BY <2>1, <2>2 DEF Awaited, Carrier
  <2> QED
    BY <1>1, <2>1, <2>2, <2>3, PlainFollows
<1> QED
  BY <1>2, <1>3, <1>4, <1>5, <1>6

LEMMA SetSlotAllocationInv ==
  ASSUME ProcedureInv, NEW n \in Node, bus[n] # <<>>, Drained(n), NEW mac, NEW mode, NEW c,
         Carrier(Head(bus[n])), ~Awaited(Head(bus[n])), SetSlotAllocation(n, mac, mode, c)
  PROVE  ProcedureInv'
<1>1. PICK m, r, v : /\ m = [to |-> "AI", type |-> "SET_ALLOCATION", id |-> nextId[n],
                             mac |-> mac, mode |-> mode, slot |-> c]
                     /\ r = [set |-> "ALLOCATION", mode |-> mode, mac |-> mac, slot |-> c]
                     /\ v = TRUE
  OBVIOUS
<1>2. /\ Remember(n, nextId[n], r) /\ FreshId(n) /\ Answers(n, <<m>>)
      /\ lock' = [lock EXCEPT ![n] = v]
  BY <1>1 DEF SetSlotAllocation
<1>3. Awaited(m) /\ ~Carrier(m) /\ m.id = nextId[n] /\ r.set = "ALLOCATION"
  BY <1>1 DEF Awaited, Carrier
<1> QED
  BY <1>1, <1>2, <1>3, BegunInv, Zenon

LEMMA SetSlotRemovalInv ==
  ASSUME ProcedureInv, NEW n \in Node, bus[n] # <<>>, Drained(n), NEW mac, NEW c,
         ~Awaited(Head(bus[n])), SetSlotRemoval(n, mac, c)
  PROVE  ProcedureInv'
<1>1. PICK m, r, v : /\ m = [to |-> "AI", type |-> "SET_REMOVAL", id |-> nextId[n],
                             mac |-> mac, slot |-> c]
                     /\ r = [set |-> "REMOVAL", mac |-> mac, slot |-> c]
                     /\ v = lock[n]
  OBVIOUS
<1>2. /\ Remember(n, nextId[n], r) /\ FreshId(n) /\ Answers(n, <<m>>)
      /\ UNCHANGED lock
  BY <1>1 DEF SetSlotRemoval
<1>3. Awaited(m) /\ ~Carrier(m) /\ m.id = nextId[n] /\ r.set # "ALLOCATION"
  BY <1>1 DEF Awaited, Carrier
<1>4. lock' = [lock EXCEPT ![n] = v]
  BY <1>1, <1>2, Zenon DEF ProcedureInv
<1> QED
  BY <1>1, <1>2, <1>3, <1>4, BegunInv, Zenon

(* Every handler of the MAC. *)
LEMMA MacHandlesInv ==
  ASSUME ProcedureInv, NEW n \in Node, MacHandles(n), Drained(n)
  PROVE  ProcedureInv'
<1>1. PICK h : h = Head(bus[n])
  OBVIOUS
<1>2. CASE \/ SendProposal(n) \/ RemoveForSelection(n) \/ ReceiveAddSlot(n)
           \/ ReceiveAdvertisement(n) \/ ReceiveAckDelete(n)
           \/ SendSelection(n) /\ Head(bus[n]).slot = NoSlot
  BY <1>2, MacPlainInv
<1>3. CASE SendSelection(n) /\ Head(bus[n]).slot # NoSlot
  <2>1. /\ h.to = "MAC" /\ h.type = "GETR_SELECTED" /\ bus[n] # <<>>
        /\ SetSlotAllocation(n, h.mac, "RX", h.slot)
    BY <1>1, <1>3 DEF SendSelection, Addressed
  <2>2. Carrier(h) /\ ~Awaited(h)
    BY <2>1 DEF Carrier, Awaited
  <2> QED
    BY <1>1, <2>1, <2>2, SetSlotAllocationInv
<1>4. CASE ReceiveResult(n)
  <2>1. /\ h.to = "MAC" /\ h.type = "RECEIVE" /\ bus[n] # <<>>
        /\ \E c : SetSlotAllocation(n, h.src, "TX", c)
    BY <1>1, <1>4 DEF ReceiveResult, Received, Addressed
  <2>2. Carrier(h) /\ ~Awaited(h)
    BY <2>1 DEF Carrier, Awaited
  <2> QED
    BY <1>1, <2>1, <2>2, SetSlotAllocationInv
<1>5. CASE ReceiveDelete(n)
  <2>1. /\ h.to = "MAC" /\ h.type = "RECEIVE" /\ bus[n] # <<>>
        /\ \E c : SetSlotRemoval(n, h.src, c)
    BY <1>1, <1>5 DEF ReceiveDelete, Received, Addressed
  <2>2. ~Awaited(h)
    BY <2>1 DEF Awaited
  <2> QED
    BY <1>1, <2>1, <2>2, SetSlotRemovalInv
<1>6. CASE FinishAllocation(n)
  <2>1. /\ h.to = "MAC" /\ h.type = "SETR" /\ bus[n] # <<>>
        /\ procedures[n][h.id].set = "ALLOCATION"
        /\ lock' = [lock EXCEPT ![n] = FALSE]
        /\ Forget(n, h.id) /\ Answers(n, <<>>) /\ UNCHANGED nextId
    BY <1>1, <1>6 DEF FinishAllocation, Addressed
  <2>2. Awaited(h)
    BY <2>1 DEF Awaited
  <2> QED
    BY <1>1, <2>1, <2>2, EndedInv, Zenon
<1>7. CASE FinishRemoval(n) \/ FinishOther(n)
  <2>1. /\ h.to = "MAC" /\ h.type = "SETR" /\ bus[n] # <<>>
        /\ Known(n, h.id) => procedures[n][h.id].set \in {"REMOVAL", "BC_SLOTS"}
        /\ UNCHANGED <<lock, nextId>>
        /\ Forget(n, h.id) /\ Answers(n, <<>>)
    BY <1>1, <1>7 DEF FinishRemoval, FinishOther, Addressed
  <2>2. Awaited(h)
    BY <2>1 DEF Awaited
  <2>3. Known(n, h.id)
    <3>1. BusSound(bus[n], procedures[n], nextId[n])
      BY DEF ProcedureInv
    <3>2. 1 \in DOMAIN bus[n] /\ h = bus[n][1]
      <4>1. PICK S : bus[n] \in Seq(S)
        BY <3>1 DEF BusSound, IsSeq
      <4> QED
        BY <1>1, <2>1, <4>1
    <3> QED
      BY <2>2, <3>1, <3>2 DEF BusSound, AwaitedKnown, Known
  <2>4. procedures[n][h.id].set # "ALLOCATION"
    BY <2>1, <2>3
  <2>5. PICK v : v = lock[n]
    OBVIOUS
  <2>6. lock' = [lock EXCEPT ![n] = v]
    BY <2>1, <2>5, Zenon DEF ProcedureInv
  <2> QED
    BY <1>1, <2>1, <2>2, <2>4, <2>5, <2>6, EndedInv, Zenon
<1> QED
  BY <1>2, <1>3, <1>4, <1>5, <1>6, <1>7 DEF MacHandles

-----------------------------------------------------------------------------
(* What a tick brings *)

(* What comes to the bus of x, if anything does. *)
Brings(x, m, ms) ==
  /\ ms \in {<<>>, <<m>>} /\ ~Awaited(m)
  /\ Carrier(m) => /\ m.type = "RECEIVE"
                   /\ \A i \in DOMAIN bus[x] : bus[x][i].type # "RECEIVE"

LEMMA BroughtInv ==
  ASSUME ProcedureInv, \A x \in Node : draining[x] = FALSE,
         UNCHANGED <<procedures, lock, draining>>, DOMAIN bus' = Node, DOMAIN nextId' = Node,
         \A x \in Node :
           \/ bus'[x] = bus[x] /\ nextId'[x] = nextId[x]
           \/ /\ nextId'[x] = nextId[x] \/ nextId'[x] = nextId[x] + 1
              /\ \E m, ms : Brings(x, m, ms) /\ bus'[x] = bus[x] \o ms
  PROVE  ProcedureInv'
<1>1. ASSUME NEW x \in Node
      PROVE  BusSound(bus'[x], procedures[x], nextId'[x]) /\ Idle(bus'[x], procedures[x])
  <2>1. PICK b, p, k, l, c : /\ b = bus[x] /\ p = procedures[x] /\ k = nextId[x]
                             /\ l = nextId'[x] /\ c = bus'[x]
    OBVIOUS
  <2>2. BusSound(b, p, k) /\ Idle(b, p)
    BY <2>1, Zenon DEF ProcedureInv
  <2>3. CASE bus'[x] = bus[x] /\ nextId'[x] = nextId[x]
    BY <2>1, <2>2, <2>3
  <2>4. CASE /\ nextId'[x] = nextId[x] \/ nextId'[x] = nextId[x] + 1
             /\ \E m, ms : Brings(x, m, ms) /\ bus'[x] = bus[x] \o ms
    <3>1. PICK m, ms : Brings(x, m, ms) /\ bus'[x] = bus[x] \o ms
      BY <2>4
    <3>2. k \in Nat
      BY <2>2 DEF BusSound, IdsFresh
    <3>3. l \in Nat /\ l >= k
      BY <2>1, <2>4, <3>2
    <3>4. /\ c = b \o ms /\ ms \in {<<>>, <<m>>} /\ ~Awaited(m)
          /\ Carrier(m) => /\ m.type = "RECEIVE"
                           /\ \A i \in DOMAIN b : b[i].type # "RECEIVE"
      BY <2>1, <3>1 DEF Brings
    <3>5. BusSound(c, p, l) /\ Idle(c, p)
      BY <2>2, <3>3, <3>4, BroughtSound, Zenon
    <3> QED
      BY <2>1, <3>5
  <2> QED
    BY <1>1, <2>3, <2>4
<1> QED
  BY <1>1, Zenon DEF ProcedureInv

LEMMA AppendIsConcat ==
  ASSUME NEW b, IsSeq(b), NEW m PROVE Append(b, m) = b \o <<m>>
<1>1. PICK S : b \in Seq(S)
  BY DEF IsSeq
<1>2. PICK T : T = S \cup {m}
  OBVIOUS
<1>3. b \in Seq(T)
  <2>1. b \in [1 .. Len(b) -> S] /\ Len(b) \in Nat
    BY <1>1
  <2>2. b \in [1 .. Len(b) -> T]
    BY <1>2, <2>1
  <2> QED
    BY <1>1, <1>2
<1>4. m \in T
  BY <1>2
<1> QED
  BY <1>3, <1>4

LEMMA RequestInv ==
  ASSUME ProcedureInv, \A x \in Node : draining[x] = FALSE, UNCHANGED draining,
         NEW n \in Node, NEW m, Request(n, m), m.to = "AI", m.type \in {"GET_PROPOSED", "STATS"}
  PROVE  ProcedureInv'
<1>1. /\ bus' = [bus EXCEPT ![n] = Append(@, m)] /\ UNCHANGED <<nextId, procedures, lock>>
  BY DEF Request, macVars
<1>2. /\ DOMAIN bus = Node /\ DOMAIN nextId = Node /\ IsSeq(bus[n])
  BY DEF ProcedureInv, BusSound
<1>3. ~Awaited(m) /\ ~Carrier(m)
  BY DEF Awaited, Carrier
<1>4. PICK ms : ms = <<m>>
  OBVIOUS
<1>5. /\ DOMAIN bus' = Node /\ bus'[n] = bus[n] \o ms
      /\ \A x \in Node \ {n} : bus'[x] = bus[x]
  BY <1>1, <1>2, <1>4, AppendIsConcat
<1>6. Brings(n, m, ms)
  BY <1>3, <1>4 DEF Brings
<1> QED
  BY <1>1, <1>2, <1>5, <1>6, BroughtInv

LEMMA SelectionTimersInv ==
  ASSUME ProcedureInv, \A x \in Node : draining[x] = FALSE, UNCHANGED draining,
         NEW n \in Node, SelectionTimers(n)
  PROVE  ProcedureInv'
<1>1. UNCHANGED <<procedures, lock>>
  BY DEF SelectionTimers, macVars
<1>2. PICK g, due : /\ TakeId(n, due)
                    /\ bus' = [bus EXCEPT ![n] = @ \o RemovalRequest(g, due, nextId[n])]
  BY DEF SelectionTimers, InterloopSteps
<1>3. DOMAIN bus = Node /\ DOMAIN nextId = Node
  BY DEF ProcedureInv
<1>4. PICK m, ms : /\ m = [to |-> "MAC", type |-> "SET_REMOVAL", id |-> nextId[n],
                           mac |-> g[due].mac, slot |-> due]
                   /\ ms = RemovalRequest(g, due, nextId[n])
  OBVIOUS
<1>5. ms \in {<<>>, <<m>>}
  BY <1>4 DEF RemovalRequest
<1>6. ~Awaited(m) /\ ~Carrier(m)
  BY <1>4 DEF Awaited, Carrier
<1>7. Brings(n, m, ms)
  BY <1>5, <1>6 DEF Brings
<1>8. /\ DOMAIN bus' = Node /\ bus'[n] = bus[n] \o ms
      /\ \A x \in Node \ {n} : bus'[x] = bus[x]
  BY <1>2, <1>3, <1>4
<1>9. /\ DOMAIN nextId' = Node /\ \A x \in Node \ {n} : nextId'[x] = nextId[x]
      /\ nextId'[n] = nextId[n] \/ nextId'[n] = nextId[n] + 1
  BY <1>2, <1>3 DEF TakeId
<1> QED
  BY <1>1, <1>7, <1>8, <1>9, BroughtInv

LEMMA TransmitInv ==
  ASSUME ProcedureInv, \A x \in Node : draining[x] = FALSE, UNCHANGED draining,
         NEW n \in Node, Transmit(n)
  PROVE  ProcedureInv'
<1>1. PICK heard, r : /\ r = Reception(n, Head(queue[n]).packet)
                      /\ \A m \in heard : CanReceive(m)
                      /\ bus' = [m \in Node |-> IF m \in heard THEN Append(bus[m], r)
                                                ELSE bus[m]]
  <2>1. PICK r : r = Reception(n, Head(queue[n]).packet)
    OBVIOUS
  <2>2. \E heard : /\ \A m \in heard : CanReceive(m)
                   /\ bus' = [m \in Node |->
                                 IF m \in heard
                                 THEN Append(bus[m], Reception(n, Head(queue[n]).packet))
                                 ELSE bus[m]]
    BY Zenon DEF Transmit
  <2> QED
    BY <2>1, <2>2, Zenon
<1>2. UNCHANGED <<nextId, procedures, lock>>
  BY DEF Transmit, macVars
<1>3. DOMAIN nextId = Node /\ DOMAIN bus' = Node
  BY <1>1 DEF ProcedureInv
<1>4. ~Awaited(r) /\ r.type = "RECEIVE"
  BY <1>1 DEF Reception, Awaited
<1>5. PICK ms : ms = <<r>>
  OBVIOUS
<1>6. ASSUME NEW x \in Node, x \in heard PROVE Brings(x, r, ms) /\ bus'[x] = bus[x] \o ms
  <2>1. IsSeq(bus[x])
    BY DEF ProcedureInv, BusSound
  <2>2. bus'[x] = bus[x] \o ms
    BY <1>1, <1>5, <1>6, <2>1, AppendIsConcat
  <2>3. \A i \in DOMAIN bus[x] : bus[x][i].type # "RECEIVE"
    BY <1>1, <1>6 DEF CanReceive
  <2> QED
    BY <1>4, <1>5, <2>2, <2>3 DEF Brings
<1>7. \A x \in Node : x \notin heard => bus'[x] = bus[x]
  BY <1>1
<1> QED
  BY <1>2, <1>3, <1>6, <1>7, BroughtInv

LEMMA TickInv ==
  ASSUME ProcedureInv, NEW n \in Node, Tick(n)
  PROVE  ProcedureInv'
<1>1. \A x \in Node : draining[x] = FALSE
  BY Zenon DEF ProcedureInv, Tick
<1>2. UNCHANGED draining
  BY DEF Tick
<1>3. CASE AppSend(n) \/ QueueTimeout(n)
  <2>1. PICK mac \in Node : Request(n, GetProposedSlots(mac))
    BY <1>3 DEF AppSend, QueueTimeout, RequestSlots
  <2>2. /\ GetProposedSlots(mac).to = "AI"
        /\ GetProposedSlots(mac).type \in {"GET_PROPOSED", "STATS"}
    BY DEF GetProposedSlots
  <2> QED
    BY <1>1, <1>2, <2>1, <2>2, RequestInv
<1>4. CASE SendStatistics(n)
  <2>1. PICK c \in Cell : Request(n, [to |-> "AI", type |-> "STATS", slot |-> c])
    BY <1>4 DEF SendStatistics
  <2>2. PICK m : m = [to |-> "AI", type |-> "STATS", slot |-> c]
    OBVIOUS
  <2>3. Request(n, m) /\ m.to = "AI" /\ m.type \in {"GET_PROPOSED", "STATS"}
    BY <2>1, <2>2
  <2> QED
    BY <1>1, <1>2, <2>3, RequestInv
<1>5. CASE SelectionTimers(n)
  BY <1>1, <1>2, <1>5, SelectionTimersInv
<1>6. CASE Transmit(n)
  BY <1>1, <1>2, <1>6, TransmitInv
<1>7. CASE Advertise(n) \/ Retransmit(n)
  <2>1. UNCHANGED <<bus, nextId, procedures, lock>>
    BY <1>7 DEF Advertise, Retransmit, selVars, macVars
  <2> QED
    BY <1>2, <2>1 DEF ProcedureInv
<1> QED
  BY <1>3, <1>4, <1>5, <1>6, <1>7 DEF Tick

-----------------------------------------------------------------------------
(* The theorems *)

LEMMA ProcedureInvInductive == ProcedureInv /\ [ProtocolNext]_vars => ProcedureInv'
<1>1. ASSUME ProcedureInv, NEW n \in Node, Drain(n) PROVE ProcedureInv'
  <2>1. Drained(n)
    BY <1>1 DEF Drain, Drained
  <2> QED
    BY <1>1, <2>1, MacHandlesInv, SelectionHandlesInv DEF Drain
<1>2. ASSUME ProcedureInv, UNCHANGED vars PROVE ProcedureInv'
  BY <1>2 DEF vars, selVars, macVars, ProcedureInv
<1> QED
  BY <1>1, <1>2, TickInv DEF ProtocolNext

(* Every answer on a bus has its procedure, and every open allocation its    *)
(* answer on the way; one message at most starts an allocation or may yet,   *)
(* so the lock of the MAC is held exactly while an allocation is open.       *)
THEOREM ProcedureInvariant == ProtocolSpec => []ProcedureInv
BY InitProcedures, ProcedureInvInductive, PTL DEF ProtocolSpec

(* The case that process_AI_message calls impossible is: every answer finds *)
(* the procedure it answers, and no two answers the same one.               *)
THEOREM AnswersExpectedHolds == ProtocolSpec => []AnswersExpected
<1>1. ProcedureInv => AnswersExpected
  <2> SUFFICES ASSUME ProcedureInv, NEW n \in Node, NEW i \in DOMAIN bus[n],
                      bus[n][i].to = "MAC", bus[n][i].type = "SETR"
               PROVE  /\ Known(n, bus[n][i].id)
                      /\ \A j \in DOMAIN bus[n] :
                           bus[n][j].to = "MAC" /\ bus[n][j].type = "SETR"
                             /\ bus[n][j].id = bus[n][i].id => i = j
    BY DEF AnswersExpected
  <2>1. AwaitedKnown(bus[n], procedures[n])
    BY DEF ProcedureInv, BusSound
  <2> QED
    BY <2>1 DEF AwaitedKnown, Awaited, Known
<1> QED
  BY <1>1, ProcedureInvariant, PTL

(* The lock is held exactly while an allocation waits for its answer. *)
THEOREM LockHeldHolds == ProtocolSpec => []LockHeld
<1>1. ProcedureInv => LockHeld
  BY Zenon DEF ProcedureInv, LockHeld, Allocating
<1> QED
  BY <1>1, ProcedureInvariant, PTL

-----------------------------------------------------------------------------
(* The ids that are left.  A message that may yet take an id has one set      *)
(* aside, so the statistics of an instant never take the id of a packet that  *)
(* is handled after them.                                                     *)

Reserving(m) == Carrier(m) \/ (m.to = "AI" /\ m.type = "STATS")
Reservers(b) == {i \in DOMAIN b : Reserving(b[i])}
IdsLeft(b, k) == Reservers(b) = {} \/ Cardinality(Reservers(b)) + k <= MaxId

LEMMA ReserversFinite ==
  ASSUME NEW b, IsSeq(b)
  PROVE  /\ IsFiniteSet(Reservers(b)) /\ Cardinality(Reservers(b)) \in Nat
         /\ Len(b) \in Nat /\ Cardinality(Reservers(b)) <= Len(b)
<1>1. PICK S : b \in Seq(S)
  BY DEF IsSeq
<1>2. Len(b) \in Nat /\ DOMAIN b = 1 .. Len(b)
  BY <1>1
<1>3. IsFiniteSet(1 .. Len(b)) /\ Cardinality(1 .. Len(b)) = Len(b)
  <2>1. 1 \in Int /\ Len(b) \in Int
    BY <1>2
  <2>2. /\ IsFiniteSet(1 .. Len(b))
        /\ Cardinality(1 .. Len(b)) = IF 1 > Len(b) THEN 0 ELSE Len(b) - 1 + 1
    BY <2>1, FS_Interval, Zenon
  <2> QED
    BY <1>2, <2>2
<1>4. Reservers(b) \in SUBSET (1 .. Len(b))
  BY <1>2 DEF Reservers
<1>5. IsFiniteSet(Reservers(b)) /\ Cardinality(Reservers(b)) <= Len(b)
  BY <1>3, <1>4, FS_Subset
<1> QED
  BY <1>2, <1>5, FS_CardinalityType

(* The head is handled: what it had set aside is for what follows from it. *)
LEMMA HandledReservers ==
  ASSUME NEW b, IsSeq(b), b # <<>>, NEW h, h = Head(b),
         NEW m, NEW ms \in {<<>>, <<m>>}, NEW c, c = Tail(b) \o ms,
         ms = <<m>> /\ Reserving(m) => Reserving(h)
  PROVE  /\ Cardinality(Reservers(c)) <= Cardinality(Reservers(b))
         /\ Reserving(h) /\ ~(ms = <<m>> /\ Reserving(m))
              => Cardinality(Reservers(c)) + 1 <= Cardinality(Reservers(b))
         /\ IsSeq(c)
<1>1. /\ IsSeq(c)
      /\ 1 \in DOMAIN b /\ h = b[1]
      /\ \A j \in DOMAIN c : \/ j + 1 \in DOMAIN b /\ j + 1 # 1 /\ c[j] = b[j + 1]
                             \/ j = Len(b) /\ ms = <<m>> /\ c[j] = m
      /\ \A j \in DOMAIN c : j \in Nat \ {0}
  <2>1. TailShape(b, m, ms, c)
    BY TailPlus, Zenon
  <2> QED
    BY <2>1 DEF TailShape
<1>2. DOMAIN b = 1 .. Len(b) /\ Len(b) \in Nat
  BY DEF IsSeq
<1>3. PICK f : f = [j \in Reservers(c) |-> IF j + 1 \in DOMAIN b THEN j + 1 ELSE 1]
  OBVIOUS
<1>4. ASSUME NEW j \in Reservers(c)
      PROVE  \/ j + 1 \in Reservers(b) /\ f[j] = j + 1
             \/ /\ j = Len(b) /\ ms = <<m>> /\ Reserving(m) /\ 1 \in Reservers(b)
                /\ f[j] = 1
  <2>1. j \in DOMAIN c /\ Reserving(c[j])
    BY DEF Reservers
  <2>2. CASE j + 1 \in DOMAIN b /\ c[j] = b[j + 1]
    BY <1>3, <2>1, <2>2 DEF Reservers
  <2>3. CASE j = Len(b) /\ ms = <<m>> /\ c[j] = m
    <3>1. j + 1 \notin DOMAIN b
      <4>1. Len(b) + 1 \notin 1 .. Len(b)
        BY <1>2
      <4> QED
        BY <1>2, <2>3, <4>1
    <3> QED
      BY <1>1, <1>3, <2>1, <2>3, <3>1 DEF Reservers
  <2> QED
    BY <1>1, <2>1, <2>2, <2>3
<1>5. \A j \in Reservers(c) : j \in Nat \ {0}
  BY <1>1 DEF Reservers
<1>6. ASSUME NEW T, \A j \in Reservers(c) : f[j] \in T PROVE f \in Injection(Reservers(c), T)
  <2>1. f \in [Reservers(c) -> T]
    BY <1>3, <1>6
  <2>2. ASSUME NEW x \in Reservers(c), NEW y \in Reservers(c), f[x] = f[y] PROVE x = y
    BY <1>2, <1>4, <1>5, <2>2
  <2> QED
    BY <2>1, <2>2 DEF Injection, IsInjective
<1>7. IsFiniteSet(Reservers(b)) /\ Cardinality(Reservers(b)) \in Nat
  BY ReserversFinite
<1>8. Cardinality(Reservers(c)) <= Cardinality(Reservers(b))
  <2>1. f \in Injection(Reservers(c), Reservers(b))
    BY <1>4, <1>6
  <2> QED
    BY <1>7, <2>1, FS_Injection
<1>9. ASSUME Reserving(h), ~(ms = <<m>> /\ Reserving(m))
      PROVE  Cardinality(Reservers(c)) + 1 <= Cardinality(Reservers(b))
  <2>1. PICK T : T = Reservers(b) \ {1}
    OBVIOUS
  <2>2. IsFiniteSet(T) /\ Cardinality(T) = Cardinality(Reservers(b)) - 1
    <3>1. 1 \in Reservers(b)
      BY <1>1, <1>9 DEF Reservers
    <3> QED
      BY <1>7, <2>1, <3>1, FS_RemoveElement
  <2>3. \A j \in Reservers(c) : f[j] \in T
    BY <1>4, <1>5, <1>9, <2>1
  <2>4. f \in Injection(Reservers(c), T)
    BY <1>6, <2>3
  <2>5. Cardinality(Reservers(c)) <= Cardinality(T)
    BY <2>2, <2>4, FS_Injection
  <2>6. Cardinality(Reservers(c)) \in Nat
    BY <1>1, ReserversFinite
  <2> QED
    BY <1>7, <2>2, <2>5, <2>6
<1> QED
  BY <1>1, <1>8, <1>9

(* What follows from the head h, and the next id before and after. *)
TakesOwnId(h, m, ms, k, l) ==
  /\ ms = <<m>> /\ Reserving(m) => Reserving(h)
  /\ l = k \/ (l = k + 1 /\ Reserving(h) /\ ~(ms = <<m>> /\ Reserving(m)))

LEMMA HandledIds ==
  ASSUME NEW b, IsSeq(b), b # <<>>, NEW k \in Nat, IdsLeft(b, k),
         NEW m, NEW ms \in {<<>>, <<m>>}, NEW c, c = Tail(b) \o ms,
         NEW l, TakesOwnId(Head(b), m, ms, k, l)
  PROVE  /\ IdsLeft(c, l)
         /\ Reserving(Head(b)) => k < MaxId
<1>1. PICK h : h = Head(b)
  OBVIOUS
<1>2. /\ Cardinality(Reservers(c)) <= Cardinality(Reservers(b))
      /\ Reserving(h) /\ ~(ms = <<m>> /\ Reserving(m))
              => Cardinality(Reservers(c)) + 1 <= Cardinality(Reservers(b))
      /\ IsSeq(c)
  BY <1>1, HandledReservers DEF TakesOwnId
<1>3. /\ Cardinality(Reservers(c)) \in Nat /\ Cardinality(Reservers(b)) \in Nat
      /\ IsFiniteSet(Reservers(c)) /\ IsFiniteSet(Reservers(b))
  BY <1>2, ReserversFinite
<1>4. /\ Cardinality(Reservers(c)) = 0 <=> Reservers(c) = {}
      /\ Cardinality(Reservers(b)) = 0 <=> Reservers(b) = {}
  BY <1>3, FS_EmptySet
<1>5. MaxId \in Nat
  BY BoundAssumption
<1>6. ASSUME Reserving(h) PROVE Reservers(b) # {}
  <2>1. 1 \in DOMAIN b /\ b[1] = h
    BY <1>1 DEF IsSeq
  <2> QED
    BY <1>6, <2>1 DEF Reservers
<1>7. CASE l = k
  BY <1>1, <1>2, <1>3, <1>4, <1>5, <1>6, <1>7 DEF IdsLeft
<1>8. CASE l = k + 1 /\ Reserving(h) /\ ~(ms = <<m>> /\ Reserving(m))
  BY <1>1, <1>2, <1>3, <1>4, <1>5, <1>6, <1>8 DEF IdsLeft
<1> QED
  BY <1>1, <1>7, <1>8 DEF TakesOwnId

(* A tick finds an id for everything on the bus and one more. *)
LEMMA TickIds ==
  ASSUME NEW b, IsSeq(b), NEW k \in Nat, k + Len(b) < MaxId,
         NEW m, NEW ms \in {<<>>, <<m>>}, NEW c, c = b \o ms,
         NEW l, l = k \/ (l = k + 1 /\ ~Reserving(m))
  PROVE  IdsLeft(c, l)
<1>1. PlusShape(b, m, ms, c)
  BY Plus, Zenon
<1>2. IsSeq(c) /\ Len(c) <= Len(b) + 1 /\ Len(b) \in Nat /\ Len(c) \in Nat
  <2>1. IsSeq(c) /\ \A j \in DOMAIN c : j \in DOMAIN b \/ j = Len(b) + 1
    BY <1>1 DEF PlusShape
  <2>2. /\ Len(b) \in Nat /\ Len(c) \in Nat
        /\ DOMAIN b = 1 .. Len(b) /\ DOMAIN c = 1 .. Len(c)
    BY <2>1 DEF IsSeq
  <2>3. CASE Len(c) = 0
    BY <2>1, <2>2, <2>3
  <2>4. CASE Len(c) # 0
    <3>1. Len(c) \in DOMAIN c
      BY <2>2, <2>4
    <3> QED
      BY <2>1, <2>2, <3>1
  <2> QED
    BY <2>3, <2>4
<1>3. Cardinality(Reservers(c)) \in Nat /\ Cardinality(Reservers(c)) <= Len(c)
  BY <1>2, ReserversFinite
<1>4. MaxId \in Nat
  BY BoundAssumption
<1>5. CASE l = k
  BY <1>2, <1>3, <1>4, <1>5 DEF IdsLeft
<1>6. CASE l = k + 1 /\ ~Reserving(m)
  <2>1. Reservers(c) \subseteq Reservers(b)
    BY <1>1, <1>6 DEF PlusShape, Reservers
  <2>2. /\ IsFiniteSet(Reservers(b)) /\ Cardinality(Reservers(b)) \in Nat
        /\ Cardinality(Reservers(b)) <= Len(b)
    BY ReserversFinite
  <2>3. Cardinality(Reservers(c)) <= Cardinality(Reservers(b))
    BY <2>1, <2>2, FS_Subset
  <2> QED
    BY <1>2, <1>3, <1>4, <1>6, <2>2, <2>3 DEF IdsLeft
<1> QED
  BY <1>5, <1>6

-----------------------------------------------------------------------------
(* The types of the MAC's state, and the invariant of the whole protocol *)

PacketsTyped == queue \in [Node -> Seq(Entry)] /\ unacked \in [Node -> Seq(Entry)]

ProceduresTyped ==
  \A n \in Node : /\ DOMAIN procedures[n] \subseteq Id
                  /\ \A id \in DOMAIN procedures[n] : procedures[n][id] \in Procedure

TableTyped == table \in [Node -> [Cell -> TableEntry]]

(* Before a packet is received, a bus is no longer than the timers made it. *)
BusShort ==
  \A n \in Node :
    draining[n] = FALSE /\ (\A i \in DOMAIN bus[n] : bus[n][i].type # "RECEIVE")
    => Len(bus[n]) <= MaxBus

ProtocolInv ==
  /\ IInv /\ ProcedureInv
  /\ TableTyped /\ ProceduresTyped /\ PacketsTyped
  /\ \A n \in Node : IdsLeft(bus[n], nextId[n])
  /\ BusShort

(* The type of a message to the MAC decides what it carries. *)
LEMMA MacMessage ==
  ASSUME NEW m \in Message, m.to = "MAC"
  PROVE  /\ m.type = "GETR_PROPOSED" => m.mac \in Node /\ m.slots \subseteq Cell
         /\ m.type = "GETR_SELECTED" => m.mac \in Node /\ m.slot \in Cell \cup {NoSlot}
         /\ m.type = "SET_REMOVAL"   => m.id \in Id /\ m.mac \in Node /\ m.slot \in Cell
         /\ m.type = "SETR"          => m.id \in Id /\ m.result \in Result
         /\ m.type = "RECEIVE"       => m.src \in Node /\ m.packet \in Packet
<1>1. m \in ToMac
  BY DEF Message, ToAI, MacRequest, GetProposed, GetSelected, SetAllocation, SetRemoval,
         SetExternalUsed, SetExternalFree, RemovalDone, Stats, SetBcSlots
<1>2. CASE m \in RadioMessage
  <2>1. m \in Receptions
    BY <1>2, OpenAssumption
  <2> QED
    BY <2>1 DEF Receptions
<1>3. CASE m \notin RadioMessage
  BY <1>1, <1>3 DEF ToMac
<1> QED
  BY <1>2, <1>3

(* What the MAC sends is what SlotSelection allows it to. *)
LEMMA MacRequests ==
  ASSUME NEW id \in Id, NEW mac \in Node, NEW c \in Cell, NEW slots \in SUBSET Cell,
         NEW mode \in Mode
  PROVE  /\ [to |-> "AI", type |-> "GET_PROPOSED", id |-> id, mac |-> mac] \in MacRequest
         /\ [to |-> "AI", type |-> "GET_SELECTED", id |-> id, mac |-> mac,
             slots |-> slots] \in MacRequest
         /\ [to |-> "AI", type |-> "SET_ALLOCATION", id |-> id, mac |-> mac,
             mode |-> mode, slot |-> c] \in MacRequest
         /\ [to |-> "AI", type |-> "SET_REMOVAL", id |-> id, mac |-> mac,
             slot |-> c] \in MacRequest
         /\ [to |-> "AI", type |-> "SET_EXTERNAL_USED", src |-> mac,
             slots |-> slots] \in MacRequest
         /\ [to |-> "AI", type |-> "SET_EXTERNAL_FREE", slot |-> c] \in MacRequest
         /\ [to |-> "AI", type |-> "SETR", id |-> id, result |-> "OK"] \in MacRequest
         /\ [to |-> "AI", type |-> "STATS", slot |-> c] \in MacRequest
<1>1. id \in RequestId /\ slots \in Offer /\ slots \in Announcement
  BY OpenAssumption
<1>2. [to |-> "AI", type |-> "GET_PROPOSED", id |-> id, mac |-> mac] \in GetProposed
  BY <1>1 DEF GetProposed
<1>3. [to |-> "AI", type |-> "GET_SELECTED", id |-> id, mac |-> mac,
       slots |-> slots] \in GetSelected
  BY <1>1 DEF GetSelected
<1>4. [to |-> "AI", type |-> "SET_ALLOCATION", id |-> id, mac |-> mac,
       mode |-> mode, slot |-> c] \in SetAllocation
  BY <1>1 DEF SetAllocation
<1>5. [to |-> "AI", type |-> "SET_REMOVAL", id |-> id, mac |-> mac,
       slot |-> c] \in SetRemoval
  BY <1>1 DEF SetRemoval
<1>6. [to |-> "AI", type |-> "SET_EXTERNAL_USED", src |-> mac,
       slots |-> slots] \in SetExternalUsed
  BY <1>1 DEF SetExternalUsed
<1>7. [to |-> "AI", type |-> "SET_EXTERNAL_FREE", slot |-> c] \in SetExternalFree
  BY DEF SetExternalFree
<1>8. [to |-> "AI", type |-> "SETR", id |-> id, result |-> "OK"] \in RemovalDone
  BY DEF RemovalDone
<1>9. [to |-> "AI", type |-> "STATS", slot |-> c] \in Stats
  BY DEF Stats
<1> QED
  BY <1>2, <1>3, <1>4, <1>5, <1>6, <1>7, <1>8, <1>9 DEF MacRequest

(* What the invariant says of one station. *)
LEMMA ProtocolStation ==
  ASSUME ProtocolInv, NEW n \in Node
  PROVE  /\ n \in Station /\ IsSeq(bus[n]) /\ nextId[n] \in Nat
         /\ IdsLeft(bus[n], nextId[n])
         /\ bus[n] \in Seq(Message)
         /\ bus[n] # <<>> => Head(bus[n]) \in Message
<1>1. n \in Station
  BY StationAssumption
<1>2. Typed(grid[n], pendingTx[n], pendingRx[n], removals[n], external[n], nextId[n], bus[n])
  BY <1>1, TypedStation DEF ProtocolInv
<1>3. bus[n] # <<>> => Head(bus[n]) \in Message
  BY <1>1, HeadMessage DEF ProtocolInv
<1> QED
  BY <1>1, <1>2, <1>3 DEF ProtocolInv, ProcedureInv, BusSound, Typed

-----------------------------------------------------------------------------
(* What the MAC does with a message: it sends at most one request, and takes  *)
(* a fresh id only if one was set aside.                                      *)

MacAnswers(n, m, ms) ==
  /\ bus[n] # <<>> /\ Head(bus[n]).to = "MAC"
  /\ ms \in {<<>>, <<m>>} /\ Answers(n, ms)
  /\ ms = <<m>> => m \in MacRequest
  /\ ms = <<m>> /\ Reserving(m) => Reserving(Head(bus[n]))
  /\ \/ UNCHANGED nextId
     \/ FreshId(n) /\ Reserving(Head(bus[n])) /\ ~(ms = <<m>> /\ Reserving(m))

LEMMA SilentAnswer ==
  ASSUME NEW n, bus[n] # <<>>, Head(bus[n]).to = "MAC", Answers(n, <<>>), UNCHANGED nextId
  PROVE  \E m, ms : MacAnswers(n, m, ms)
<1>1. PICK m, ms : m = 0 /\ ms = <<>>
  OBVIOUS
<1>2. ms # <<m>> /\ ms \in {<<>>, <<m>>}
  BY <1>1
<1>3. MacAnswers(n, m, ms)
  BY <1>1, <1>2 DEF MacAnswers
<1> QED
  BY <1>3

LEMMA RequestAnswer ==
  ASSUME NEW n, bus[n] # <<>>, Head(bus[n]).to = "MAC", NEW m, Answers(n, <<m>>),
         m \in MacRequest, Reserving(m) => Reserving(Head(bus[n])),
         \/ UNCHANGED nextId
         \/ FreshId(n) /\ Reserving(Head(bus[n])) /\ ~Reserving(m)
  PROVE  \E o, ms : MacAnswers(n, o, ms)
<1>1. PICK ms : ms = <<m>>
  OBVIOUS
<1>2. MacAnswers(n, m, ms)
  BY <1>1 DEF MacAnswers
<1> QED
  BY <1>2

(* The next id is an id if the message at the head has one set aside. *)
LEMMA IdForHead ==
  ASSUME ProtocolInv, NEW n \in Node, bus[n] # <<>>, Reserving(Head(bus[n]))
  PROVE  nextId[n] < MaxId /\ nextId[n] \in Id
<1>1. PICK b, k : b = bus[n] /\ k = nextId[n]
  OBVIOUS
<1>2. IsSeq(b) /\ b # <<>> /\ k \in Nat /\ IdsLeft(b, k)
  BY <1>1, ProtocolStation
<1>3. PICK m, ms : ms = <<>> /\ m = 0
  OBVIOUS
<1>4. TakesOwnId(Head(b), m, ms, k, k) /\ ms \in {<<>>, <<m>>}
  <2>1. ms # <<m>>
    BY <1>3
  <2> QED
    BY <1>3, <2>1 DEF TakesOwnId
<1>5. Reserving(Head(b)) => k < MaxId
  BY <1>2, <1>4, HandledIds
<1> QED
  BY <1>1, <1>2, <1>5, BoundAssumption DEF Id

(* An allocation or a removal that the MAC starts on behalf of its head message. *)
LEMMA StartedAnswer ==
  ASSUME ProtocolInv, NEW n \in Node, bus[n] # <<>>, Head(bus[n]).to = "MAC",
         Reserving(Head(bus[n])), NEW mac \in Node, NEW c \in Cell, NEW mode \in Mode,
         SetSlotAllocation(n, mac, mode, c) \/ SetSlotRemoval(n, mac, c)
  PROVE  \E m, ms : MacAnswers(n, m, ms)
<1>1. nextId[n] \in Id
  BY IdForHead
<1>2. CASE SetSlotAllocation(n, mac, mode, c)
  <2>1. PICK m : m = [to |-> "AI", type |-> "SET_ALLOCATION", id |-> nextId[n],
                      mac |-> mac, mode |-> mode, slot |-> c]
    OBVIOUS
  <2>2. Answers(n, <<m>>) /\ FreshId(n)
    BY <1>2, <2>1 DEF SetSlotAllocation
  <2>3. m \in MacRequest
    BY <1>1, <2>1, MacRequests
  <2>4. ~Reserving(m)
    BY <2>1 DEF Reserving, Carrier
  <2> QED
    BY <2>2, <2>3, <2>4, RequestAnswer
<1>3. CASE SetSlotRemoval(n, mac, c)
  <2>1. PICK m : m = [to |-> "AI", type |-> "SET_REMOVAL", id |-> nextId[n],
                      mac |-> mac, slot |-> c]
    OBVIOUS
  <2>2. Answers(n, <<m>>) /\ FreshId(n)
    BY <1>3, <2>1 DEF SetSlotRemoval
  <2>3. m \in MacRequest
    BY <1>1, <2>1, MacRequests
  <2>4. ~Reserving(m)
    BY <2>1 DEF Reserving, Carrier
  <2> QED
    BY <2>2, <2>3, <2>4, RequestAnswer
<1> QED
  BY <1>2, <1>3

(* Every handler of the MAC. *)
LEMMA MacHandlesAnswers ==
  ASSUME ProtocolInv, NEW n \in Node, MacHandles(n)
  PROVE  \E m, ms : MacAnswers(n, m, ms)
<1>1. PICK h : h = Head(bus[n])
  OBVIOUS
<1>2. bus[n] # <<>> /\ h.to = "MAC"
  BY <1>1 DEF MacHandles, SendProposal, SendSelection, RemoveForSelection, FinishAllocation,
     FinishRemoval, FinishOther, ReceiveAddSlot, ReceiveResult, ReceiveDelete,
     ReceiveAdvertisement, ReceiveAckDelete, Received, Addressed
<1>3. h \in Message
  BY <1>1, <1>2, ProtocolStation
<1>4. 0 \in Id
  BY BoundAssumption DEF Id
<1>5. CASE \/ SendProposal(n) \/ FinishAllocation(n) \/ FinishRemoval(n) \/ FinishOther(n)
           \/ SendSelection(n) /\ h.slot = NoSlot
  <2>1. Answers(n, <<>>) /\ UNCHANGED nextId
    BY <1>1, <1>5 DEF SendProposal, FinishAllocation, FinishRemoval, FinishOther, SendSelection
  <2> QED
    BY <1>1, <1>2, <2>1, SilentAnswer
<1>6. CASE SendSelection(n) /\ h.slot # NoSlot
  <2>1. h.type = "GETR_SELECTED" /\ SetSlotAllocation(n, h.mac, "RX", h.slot)
    BY <1>1, <1>6 DEF SendSelection, Addressed
  <2>2. h.mac \in Node /\ h.slot \in Cell /\ Reserving(h) /\ "RX" \in Mode
    BY <1>2, <1>3, <1>6, <2>1, MacMessage DEF Reserving, Carrier, Mode
  <2> QED
    BY <1>1, <1>2, <2>1, <2>2, StartedAnswer
<1>7. CASE RemoveForSelection(n)
  <2>1. PICK m : m = [to |-> "AI", type |-> "SETR", id |-> h.id, result |-> "OK"]
    OBVIOUS
  <2>2. h.type = "SET_REMOVAL" /\ Answers(n, <<m>>) /\ UNCHANGED nextId
    BY <1>1, <1>7, <2>1 DEF RemoveForSelection, Addressed
  <2>3. m \in MacRequest
    <3>1. h.id \in Id
      BY <1>2, <1>3, <2>2, MacMessage
    <3> QED
      BY <2>1, <3>1 DEF MacRequest, RemovalDone
  <2>4. ~Reserving(m)
    BY <2>1 DEF Reserving, Carrier
  <2> QED
    BY <1>1, <1>2, <2>2, <2>3, <2>4, RequestAnswer
<1>8. CASE \/ ReceiveAddSlot(n) \/ ReceiveResult(n) \/ ReceiveDelete(n)
           \/ ReceiveAdvertisement(n) \/ ReceiveAckDelete(n)
  <2>1. h.type = "RECEIVE"
    BY <1>1, <1>8 DEF ReceiveAddSlot, ReceiveResult, ReceiveDelete, ReceiveAdvertisement,
       ReceiveAckDelete, Received, Addressed
  <2>2. h.src \in Node /\ h.packet.slots \in SUBSET Cell /\ Reserving(h)
    <3>1. h.packet \in Packet
      BY <1>2, <1>3, <2>1, MacMessage
    <3> QED
      BY <1>2, <1>3, <2>1, <3>1, MacMessage DEF Packet, Reserving, Carrier
  <2>3. CASE ReceiveAddSlot(n)
    <3>1. PICK m : m = [to |-> "AI", type |-> "GET_SELECTED", id |-> 0, mac |-> h.src,
                        slots |-> h.packet.slots]
      OBVIOUS
    <3>2. Answers(n, <<m>>) /\ UNCHANGED nextId
      BY <1>1, <2>3, <3>1 DEF ReceiveAddSlot
    <3>3. m \in MacRequest
      BY <1>4, <2>2, <3>1, OpenAssumption DEF MacRequest, GetSelected
    <3> QED
      BY <1>1, <1>2, <2>2, <3>2, <3>3, RequestAnswer
  <2>4. CASE ReceiveResult(n)
    <3>1. PICK c \in h.packet.slots : SetSlotAllocation(n, h.src, "TX", c)
      BY <1>1, <2>4 DEF ReceiveResult
    <3>2. c \in Cell /\ "TX" \in Mode
      BY <2>2 DEF Mode
    <3> QED
      BY <1>1, <1>2, <2>2, <3>1, <3>2, StartedAnswer
  <2>5. CASE ReceiveDelete(n)
    <3>1. PICK c \in h.packet.slots : SetSlotRemoval(n, h.src, c)
      BY <1>1, <2>5 DEF ReceiveDelete
    <3>2. c \in Cell /\ "TX" \in Mode
      BY <2>2 DEF Mode
    <3> QED
      BY <1>1, <1>2, <2>2, <3>1, <3>2, StartedAnswer
  <2>6. CASE ReceiveAdvertisement(n)
    <3>1. PICK m : m = [to |-> "AI", type |-> "SET_EXTERNAL_USED", src |-> h.src,
                        slots |-> h.packet.slots]
      OBVIOUS
    <3>2. Answers(n, <<m>>) /\ UNCHANGED nextId
      BY <1>1, <2>6, <3>1 DEF ReceiveAdvertisement
    <3>3. m \in MacRequest
      BY <2>2, <3>1, OpenAssumption DEF MacRequest, SetExternalUsed
    <3> QED
      BY <1>1, <1>2, <2>2, <3>2, <3>3, RequestAnswer
  <2>7. CASE ReceiveAckDelete(n)
    <3>1. PICK c \in h.packet.slots :
            Answers(n, <<[to |-> "AI", type |-> "SET_EXTERNAL_FREE", slot |-> c]>>)
      BY <1>1, <2>7 DEF ReceiveAckDelete
    <3>2. PICK m : m = [to |-> "AI", type |-> "SET_EXTERNAL_FREE", slot |-> c]
      OBVIOUS
    <3>3. Answers(n, <<m>>) /\ UNCHANGED nextId
      BY <2>7, <3>1, <3>2 DEF ReceiveAckDelete
    <3>4. m \in MacRequest
      BY <2>2, <3>1, <3>2 DEF MacRequest, SetExternalFree
    <3> QED
      BY <1>1, <1>2, <2>2, <3>3, <3>4, RequestAnswer
  <2> QED
    BY <1>8, <2>3, <2>4, <2>5, <2>6, <2>7
<1> QED
  BY <1>5, <1>6, <1>7, <1>8 DEF MacHandles

(* A message that the MAC handles is a step of the open MAC. *)
LEMMA MacAnswersStep ==
  ASSUME ProtocolInv, NEW n \in Node, NEW m, NEW ms, MacAnswers(n, m, ms), UNCHANGED gridVars
  PROVE  MacStep(n)
<1>1. MacTakes(n)
  BY DEF MacAnswers, MacTakes
<1>2. \/ UNCHANGED nextId
      \/ nextId[n] < MaxId /\ nextId' = [nextId EXCEPT ![n] = @ + 1]
  BY IdForHead DEF MacAnswers, FreshId
<1> QED
  BY <1>1, <1>2 DEF MacStep

-----------------------------------------------------------------------------
(* What a handler of the slot selection leaves on the bus, and the ids *)

SelectionAnswers(n, m, ms) ==
  /\ bus[n] # <<>> /\ ms \in {<<>>, <<m>>} /\ Answers(n, ms)
  /\ DOMAIN nextId' = Node /\ \A x \in Node \ {n} : nextId'[x] = nextId[x]
  /\ TakesOwnId(Head(bus[n]), m, ms, nextId[n], nextId'[n])

LEMMA SelectionHandlesAnswers ==
  ASSUME ProtocolInv, NEW n \in Node, SelectionHandles(n)
  PROVE  \E m, ms : SelectionAnswers(n, m, ms)
<1>1. PICK h : h = Head(bus[n])
  OBVIOUS
<1>2. DOMAIN nextId = Node /\ nextId[n] \in Nat
  BY ProtocolStation DEF ProtocolInv, ProcedureInv
<1>3. bus[n] # <<>> /\ h.to = "AI"
  BY <1>1 DEF SelectionHandles, AllocateReservedSlots, IgnoreRequest, ProposeSlots,
     SelectSlot, AllocateSlot, RefuseAllocation, RemoveSlot, ProcessSetResponse,
     ExternalSlotsAllocated, ExternalSlotRemoved, ProcessStats, Addressed
<1>4. ASSUME Answers(n, <<>>), UNCHANGED nextId PROVE \E m, ms : SelectionAnswers(n, m, ms)
  <2>1. PICK m, ms : m = 0 /\ ms = <<>>
    OBVIOUS
  <2>2. ms # <<m>> /\ ms \in {<<>>, <<m>>}
    BY <2>1
  <2>3. SelectionAnswers(n, m, ms)
    BY <1>2, <1>3, <1>4, <2>1, <2>2 DEF SelectionAnswers, TakesOwnId
  <2> QED
    BY <2>3
<1>5. ASSUME NEW m, Answers(n, <<m>>), UNCHANGED nextId, Reserving(m) => Reserving(h)
      PROVE  \E o, ms : SelectionAnswers(n, o, ms)
  <2>1. PICK ms : ms = <<m>>
    OBVIOUS
  <2>2. SelectionAnswers(n, m, ms)
    BY <1>1, <1>2, <1>3, <1>5, <2>1 DEF SelectionAnswers, TakesOwnId
  <2> QED
    BY <2>2
<1>6. CASE \/ IgnoreRequest(n) \/ ProcessSetResponse(n) \/ ExternalSlotsAllocated(n)
           \/ ExternalSlotRemoved(n)
  <2>1. Answers(n, <<>>) /\ UNCHANGED nextId
    BY <1>6 DEF IgnoreRequest, ProcessSetResponse, ExternalSlotsAllocated, ExternalSlotRemoved
  <2> QED
    BY <1>4, <2>1
<1>7. CASE \/ AllocateReservedSlots(n) \/ AllocateSlot(n) \/ RefuseAllocation(n)
           \/ RemoveSlot(n)
  <2>1. UNCHANGED nextId /\ \E ok : Answers(n, <<SetR(h.id, ok)>>)
    <3>1. CASE AllocateReservedSlots(n)
      BY <1>1, <3>1 DEF AllocateReservedSlots
    <3>2. CASE AllocateSlot(n)
      BY <1>1, <3>2 DEF AllocateSlot
    <3>3. CASE RefuseAllocation(n)
      BY <1>1, <3>3 DEF RefuseAllocation
    <3>4. CASE RemoveSlot(n)
      BY <1>1, <3>4 DEF RemoveSlot
    <3> QED
      BY <1>7, <3>1, <3>2, <3>3, <3>4
  <2>2. PICK ok : Answers(n, <<SetR(h.id, ok)>>)
    BY <2>1
  <2>3. ~Reserving(SetR(h.id, ok))
    BY DEF SetR, Reserving, Carrier
  <2> QED
    BY <1>5, <2>1, <2>2, <2>3
<1>8. CASE ProposeSlots(n)
  <2>1. PICK accepted : Answers(n, <<[to |-> "MAC", type |-> "GETR_PROPOSED", id |-> h.id,
                                      mac |-> h.mac, slots |-> accepted]>>)
    BY <1>1, <1>8 DEF ProposeSlots
  <2>2. PICK m : m = [to |-> "MAC", type |-> "GETR_PROPOSED", id |-> h.id,
                      mac |-> h.mac, slots |-> accepted]
    OBVIOUS
  <2>3. UNCHANGED nextId
    BY <1>8 DEF ProposeSlots
  <2>4. ~Reserving(m)
    BY <2>2 DEF Reserving, Carrier
  <2> QED
    BY <1>5, <2>1, <2>2, <2>3, <2>4
<1>9. CASE SelectSlot(n)
  <2>1. PICK chosen : Answers(n, <<[to |-> "MAC", type |-> "GETR_SELECTED", id |-> h.id,
                                    mac |-> h.mac, slot |-> chosen]>>)
    BY <1>1, <1>9 DEF SelectSlot
  <2>2. PICK m : m = [to |-> "MAC", type |-> "GETR_SELECTED", id |-> h.id,
                      mac |-> h.mac, slot |-> chosen]
    OBVIOUS
  <2>3. UNCHANGED nextId
    BY <1>9 DEF SelectSlot
  <2>4. Reserving(h)
    BY <1>1, <1>9 DEF SelectSlot, Addressed, Reserving, Carrier
  <2> QED
    BY <1>5, <2>1, <2>2, <2>3, <2>4
<1>10. CASE ProcessStats(n)
  <2>1. PICK due : TakeId(n, due) /\ Answers(n, RemovalRequest(grid[n], due, nextId[n]))
    BY <1>10 DEF ProcessStats
  <2>2. CASE due = NoSlot
    BY <1>4, <2>1, <2>2 DEF TakeId, RemovalRequest
  <2>3. CASE due # NoSlot
    <3>1. PICK m : m = [to |-> "MAC", type |-> "SET_REMOVAL", id |-> nextId[n],
                        mac |-> grid[n][due].mac, slot |-> due]
      OBVIOUS
    <3>2. PICK ms : ms = <<m>>
      OBVIOUS
    <3>3. Answers(n, ms) /\ nextId' = [nextId EXCEPT ![n] = @ + 1]
      BY <2>1, <2>3, <3>1, <3>2 DEF TakeId, RemovalRequest
    <3>4. Reserving(h) /\ ~Reserving(m)
      BY <1>1, <1>10, <3>1 DEF ProcessStats, Addressed, Reserving, Carrier
    <3>5. SelectionAnswers(n, m, ms)
      BY <1>1, <1>2, <1>3, <3>2, <3>3, <3>4 DEF SelectionAnswers, TakesOwnId
    <3> QED
      BY <3>5
  <2> QED
    BY <2>2, <2>3
<1> QED
  BY <1>6, <1>7, <1>8, <1>9, <1>10 DEF SelectionHandles

(* One drained message keeps an id for every message that may need one. *)
LEMMA DrainIds ==
  ASSUME ProtocolInv, NEW n \in Node, Drain(n), NEW x \in Node
  PROVE  IdsLeft(bus'[x], nextId'[x])
<1>1. DOMAIN nextId = Node /\ DOMAIN bus = Node
  BY DEF ProtocolInv, ProcedureInv
<1>2. /\ IsSeq(bus[n]) /\ nextId[n] \in Nat /\ IdsLeft(bus[n], nextId[n])
      /\ IdsLeft(bus[x], nextId[x])
  BY ProtocolStation
<1>3. \E m, ms : SelectionAnswers(n, m, ms)
  <2>1. CASE MacHandles(n)
    <3>1. PICK m, ms : MacAnswers(n, m, ms)
      BY <2>1, MacHandlesAnswers
    <3>2. SelectionAnswers(n, m, ms)
      BY <1>1, <1>2, <3>1 DEF MacAnswers, FreshId, SelectionAnswers, TakesOwnId
    <3> QED
      BY <3>2
  <2>2. CASE SelectionHandles(n)
    BY <2>2, SelectionHandlesAnswers
  <2> QED
    BY <2>1, <2>2 DEF Drain
<1>4. PICK m, ms : SelectionAnswers(n, m, ms)
  BY <1>3
<1>5. CASE x # n
  BY <1>1, <1>2, <1>4, <1>5 DEF SelectionAnswers, Answers
<1>6. CASE x = n
  <2>1. PICK b, k, l, c : /\ b = bus[n] /\ k = nextId[n] /\ l = nextId'[n]
                          /\ c = Tail(b) \o ms
    OBVIOUS
  <2>2. bus'[n] = c
    BY <1>1, <1>4, <2>1 DEF SelectionAnswers, Answers
  <2>3. /\ IsSeq(b) /\ b # <<>> /\ k \in Nat /\ IdsLeft(b, k) /\ ms \in {<<>>, <<m>>}
        /\ TakesOwnId(Head(b), m, ms, k, l)
    BY <1>2, <1>4, <2>1 DEF SelectionAnswers
  <2>4. IdsLeft(c, l)
    BY <2>1, <2>3, HandledIds
  <2> QED
    BY <1>6, <2>1, <2>2, <2>4
<1> QED
  BY <1>5, <1>6

-----------------------------------------------------------------------------
(* What a tick leaves on the buses *)

(* At a tick, a bus grows by one message at most. *)
TickBrings(x, m, ms) ==
  /\ ms \in {<<>>, <<m>>} /\ bus'[x] = bus[x] \o ms
  /\ nextId'[x] = nextId[x] \/ (nextId'[x] = nextId[x] + 1 /\ ~Reserving(m))
  /\ nextId[x] + Len(bus[x]) < MaxId
  /\ Len(bus[x]) < MaxBus \/ (ms = <<m>> /\ m.type = "RECEIVE")
  /\ ~Awaited(m) /\ (Carrier(m) => m.type = "RECEIVE")

LEMMA TickBusShort ==
  ASSUME ProtocolInv, NEW x \in Node, draining'[x] = draining[x],
         \/ bus'[x] = bus[x] /\ nextId'[x] = nextId[x]
         \/ \E m, ms : TickBrings(x, m, ms)
  PROVE  /\ IdsLeft(bus'[x], nextId'[x])
         /\ draining'[x] = FALSE /\ (\A i \in DOMAIN bus'[x] : bus'[x][i].type # "RECEIVE")
              => Len(bus'[x]) <= MaxBus
<1>1. PICK b, k, c, l : b = bus[x] /\ k = nextId[x] /\ c = bus'[x] /\ l = nextId'[x]
  OBVIOUS
<1>2. IsSeq(b) /\ k \in Nat /\ IdsLeft(b, k)
  BY <1>1, ProtocolStation
<1>3. CASE c = b /\ l = k
  BY <1>1, <1>2, <1>3 DEF ProtocolInv, BusShort
<1>4. ASSUME NEW m, NEW ms, TickBrings(x, m, ms)
      PROVE  /\ IdsLeft(c, l)
             /\ (\A i \in DOMAIN c : c[i].type # "RECEIVE") => Len(c) <= MaxBus
  <2>1. /\ ms \in {<<>>, <<m>>} /\ c = b \o ms
        /\ l = k \/ (l = k + 1 /\ ~Reserving(m))
        /\ k + Len(b) < MaxId
        /\ Len(b) < MaxBus \/ (ms = <<m>> /\ m.type = "RECEIVE")
    BY <1>1, <1>4 DEF TickBrings
  <2>2. IdsLeft(c, l)
    BY <1>2, <2>1, TickIds
  <2>3. PICK S : b \in Seq(S)
    BY <1>2 DEF IsSeq
  <2>4. /\ Len(b) \in Nat /\ ms = <<>> => Len(c) = Len(b)
        /\ ms = <<m>> => Len(c) = Len(b) + 1 /\ c[Len(b) + 1] = m
    <3>1. PICK T : T = S \cup {m}
      OBVIOUS
    <3>2. b \in Seq(T)
      <4>1. b \in [1 .. Len(b) -> S] /\ Len(b) \in Nat
        BY <2>3
      <4>2. b \in [1 .. Len(b) -> T]
        BY <3>1, <4>1
      <4> QED
        BY <2>3, <4>2
    <3>3. <<m>> \in Seq(T) /\ <<>> \in Seq(T)
      BY <3>1
    <3>4. CASE ms = <<>>
      <4>1. c = b /\ ms # <<m>> /\ Len(b) \in Nat
        BY <2>1, <3>2, <3>4
      <4> QED
        BY <3>4, <4>1
    <3>5. CASE ms = <<m>>
      <4>1. Len(ms) = 1 /\ ms[1] = m /\ ms # <<>> /\ Len(b) \in Nat
        BY <3>2, <3>5
      <4>2. Len(c) = Len(b) + 1 /\ c[Len(b) + 1] = m
        BY <2>1, <3>2, <3>3, <3>5, <4>1
      <4> QED
        BY <4>1, <4>2
    <3> QED
      BY <2>1, <3>4, <3>5
  <2>5. Len(c) \in {Len(b), Len(b) + 1} /\ Len(b) \in Nat
    BY <2>1, <2>4
  <2>6. CASE Len(b) < MaxBus
    BY <2>2, <2>5, <2>6, BoundAssumption
  <2>7. CASE ms = <<m>> /\ m.type = "RECEIVE"
    <3>1. c[Len(b) + 1] = m /\ Len(b) + 1 \in DOMAIN c
      <4>1. PlusShape(b, m, ms, c)
        BY <1>2, <2>1, Plus, Zenon
      <4> QED
        BY <2>4, <2>7, <4>1 DEF PlusShape, IsSeq
    <3> QED
      BY <2>2, <2>7, <3>1
  <2> QED
    BY <2>1, <2>6, <2>7
<1> QED
  BY <1>1, <1>3, <1>4

LEMMA RequestBrings ==
  ASSUME ProtocolInv, NEW n \in Node, NEW m, Request(n, m),
         m.to = "AI", m.type \in {"GET_PROPOSED", "STATS"}, NEW x \in Node
  PROVE  \/ bus'[x] = bus[x] /\ nextId'[x] = nextId[x]
         \/ \E o, ms : TickBrings(x, o, ms)
<1>1. DOMAIN nextId = Node /\ DOMAIN bus = Node
  BY DEF ProtocolInv, ProcedureInv
<1>2. IsSeq(bus[n])
  BY ProtocolStation
<1>3. PICK ms : ms = <<m>>
  OBVIOUS
<1>4. bus' = [bus EXCEPT ![n] = bus[n] \o ms] /\ UNCHANGED nextId
  <2>1. Append(bus[n], m) = bus[n] \o ms
    BY <1>2, <1>3, AppendIsConcat
  <2>2. bus' = [bus EXCEPT ![n] = Append(bus[n], m)] /\ UNCHANGED nextId
    BY DEF Request
  <2> QED
    BY <2>1, <2>2, Zenon
<1>5. TickBrings(n, m, ms)
  <2>1. ~Awaited(m) /\ ~Carrier(m)
    BY DEF Awaited, Carrier
  <2> QED
    BY <1>1, <1>3, <1>4, <2>1 DEF Request, HasId, TickBrings
<1> QED
  BY <1>1, <1>4, <1>5

LEMMA TimersBring ==
  ASSUME ProtocolInv, NEW n \in Node, SelectionTimers(n), NEW x \in Node
  PROVE  \/ bus'[x] = bus[x] /\ nextId'[x] = nextId[x]
         \/ \E m, ms : TickBrings(x, m, ms)
<1>1. PICK g, due : /\ TakeId(n, due)
                    /\ bus' = [bus EXCEPT ![n] = @ \o RemovalRequest(g, due, nextId[n])]
  BY DEF SelectionTimers, InterloopSteps
<1>2. DOMAIN bus = Node /\ DOMAIN nextId = Node
  BY DEF ProtocolInv, ProcedureInv
<1>3. PICK m, ms : /\ m = [to |-> "MAC", type |-> "SET_REMOVAL", id |-> nextId[n],
                           mac |-> g[due].mac, slot |-> due]
                   /\ ms = RemovalRequest(g, due, nextId[n])
  OBVIOUS
<1>4. ms \in {<<>>, <<m>>}
  BY <1>3 DEF RemovalRequest
<1>5. ~Reserving(m) /\ ~Awaited(m) /\ ~Carrier(m)
  BY <1>3 DEF Reserving, Carrier, Awaited
<1>6. nextId[n] + Len(bus[n]) < MaxId /\ Len(bus[n]) < MaxBus
  BY DEF SelectionTimers, InterloopSteps, HasId
<1>7. TickBrings(n, m, ms)
  BY <1>1, <1>2, <1>3, <1>4, <1>5, <1>6 DEF TakeId, TickBrings
<1> QED
  BY <1>1, <1>2, <1>7 DEF TakeId

(* A packet that is transmitted is one that SlotSelection allows to be heard. *)
LEMMA TransmitHeard ==
  ASSUME ProtocolInv, \A x \in Node : draining[x] = FALSE, NEW n \in Node, Transmit(n)
  PROVE  /\ PacketHeard
         /\ \A x \in Node : \/ bus'[x] = bus[x] /\ nextId'[x] = nextId[x]
                            \/ \E m, ms : TickBrings(x, m, ms)
<1>1. PICK e : e = Head(queue[n])
  OBVIOUS
<1>2. e \in Entry
  <2>1. queue[n] \in Seq(Entry) /\ queue[n] # <<>>
    BY DEF ProtocolInv, PacketsTyped, Transmit
  <2> QED
    BY <1>1, <2>1
<1>3. e.packet \in Packet
  BY <1>2 DEF Entry
<1>4. PICK m : m = Reception(n, e.packet)
  OBVIOUS
<1>5. PICK heard \in SUBSET Audience(n, e.packet) :
        /\ \A x \in heard : CanReceive(x)
        /\ bus' = [x \in Node |-> IF x \in heard THEN Append(bus[x], m) ELSE bus[x]]
  BY <1>1, <1>4 DEF Transmit
<1>6. heard \subseteq Node
  <2>1. e.packet.type \in Unicast => e.packet.dst \in Node
    BY <1>3 DEF Packet, Unicast, Broadcast
  <2>2. Audience(n, e.packet) \subseteq Node
    BY <2>1 DEF Audience
  <2> QED
    BY <2>2
<1>7. m \in RadioMessage /\ m.type = "RECEIVE" /\ ~Awaited(m)
  BY <1>3, <1>4, OpenAssumption DEF Reception, Receptions, Awaited
<1>8. UNCHANGED <<gridVars, nextId>>
  BY DEF Transmit
<1>9. ASSUME NEW x \in heard
      PROVE  /\ Len(bus[x]) < MaxHeard
             /\ \A i \in DOMAIN bus[x] : bus[x][i].type # "RECEIVE"
             /\ nextId[x] + Len(bus[x]) < MaxId
             /\ IsSeq(bus[x])
  <2>1. x \in Node /\ CanReceive(x)
    BY <1>5, <1>6
  <2>2. IsSeq(bus[x]) /\ Len(bus[x]) <= MaxBus
    BY <2>1, ProtocolStation DEF ProtocolInv, BusShort, CanReceive
  <2>3. Len(bus[x]) \in Nat
    BY <2>2 DEF IsSeq
  <2> QED
    BY <2>1, <2>2, <2>3, OpenAssumption, BoundAssumption DEF CanReceive, HasId
<1>10. PacketHeard
  BY <1>5, <1>6, <1>7, <1>8, <1>9, StationAssumption DEF PacketHeard
<1>11. PICK ms : ms = <<m>>
  OBVIOUS
<1>12. ASSUME NEW x \in Node
       PROVE  \/ bus'[x] = bus[x] /\ nextId'[x] = nextId[x]
              \/ \E o, os : TickBrings(x, o, os)
  <2>1. CASE x \notin heard
    BY <1>5, <1>8, <2>1
  <2>2. CASE x \in heard
    <3>1. bus'[x] = bus[x] \o ms
      BY <1>5, <1>9, <1>11, <2>2, AppendIsConcat
    <3>2. TickBrings(x, m, ms)
      BY <1>7, <1>8, <1>9, <1>11, <2>2, <3>1 DEF TickBrings
    <3> QED
      BY <3>2
  <2> QED
    BY <2>1, <2>2
<1> QED
  BY <1>10, <1>12

-----------------------------------------------------------------------------
(* Every step is one of the slot selection with its MAC left open *)

(* A request at a tick is one that the open MAC may send. *)
LEMMA TickRequests ==
  ASSUME ProtocolInv, NEW n \in Node,
         AppSend(n) \/ QueueTimeout(n) \/ SendStatistics(n)
  PROVE  \E m \in MacRequest : /\ Request(n, m)
                                /\ m.to = "AI" /\ m.type \in {"GET_PROPOSED", "STATS"}
<1>1. 0 \in Id
  BY BoundAssumption DEF Id
<1>2. CASE AppSend(n) \/ QueueTimeout(n)
  <2>1. PICK mac \in Node : Request(n, GetProposedSlots(mac))
    BY <1>2 DEF AppSend, QueueTimeout, RequestSlots
  <2>2. /\ GetProposedSlots(mac) \in MacRequest /\ GetProposedSlots(mac).to = "AI"
        /\ GetProposedSlots(mac).type = "GET_PROPOSED"
    BY <1>1, OpenAssumption DEF GetProposedSlots, MacRequest, GetProposed
  <2> QED
    BY <2>1, <2>2
<1>3. CASE SendStatistics(n)
  <2>1. PICK c \in Cell : Request(n, [to |-> "AI", type |-> "STATS", slot |-> c])
    BY <1>3 DEF SendStatistics
  <2>2. PICK m : m = [to |-> "AI", type |-> "STATS", slot |-> c]
    OBVIOUS
  <2>3. m \in MacRequest /\ m.to = "AI" /\ m.type = "STATS"
    BY <2>2 DEF MacRequest, Stats
  <2> QED
    BY <2>1, <2>2, <2>3
<1> QED
  BY <1>2, <1>3

LEMMA StepSelection == ProtocolInv /\ [ProtocolNext]_vars => [Next]_selVars
<1> SUFFICES ASSUME ProtocolInv, [ProtocolNext]_vars PROVE Next \/ UNCHANGED selVars
  OBVIOUS
<1>1. CASE UNCHANGED vars
  BY <1>1 DEF vars
<1>2. ASSUME NEW n \in Node, Drain(n) PROVE Next
  <2>1. n \in Station
    BY StationAssumption
  <2>2. CASE MacHandles(n) /\ UNCHANGED gridVars
    <3>1. PICK m, ms : MacAnswers(n, m, ms)
      BY <2>2, MacHandlesAnswers
    <3>2. MacStep(n)
      BY <2>2, <3>1, MacAnswersStep
    <3> QED
      BY <2>1, <3>2 DEF Next
  <2>3. CASE SelectionHandles(n)
    BY <2>1, <2>3 DEF SelectionHandles, SelectionStep, Next
  <2> QED
    BY <1>2, <2>2, <2>3 DEF Drain
<1>3. ASSUME NEW n \in Node, Tick(n) PROVE Next \/ UNCHANGED selVars
  <2>1. n \in Station /\ \A x \in Node : draining[x] = FALSE
    BY <1>3, StationAssumption, Zenon DEF ProtocolInv, ProcedureInv, Tick
  <2>2. CASE AppSend(n) \/ QueueTimeout(n) \/ SendStatistics(n)
    <3>1. PICK m \in MacRequest : Request(n, m)
      BY <2>2, TickRequests
    <3>2. MacStep(n)
      BY <3>1 DEF Request, MacStep, MacSends
    <3> QED
      BY <2>1, <3>2 DEF Next
  <2>3. CASE SelectionTimers(n)
    BY <2>1, <2>3 DEF SelectionTimers, SelectionStep, Next
  <2>4. CASE Transmit(n)
    BY <2>1, <2>4, TransmitHeard DEF Next
  <2>5. CASE Advertise(n) \/ Retransmit(n)
    BY <2>5 DEF Advertise, Retransmit
  <2> QED
    BY <1>3, <2>2, <2>3, <2>4, <2>5 DEF Tick
<1> QED
  BY <1>1, <1>2, <1>3 DEF ProtocolNext

(* The ids set aside, and the length of the buses at the ticks. *)
LEMMA StepBuses ==
  ASSUME ProtocolInv, [ProtocolNext]_vars
  PROVE  (\A x \in Node : IdsLeft(bus'[x], nextId'[x])) /\ BusShort'
<1>1. ASSUME NEW x \in Node
      PROVE  /\ IdsLeft(bus'[x], nextId'[x])
             /\ draining'[x] = FALSE /\ (\A i \in DOMAIN bus'[x] : bus'[x][i].type # "RECEIVE")
                  => Len(bus'[x]) <= MaxBus
  <2>1. CASE UNCHANGED vars
    <3>1. bus'[x] = bus[x] /\ nextId'[x] = nextId[x] /\ draining'[x] = draining[x]
      BY <2>1 DEF vars, selVars
    <3> QED
      BY <3>1, TickBusShort
  <2>2. ASSUME NEW n \in Node, Drain(n)
        PROVE  draining'[x] = FALSE
                 /\ (\A i \in DOMAIN bus'[x] : bus'[x][i].type # "RECEIVE")
                 => Len(bus'[x]) <= MaxBus
    <3>1. DOMAIN bus = Node /\ draining \in [Node -> BOOLEAN]
      BY DEF ProtocolInv, ProcedureInv
    <3>2. \E m, ms : SelectionAnswers(n, m, ms) \/ MacAnswers(n, m, ms)
      BY <2>2, MacHandlesAnswers, SelectionHandlesAnswers DEF Drain
    <3>3. \E ms : Answers(n, ms)
      BY <3>2 DEF SelectionAnswers, MacAnswers
    <3>4. CASE x = n
      <4>1. draining'[n] = (bus'[n] # <<>>)
        BY <2>2, <3>1 DEF Drain
      <4>2. draining'[n] = FALSE => bus'[n] = <<>>
        BY <4>1, Zenon
      <4>3. bus'[n] = <<>> => Len(bus'[n]) <= MaxBus
        BY BoundAssumption
      <4> QED
        BY <3>4, <4>2, <4>3, Zenon
    <3>5. CASE x # n
      <4>1. bus'[x] = bus[x] /\ draining'[x] = draining[x]
        BY <2>2, <3>1, <3>3, <3>5 DEF Drain, Answers
      <4> QED
        BY <4>1 DEF ProtocolInv, BusShort
    <3> QED
      BY <3>4, <3>5
  <2>3. ASSUME NEW n \in Node, Tick(n)
        PROVE  \/ bus'[x] = bus[x] /\ nextId'[x] = nextId[x]
               \/ \E m, ms : TickBrings(x, m, ms)
    <3>1. (\A y \in Node : draining[y] = FALSE) /\ UNCHANGED draining
      BY <2>3, Zenon DEF ProtocolInv, ProcedureInv, Tick
    <3>2. CASE AppSend(n) \/ QueueTimeout(n) \/ SendStatistics(n)
      BY <3>1, <3>2, TickRequests, RequestBrings
    <3>3. CASE SelectionTimers(n)
      BY <3>3, TimersBring
    <3>4. CASE Transmit(n)
      BY <3>1, <3>4, TransmitHeard
    <3>5. CASE Advertise(n) \/ Retransmit(n)
      BY <3>5 DEF Advertise, Retransmit, selVars
    <3> QED
      BY <2>3, <3>2, <3>3, <3>4, <3>5 DEF Tick
  <2>4. ASSUME NEW n \in Node, Tick(n) PROVE draining'[x] = draining[x]
    BY <2>4 DEF Tick
  <2> QED
    BY <2>1, <2>2, <2>3, <2>4, DrainIds, TickBusShort DEF ProtocolNext
<1> QED
  BY <1>1 DEF BusShort

-----------------------------------------------------------------------------
(* The packets of a station *)

LEMMA PacketTypes ==
  ASSUME NEW mac \in Node, NEW c \in Cell, NEW slots \in SUBSET Cell, NEW n
  PROVE  /\ <<>> \in Seq(Packet)
         /\ AddSlotPacket(mac, slots) \in Packet /\ ResultPacket(mac, c) \in Packet
         /\ DeletePacket(mac, c) \in Packet /\ AdvertPacket(slots) \in Packet
         /\ AckPacket("ACK_ADD", mac, c) \in Packet /\ AckPacket("ACK_DELETE", mac, c) \in Packet
         /\ \A p \in Packet : IfHeard(n, p) \in Seq(Packet) /\ <<p>> \in Seq(Packet)
         /\ \A p, q \in Packet : <<p>> \o IfHeard(n, q) \in Seq(Packet)
<1>1. AddSlotPacket(mac, slots) \in Packet /\ ResultPacket(mac, c) \in Packet
      /\ DeletePacket(mac, c) \in Packet
  BY DEF AddSlotPacket, ResultPacket, DeletePacket, Packet, Unicast
<1>2. AdvertPacket(slots) \in Packet /\ AckPacket("ACK_ADD", mac, c) \in Packet
      /\ AckPacket("ACK_DELETE", mac, c) \in Packet
  BY DEF AdvertPacket, AckPacket, Packet, Broadcast
<1>3. \A p \in Packet : IfHeard(n, p) \in Seq(Packet) /\ <<p>> \in Seq(Packet)
  BY DEF IfHeard
<1>4. \A p, q \in Packet : <<p>> \o IfHeard(n, q) \in Seq(Packet)
  BY <1>3
<1> QED
  BY <1>1, <1>2, <1>3, <1>4

LEMMA SendsTyped ==
  ASSUME PacketsTyped, NEW n \in Node, NEW packets \in Seq(Packet), Sends(n, packets)
  PROVE  PacketsTyped'
<1>1. PICK es : es = [i \in DOMAIN packets |-> [packet |-> packets[i], tries |-> Tries]]
  OBVIOUS
<1>2. Tries \in 1 .. Tries
  BY RadioAssumption
<1>3. es \in Seq(Entry)
  <2>1. DOMAIN packets = 1 .. Len(packets) /\ Len(packets) \in Nat
        /\ \A i \in DOMAIN packets : packets[i] \in Packet
    OBVIOUS
  <2>2. es \in [1 .. Len(packets) -> Entry]
    BY <1>1, <1>2, <2>1 DEF Entry
  <2> QED
    BY <2>1, <2>2
<1>4. queue[n] \o es \in Seq(Entry)
  BY <1>3 DEF PacketsTyped
<1> QED
  BY <1>1, <1>4 DEF PacketsTyped, Sends, Queued

(* Every handler of the MAC queues packets, if it does anything to the queues. *)
LEMMA MacSendsPackets ==
  ASSUME ProtocolInv, NEW n \in Node, MacHandles(n)
  PROVE  UNCHANGED radioVars \/ \E packets \in Seq(Packet) : Sends(n, packets)
<1>1. PICK h : h = Head(bus[n])
  OBVIOUS
<1>2. bus[n] # <<>> /\ h.to = "MAC"
  BY <1>1 DEF MacHandles, SendProposal, SendSelection, RemoveForSelection, FinishAllocation,
     FinishRemoval, FinishOther, ReceiveAddSlot, ReceiveResult, ReceiveDelete,
     ReceiveAdvertisement, ReceiveAckDelete, Received, Addressed
<1>3. h \in Message
  BY <1>1, <1>2, ProtocolStation
<1>4. <<>> \in Seq(Packet)
  OBVIOUS
<1>5. CASE SendProposal(n)
  <2>1. /\ h.type = "GETR_PROPOSED"
        /\ Sends(n, IF h.slots = {} THEN <<>> ELSE <<AddSlotPacket(h.mac, h.slots)>>)
    BY <1>1, <1>5 DEF SendProposal, Addressed
  <2>2. h.mac \in Node /\ h.slots \in SUBSET Cell
    BY <1>2, <1>3, <2>1, MacMessage
  <2>3. AddSlotPacket(h.mac, h.slots) \in Packet
    BY <2>2 DEF AddSlotPacket, Packet, Unicast
  <2>4. <<AddSlotPacket(h.mac, h.slots)>> \in Seq(Packet)
    BY <2>3
  <2> QED
    BY <1>4, <2>1, <2>4
<1>6. CASE SendSelection(n)
  <2>1. /\ h.type = "GETR_SELECTED"
        /\ \/ UNCHANGED radioVars
           \/ h.slot # NoSlot /\ Sends(n, <<ResultPacket(h.mac, h.slot)>>)
    BY <1>1, <1>6 DEF SendSelection, Addressed
  <2>2. h.mac \in Node /\ h.slot \in Cell \cup {NoSlot}
    BY <1>2, <1>3, <2>1, MacMessage
  <2>3. CASE h.slot # NoSlot
    <3>1. <<ResultPacket(h.mac, h.slot)>> \in Seq(Packet)
      BY <2>2, <2>3, PacketTypes
    <3> QED
      BY <2>1, <3>1
  <2> QED
    BY <2>1, <2>3
<1>7. CASE RemoveForSelection(n)
  <2>1. /\ h.type = "SET_REMOVAL"
        /\ Sends(n, <<DeletePacket(h.mac, h.slot)>>
                      \o IfHeard(n, AckPacket("ACK_DELETE", h.mac, h.slot)))
    BY <1>1, <1>7 DEF RemoveForSelection, Addressed
  <2>2. h.mac \in Node /\ h.slot \in Cell
    BY <1>2, <1>3, <2>1, MacMessage
  <2>3. <<DeletePacket(h.mac, h.slot)>>
          \o IfHeard(n, AckPacket("ACK_DELETE", h.mac, h.slot)) \in Seq(Packet)
    BY <2>2, PacketTypes
  <2> QED
    BY <2>1, <2>3
<1>8. CASE FinishAllocation(n) \/ FinishRemoval(n)
  <2>1. PICK p : p = procedures[n][h.id]
    OBVIOUS
  <2>2. /\ p.set = "ALLOCATION" \/ p.set = "REMOVAL"
        /\ Known(n, h.id)
        /\ \/ Sends(n, <<>>) \/ Sends(n, <<DeletePacket(p.mac, p.slot)>>)
           \/ Sends(n, IfHeard(n, AckPacket("ACK_ADD", p.mac, p.slot)))
           \/ Sends(n, IfHeard(n, AckPacket("ACK_DELETE", p.mac, p.slot)))
    <3>1. CASE FinishAllocation(n)
      BY <1>1, <2>1, <3>1 DEF FinishAllocation
    <3>2. CASE FinishRemoval(n)
      BY <1>1, <2>1, <3>2 DEF FinishRemoval
    <3> QED
      BY <1>8, <3>1, <3>2
  <2>3. p \in Procedure
    BY <2>1, <2>2 DEF Known, ProtocolInv, ProceduresTyped
  <2>4. p.mac \in Node /\ p.slot \in Cell
    BY <2>2, <2>3 DEF Procedure, Announcements, Allocations, Removals
  <2>5. /\ <<DeletePacket(p.mac, p.slot)>> \in Seq(Packet)
        /\ IfHeard(n, AckPacket("ACK_ADD", p.mac, p.slot)) \in Seq(Packet)
        /\ IfHeard(n, AckPacket("ACK_DELETE", p.mac, p.slot)) \in Seq(Packet)
    BY <2>4, PacketTypes
  <2> QED
    BY <1>4, <2>2, <2>5
<1>9. CASE \/ FinishOther(n) \/ ReceiveAddSlot(n) \/ ReceiveResult(n) \/ ReceiveDelete(n)
           \/ ReceiveAdvertisement(n) \/ ReceiveAckDelete(n)
  BY <1>9 DEF FinishOther, ReceiveAddSlot, ReceiveResult, ReceiveDelete,
     ReceiveAdvertisement, ReceiveAckDelete
<1> QED
  BY <1>5, <1>6, <1>7, <1>8, <1>9 DEF MacHandles

(* What is transmitted or sent again is of the same type as before. *)
LEMMA RadioTyped ==
  ASSUME PacketsTyped, NEW n \in Node, Transmit(n) \/ Retransmit(n)
  PROVE  PacketsTyped'
<1>1. CASE Transmit(n)
  <2>1. PICK e : e = Head(queue[n])
    OBVIOUS
  <2>2. /\ queue[n] # <<>>
        /\ queue' = [queue EXCEPT ![n] = Tail(queue[n])]
        /\ \/ UNCHANGED unacked
           \/ /\ e.tries > 1
              /\ unacked' = [unacked EXCEPT ![n] =
                               Append(unacked[n], [e EXCEPT !.tries = @ - 1])]
    BY <1>1, <2>1 DEF Transmit
  <2>3. e \in Entry /\ Tail(queue[n]) \in Seq(Entry)
    BY <2>1, <2>2 DEF PacketsTyped
  <2>4. queue' \in [Node -> Seq(Entry)]
    BY <2>2, <2>3 DEF PacketsTyped
  <2>5. CASE UNCHANGED unacked
    BY <2>4, <2>5 DEF PacketsTyped
  <2>6. CASE /\ e.tries > 1
             /\ unacked' = [unacked EXCEPT ![n] =
                              Append(unacked[n], [e EXCEPT !.tries = @ - 1])]
    <3>1. PICK u : u = [e EXCEPT !.tries = @ - 1]
      OBVIOUS
    <3>2. u \in Entry
      BY <2>3, <2>6, <3>1, RadioAssumption DEF Entry
    <3>3. Append(unacked[n], u) \in Seq(Entry)
      BY <3>2 DEF PacketsTyped
    <3> QED
      BY <2>4, <2>6, <3>1, <3>3 DEF PacketsTyped
  <2> QED
    BY <2>2, <2>5, <2>6
<1>2. CASE Retransmit(n)
  <2>1. PICK i \in DOMAIN unacked[n] :
          /\ queue'   = [queue EXCEPT ![n] = Append(queue[n], unacked[n][i])]
          /\ unacked' = [unacked EXCEPT ![n] = RemoveAt(unacked[n], i)]
    BY <1>2 DEF Retransmit
  <2>2. PICK s : s = unacked[n]
    OBVIOUS
  <2>3. s \in Seq(Entry) /\ i \in 1 .. Len(s) /\ Len(s) \in Nat /\ s[i] \in Entry
    BY <2>1, <2>2 DEF PacketsTyped
  <2>4. SubSeq(s, 1, i - 1) \in Seq(Entry) /\ SubSeq(s, i + 1, Len(s)) \in Seq(Entry)
    BY <2>3
  <2>5. RemoveAt(s, i) \in Seq(Entry)
    BY <2>4 DEF RemoveAt
  <2>6. Append(queue[n], s[i]) \in Seq(Entry)
    BY <2>3 DEF PacketsTyped
  <2> QED
    BY <2>1, <2>2, <2>5, <2>6 DEF PacketsTyped
<1> QED
  BY <1>1, <1>2

LEMMA StepPackets ==
  ASSUME ProtocolInv, [ProtocolNext]_vars
  PROVE  PacketsTyped'
<1>1. PacketsTyped
  BY DEF ProtocolInv
<1>2. CASE UNCHANGED radioVars
  BY <1>1, <1>2 DEF radioVars, PacketsTyped
<1>3. CASE UNCHANGED vars
  BY <1>2, <1>3 DEF vars
<1>4. ASSUME NEW n \in Node, Drain(n) PROVE PacketsTyped'
  BY <1>1, <1>2, <1>4, MacSendsPackets, SendsTyped DEF Drain
<1>5. ASSUME NEW n \in Node, Tick(n) PROVE PacketsTyped'
  <2>1. CASE Advertise(n)
    <3>1. PICK active \in SUBSET Cell : Sends(n, IfHeard(n, AdvertPacket(active)))
      BY <2>1 DEF Advertise
    <3>2. AdvertPacket(active) \in Packet
      BY DEF AdvertPacket, Packet, Broadcast
    <3>3. IfHeard(n, AdvertPacket(active)) \in Seq(Packet)
      BY <3>2 DEF IfHeard
    <3> QED
      BY <1>1, <3>1, <3>3, SendsTyped
  <2>2. CASE Transmit(n) \/ Retransmit(n)
    BY <1>1, <2>2, RadioTyped
  <2>3. CASE AppSend(n) \/ QueueTimeout(n) \/ SendStatistics(n) \/ SelectionTimers(n)
    BY <1>2, <2>3 DEF AppSend, QueueTimeout, RequestSlots, SendStatistics, SelectionTimers, Request
  <2> QED
    BY <1>5, <2>1, <2>2, <2>3 DEF Tick
<1> QED
  BY <1>3, <1>4, <1>5 DEF ProtocolNext

-----------------------------------------------------------------------------
(* The slot table and the procedures *)

LEMMA TableSlots ==
  ASSUME TableTyped, NEW n \in Node, NEW c \in Cell, NEW mac \in Node,
         NEW use \in {"SEND", "RECEIVE"}
  PROVE  /\ RemoveTableSlot(n, c) \in [Node -> [Cell -> TableEntry]]
         /\ AddTableSlot(n, c, use, mac) \in [Node -> [Cell -> TableEntry]]
<1>1. UnusedSlot \in TableEntry /\ [use |-> use, mac |-> mac] \in TableEntry
  BY DEF TableEntry
<1> QED
  BY <1>1 DEF TableTyped, RemoveTableSlot, AddTableSlot

(* Only the answers of the slot selection and its removals change the table. *)
LEMMA MacTable ==
  ASSUME ProtocolInv, NEW n \in Node, MacHandles(n)
  PROVE  TableTyped'
<1>1. PICK h : h = Head(bus[n])
  OBVIOUS
<1>2. TableTyped
  BY DEF ProtocolInv
<1>3. CASE UNCHANGED table
  BY <1>2, <1>3 DEF TableTyped
<1>4. ASSUME NEW c \in Cell, NEW mac \in Node, NEW use \in {"SEND", "RECEIVE"},
             \/ table' = RemoveTableSlot(n, c) \/ table' = AddTableSlot(n, c, use, mac)
      PROVE  TableTyped'
  BY <1>2, <1>4, TableSlots DEF TableTyped
<1>5. CASE RemoveForSelection(n)
  <2>1. /\ bus[n] # <<>> /\ h.to = "MAC" /\ h.type = "SET_REMOVAL"
        /\ UNCHANGED table \/ table' = RemoveTableSlot(n, h.slot)
    BY <1>1, <1>5 DEF RemoveForSelection, Addressed
  <2>2. h.slot \in Cell /\ h.mac \in Node
    BY <1>1, <2>1, ProtocolStation, MacMessage
  <2> QED
    BY <1>3, <1>4, <2>1, <2>2
<1>6. CASE FinishAllocation(n) \/ FinishRemoval(n)
  <2>1. PICK p : p = procedures[n][h.id]
    OBVIOUS
  <2>2. /\ p.set = "ALLOCATION" \/ p.set = "REMOVAL"
        /\ Known(n, h.id)
        /\ \/ UNCHANGED table \/ table' = RemoveTableSlot(n, p.slot)
           \/ table' = AddTableSlot(n, p.slot, "SEND", p.mac)
           \/ table' = AddTableSlot(n, p.slot, "RECEIVE", p.mac)
    <3>1. CASE FinishAllocation(n)
      BY <1>1, <2>1, <3>1 DEF FinishAllocation
    <3>2. CASE FinishRemoval(n)
      BY <1>1, <2>1, <3>2 DEF FinishRemoval
    <3> QED
      BY <1>6, <3>1, <3>2
  <2>3. p \in Procedure
    BY <2>1, <2>2 DEF Known, ProtocolInv, ProceduresTyped
  <2>4. p.mac \in Node /\ p.slot \in Cell
    BY <2>2, <2>3 DEF Procedure, Announcements, Allocations, Removals
  <2> QED
    BY <1>3, <1>4, <2>2, <2>4
<1>7. CASE \/ SendProposal(n) \/ SendSelection(n) \/ FinishOther(n) \/ ReceiveAddSlot(n)
           \/ ReceiveResult(n) \/ ReceiveDelete(n) \/ ReceiveAdvertisement(n)
           \/ ReceiveAckDelete(n)
  <2>1. UNCHANGED table
    BY <1>7 DEF SendProposal, SendSelection, FinishOther, ReceiveAddSlot, ReceiveResult,
       ReceiveDelete, ReceiveAdvertisement, ReceiveAckDelete, macVars
  <2> QED
    BY <1>3, <2>1
<1> QED
  BY <1>5, <1>6, <1>7 DEF MacHandles

(* A procedure that begins, and one that ends. *)
LEMMA RememberedTyped ==
  ASSUME ProtocolInv, NEW n \in Node, NEW id \in Id, NEW r \in Procedure, Remember(n, id, r)
  PROVE  ProceduresTyped'
<1>1. DOMAIN procedures = Node
  BY DEF ProtocolInv, ProcedureInv
<1>2. PICK q : q = [i \in DOMAIN procedures[n] \cup {id} |-> IF i = id THEN r
                                                            ELSE procedures[n][i]]
  OBVIOUS
<1>3. procedures' = [procedures EXCEPT ![n] = q]
  BY <1>2 DEF Remember
<1>4. DOMAIN q \subseteq Id /\ \A i \in DOMAIN q : q[i] \in Procedure
  BY <1>2 DEF ProtocolInv, ProceduresTyped
<1> QED
  BY <1>1, <1>3, <1>4 DEF ProtocolInv, ProceduresTyped

LEMMA ForgottenTyped ==
  ASSUME ProtocolInv, NEW n \in Node, NEW id, Forget(n, id)
  PROVE  ProceduresTyped'
<1>1. DOMAIN procedures = Node
  BY DEF ProtocolInv, ProcedureInv
<1>2. PICK q : q = [i \in DOMAIN procedures[n] \ {id} |-> procedures[n][i]]
  OBVIOUS
<1>3. procedures' = [procedures EXCEPT ![n] = q]
  BY <1>2 DEF Forget
<1>4. DOMAIN q \subseteq Id /\ \A i \in DOMAIN q : q[i] \in Procedure
  BY <1>2 DEF ProtocolInv, ProceduresTyped
<1> QED
  BY <1>1, <1>3, <1>4 DEF ProtocolInv, ProceduresTyped

LEMMA MacProcedures ==
  ASSUME ProtocolInv, NEW n \in Node, MacHandles(n)
  PROVE  ProceduresTyped'
<1>1. PICK h : h = Head(bus[n])
  OBVIOUS
<1>2. CASE UNCHANGED procedures
  BY <1>2 DEF ProtocolInv, ProceduresTyped
<1>3. ASSUME bus[n] # <<>>, Reserving(h), NEW mac \in Node, NEW c \in Cell, NEW mode \in Mode,
             SetSlotAllocation(n, mac, mode, c) \/ SetSlotRemoval(n, mac, c)
      PROVE  ProceduresTyped'
  <2>1. nextId[n] \in Id
    BY <1>1, <1>3, IdForHead
  <2>2. /\ [set |-> "ALLOCATION", mode |-> mode, mac |-> mac, slot |-> c] \in Procedure
        /\ [set |-> "REMOVAL", mac |-> mac, slot |-> c] \in Procedure
    BY DEF Procedure, Allocations, Removals
  <2> QED
    BY <1>3, <2>1, <2>2, RememberedTyped DEF SetSlotAllocation, SetSlotRemoval
<1>4. CASE FinishAllocation(n) \/ FinishRemoval(n) \/ FinishOther(n)
  <2>1. \E id : Forget(n, id)
    BY <1>4 DEF FinishAllocation, FinishRemoval, FinishOther
  <2> QED
    BY <2>1, ForgottenTyped
<1>5. CASE SendSelection(n)
  <2>1. /\ bus[n] # <<>> /\ h.to = "MAC" /\ h.type = "GETR_SELECTED"
        /\ \/ UNCHANGED procedures
           \/ h.slot # NoSlot /\ SetSlotAllocation(n, h.mac, "RX", h.slot)
    BY <1>1, <1>5 DEF SendSelection, Addressed, macVars
  <2>2. /\ h.mac \in Node /\ h.slot \in Cell \cup {NoSlot} /\ Reserving(h) /\ "RX" \in Mode
    BY <1>1, <2>1, ProtocolStation, MacMessage DEF Reserving, Carrier, Mode
  <2> QED
    BY <1>2, <1>3, <2>1, <2>2
<1>6. CASE ReceiveResult(n) \/ ReceiveDelete(n)
  <2>1. PICK c \in h.packet.slots :
          SetSlotAllocation(n, h.src, "TX", c) \/ SetSlotRemoval(n, h.src, c)
    BY <1>1, <1>6 DEF ReceiveResult, ReceiveDelete
  <2>2. bus[n] # <<>> /\ h.to = "MAC" /\ h.type = "RECEIVE"
    BY <1>1, <1>6 DEF ReceiveResult, ReceiveDelete, Received, Addressed
  <2>3. h.src \in Node /\ h.packet \in Packet /\ Reserving(h) /\ "TX" \in Mode
    BY <1>1, <2>2, ProtocolStation, MacMessage DEF Reserving, Carrier, Mode
  <2>4. c \in Cell
    BY <2>3 DEF Packet
  <2> QED
    BY <1>3, <2>1, <2>2, <2>3, <2>4
<1>7. CASE \/ SendProposal(n) \/ RemoveForSelection(n) \/ ReceiveAddSlot(n)
           \/ ReceiveAdvertisement(n) \/ ReceiveAckDelete(n)
  <2>1. UNCHANGED procedures
    BY <1>7 DEF SendProposal, RemoveForSelection, ReceiveAddSlot, ReceiveAdvertisement,
       ReceiveAckDelete, macVars
  <2> QED
    BY <1>2, <2>1
<1> QED
  BY <1>4, <1>5, <1>6, <1>7 DEF MacHandles

LEMMA StepTables ==
  ASSUME ProtocolInv, [ProtocolNext]_vars
  PROVE  TableTyped' /\ ProceduresTyped'
<1>1. CASE UNCHANGED macVars
  BY <1>1 DEF macVars, ProtocolInv, TableTyped, ProceduresTyped
<1>2. CASE UNCHANGED vars
  BY <1>1, <1>2 DEF vars
<1>3. ASSUME NEW n \in Node, Drain(n) PROVE TableTyped' /\ ProceduresTyped'
  BY <1>1, <1>3, MacTable, MacProcedures DEF Drain
<1>4. ASSUME NEW n \in Node, Tick(n) PROVE UNCHANGED macVars
  BY <1>4 DEF Tick, AppSend, QueueTimeout, RequestSlots, SendStatistics, Request, Advertise, SelectionTimers,
     Transmit, Retransmit
<1> QED
  BY <1>1, <1>2, <1>3, <1>4 DEF ProtocolNext

-----------------------------------------------------------------------------
(* The theorems *)

LEMMA InitProtocol == ProtocolInit => ProtocolInv
<1> SUFFICES ASSUME ProtocolInit PROVE ProtocolInv
  OBVIOUS
<1>1. IInv /\ ProcedureInv
  BY InitInv, InitProcedures DEF ProtocolInit
<1>2. TableTyped /\ PacketsTyped
  <2>1. UnusedSlot \in TableEntry /\ <<>> \in Seq(Entry)
    BY DEF TableEntry
  <2> QED
    BY <2>1 DEF ProtocolInit, TableTyped, PacketsTyped
<1>3. ProceduresTyped
  <2>1. 0 \in Id /\ [set |-> "BC_SLOTS"] \in Procedure
    BY BoundAssumption DEF Id, Procedure, Announcements
  <2> QED
    BY <2>1 DEF ProtocolInit, ProceduresTyped
<1>4. ASSUME NEW n \in Node PROVE bus[n] = <<SetBcSlots>>
  BY StationAssumption DEF ProtocolInit, Init
<1>5. ASSUME NEW n \in Node PROVE IdsLeft(bus[n], nextId[n])
  <2>1. ~Reserving(SetBcSlots)
    BY DEF SetBcSlots, Reserving, Carrier
  <2>2. Reservers(<<SetBcSlots>>) = {}
    BY <2>1 DEF Reservers
  <2> QED
    BY <1>4, <2>2 DEF IdsLeft
<1>6. BusShort
  <2>1. 0 < MaxBus /\ MaxBus \in Nat
    BY OpenAssumption, BoundAssumption
  <2>2. Len(<<SetBcSlots>>) = 1
    OBVIOUS
  <2>3. ASSUME NEW n \in Node PROVE Len(bus[n]) <= MaxBus
    <3>1. Len(bus[n]) = 1
      BY <1>4, <2>2
    <3> QED
      BY <3>1, <2>1
  <2> QED
    BY <2>1, <2>3 DEF BusShort
<1> QED
  BY <1>1, <1>2, <1>3, <1>5, <1>6 DEF ProtocolInv

LEMMA ProtocolInvInductive == ProtocolInv /\ [ProtocolNext]_vars => ProtocolInv'
<1> SUFFICES ASSUME ProtocolInv, [ProtocolNext]_vars PROVE ProtocolInv'
  OBVIOUS
<1>1. IInv'
  BY StepSelection, NextInv DEF ProtocolInv
<1>2. ProcedureInv'
  BY ProcedureInvInductive DEF ProtocolInv
<1> QED
  BY <1>1, <1>2, StepBuses, StepPackets, StepTables DEF ProtocolInv

(* The inductive invariant of the whole protocol: the slot selections' own       *)
(* invariant, that of the procedures, the types of the MACs' tables, procedures  *)
(* and packets, and an id set aside for every message that may need one.         *)
THEOREM ProtocolInvariant == ProtocolSpec => []ProtocolInv
BY InitProtocol, ProtocolInvInductive, PTL DEF ProtocolSpec

(* The tables, procedures, packets and buses of the MACs stay within their types: *)
(* a procedure is never stored under an id out of range, and no packet names a    *)
(* station or a slot that there is not.                                           *)
THEOREM ProtocolTypeCorrect == ProtocolSpec => []ProtocolTypeOK
<1>1. ProtocolInv => ProtocolTypeOK
  <2> SUFFICES ASSUME ProtocolInv PROVE ProtocolTypeOK
    OBVIOUS
  <2>1. \A n \in Node : \A i \in DOMAIN bus[n] : bus[n][i] \in ToAI \cup ToMac
    BY ProtocolStation DEF Message
  <2>2. ASSUME NEW n \in Node, NEW e \in Range(queue[n]) \cup Range(unacked[n])
        PROVE  e \in Entry
    <3>1. queue[n] \in Seq(Entry) /\ unacked[n] \in Seq(Entry)
      BY DEF ProtocolInv, PacketsTyped
    <3> QED
      BY <2>2, <3>1 DEF Range
  <2>3. lock \in [Node -> BOOLEAN] /\ draining \in [Node -> BOOLEAN]
    BY DEF ProtocolInv, ProcedureInv
  <2> QED
    BY <2>1, <2>2, <2>3 DEF ProtocolInv, TableTyped, ProceduresTyped, ProtocolTypeOK
<1> QED
  BY <1>1, ProtocolInvariant, PTL

(* The MAC that SlotSelection leaves open allows for the real one: every step of *)
(* the protocol - a handler of the MAC or of the slot selection, a timer, a      *)
(* transmission - is a step of the slot selection with any MAC, or changes       *)
(* nothing there.                                                                *)
THEOREM ImplementsSlotSelectionHolds == ProtocolSpec => ImplementsSlotSelection
<1>1. ProtocolInit => Init
  BY DEF ProtocolInit
<1> QED
  BY <1>1, StepSelection, ProtocolInvariant, PTL DEF ProtocolSpec, ImplementsSlotSelection, Spec

(* So what is proved of the slot selection holds of every station of the        *)
(* protocol: its grid never has two transmissions or two receptions in a        *)
(* timeslot, and no offer, selection or removal of it is lost from its books.   *)
THEOREM ProtocolGrids ==
  ProtocolSpec => [](OneTransmission /\ OneReception /\ BroadcastAlone
                       /\ OffersTracked /\ RemovalsTracked)
<1>1. ProtocolInv => OneTransmission /\ OneReception /\ BroadcastAlone
                       /\ OffersTracked /\ RemovalsTracked
  BY InvariantImplies DEF ProtocolInv
<1> QED
  BY <1>1, ProtocolInvariant, PTL

(* And the stations keep the promise of RadioSchedule while they negotiate. *)
THEOREM ProtocolSchedule == ProtocolSpec => ImplementsRadioSchedule
<1>1. ProtocolSpec => Spec
  BY ImplementsSlotSelectionHolds DEF ImplementsSlotSelection
<1> QED
  BY <1>1, ImplementsRadioScheduleHolds

-----------------------------------------------------------------------------
(* The selection of a station.  A cell waits as PROPOSED_RX exactly while its *)
(* confirmation is on the bus, and as one message at most may allocate, what  *)
(* the confirmation finds in the grid is what the selection left there.       *)

Confirms(m) == \/ m.to = "MAC" /\ m.type = "GETR_SELECTED" /\ m.slot # NoSlot
               \/ m.to = "AI" /\ m.type = "SET_ALLOCATION" /\ m.mode = "RX"

(* The confirmations of a bus, the cells selected in a grid, and the peers. *)
Selections(b)    == {<<b[i].mac, b[i].slot>> : i \in {j \in DOMAIN b : Confirms(b[j])}}
SelectedCells(g) == {<<g[c].mac, c>> : c \in {d \in Cell : g[d].state = "PROPOSED_RX"}}
SelectionOf(m)   == IF Confirms(m) THEN {<<m.mac, m.slot>>} ELSE {}
Peers(selected)  == {s[1] : s \in selected}

(* What a message on the bus means for the procedure that waits for it. *)
Promised(p, m) ==
  /\ m.to = "AI" /\ m.type = "SET_ALLOCATION"
     => p[m.id].set = "ALLOCATION" /\ p[m.id].mode = m.mode
  /\ m.to = "AI" /\ m.type = "SET_REMOVAL" => p[m.id].set # "ALLOCATION"
  /\ m.to = "MAC" /\ m.type = "SETR" /\ m.result = "NOK" /\ p[m.id].set = "ALLOCATION"
     => p[m.id].mode = "TX"

Confirmed(b, p, g, P) ==
  /\ SelectedCells(g) = Selections(b)
  /\ P = Peers(Selections(b))
  /\ \A i \in DOMAIN b : Promised(p, b[i])

ConfirmedInv == \A n \in Node : Confirmed(bus[n], procedures[n], grid[n], pendingRx[n])

LEMMA PromisedKept ==
  ASSUME NEW p, NEW q, NEW m, Promised(p, m), Awaited(m) => q[m.id] = p[m.id]
  PROVE  Promised(q, m)
<1>1. CASE Awaited(m)
  BY <1>1 DEF Promised
<1>2. CASE ~Awaited(m)
  BY <1>2 DEF Awaited, Promised
<1> QED
  BY <1>1, <1>2

(* A message that confirms is one that allocates: there is one at most. *)
LEMMA ConfirmsToken ==
  ASSUME NEW p, NEW m, Promised(p, m), Confirms(m)
  PROVE  Token(p, m)
BY DEF Promised, Confirms, Token, Carrier, Awaited

(* The procedures of what stays on the bus are not touched. *)
RestKept(b, p, q) == \A i \in DOMAIN b : i # 1 /\ Awaited(b[i]) => q[b[i].id] = p[b[i].id]

AllPromised(p, b) == \A i \in DOMAIN b : Promised(p, b[i])
Following(m, ms)  == IF ms = <<m>> THEN SelectionOf(m) ELSE {}
FollowPromised(q, m, ms) == ms = <<m>> => Promised(q, m)

(* After the head h, the bus b with the procedures p is c with q. *)
LeavesConfirms(b, p, h, c, q, new) ==
  /\ AllPromised(q, c)
  /\ ~Confirms(h) => Selections(c) = Selections(b) \cup new
  /\ Token(p, h) => Selections(c) = new /\ Selections(b) = SelectionOf(h)
  /\ Promised(p, h)

(* What the head of a bus leaves of it: the promises hold, and the selections *)
(* are the old ones, or the new one if the head is the one that may allocate. *)
LEMMA HandledConfirms ==
  ASSUME NEW b, NEW p, NEW k, BusSound(b, p, k), b # <<>>, NEW h, h = Head(b),
         NEW m, NEW ms \in {<<>>, <<m>>}, NEW c, c = Tail(b) \o ms,
         AllPromised(p, b), NEW q, RestKept(b, p, q), FollowPromised(q, m, ms),
         NEW new, new = Following(m, ms)
  PROVE  LeavesConfirms(b, p, h, c, q, new)
<1>1. IsSeq(b) /\ OneToken(b, p)
  BY DEF BusSound
<1>2. /\ IsSeq(c)
      /\ 1 \in DOMAIN b /\ h = b[1]
      /\ \A j \in DOMAIN c : \/ j + 1 \in DOMAIN b /\ j + 1 # 1 /\ c[j] = b[j + 1]
                             \/ j = Len(b) /\ ms = <<m>> /\ c[j] = m
      /\ \A i \in DOMAIN b : i # 1 => i - 1 \in DOMAIN c /\ c[i - 1] = b[i]
      /\ ms = <<m>> => Len(b) \in DOMAIN c /\ c[Len(b)] = m
  <2>1. TailShape(b, m, ms, c)
    BY <1>1, TailPlus, Zenon
  <2> QED
    BY <2>1 DEF TailShape
<1>3. ASSUME NEW j \in DOMAIN c PROVE Promised(q, c[j])
  <2>1. CASE j + 1 \in DOMAIN b /\ j + 1 # 1 /\ c[j] = b[j + 1]
    BY <2>1, PromisedKept DEF RestKept, AllPromised
  <2>2. CASE ms = <<m>> /\ c[j] = m
    BY <2>2 DEF FollowPromised
  <2> QED
    BY <1>2, <2>1, <2>2
<1>4. PICK rest : rest = {<<b[i].mac, b[i].slot>> :
                            i \in {u \in DOMAIN b : u # 1 /\ Confirms(b[u])}}
  OBVIOUS
<1>5. Selections(b) = rest \cup SelectionOf(h)
  BY <1>2, <1>4 DEF Selections, SelectionOf
<1>6. Selections(c) = rest \cup new
  <2>1. ASSUME NEW s \in Selections(c) PROVE s \in rest \cup new
    <3>1. PICK j \in DOMAIN c : Confirms(c[j]) /\ s = <<c[j].mac, c[j].slot>>
      BY DEF Selections
    <3>2. CASE j + 1 \in DOMAIN b /\ j + 1 # 1 /\ c[j] = b[j + 1]
      BY <1>4, <3>1, <3>2
    <3>3. CASE ms = <<m>> /\ c[j] = m
      BY <3>1, <3>3 DEF SelectionOf, Following
    <3> QED
      BY <1>2, <3>1, <3>2, <3>3
  <2>2. ASSUME NEW s \in rest PROVE s \in Selections(c)
    <3>1. PICK i \in DOMAIN b : i # 1 /\ Confirms(b[i]) /\ s = <<b[i].mac, b[i].slot>>
      BY <1>4
    <3>2. i - 1 \in DOMAIN c /\ c[i - 1] = b[i]
      BY <1>2, <3>1
    <3> QED
      BY <3>1, <3>2 DEF Selections
  <2>3. ASSUME NEW s \in new PROVE s \in Selections(c)
    <3>1. ms = <<m>> /\ Confirms(m) /\ s = <<m.mac, m.slot>>
      BY DEF SelectionOf, Following
    <3> QED
      BY <1>2, <3>1 DEF Selections
  <2> QED
    BY <2>1, <2>2, <2>3
<1>7. ASSUME Token(p, h) PROVE rest = {}
  <2>1. ASSUME NEW i \in DOMAIN b, i # 1, Confirms(b[i]) PROVE FALSE
    <3>1. Token(p, b[i]) /\ Token(p, b[1])
      BY <1>2, <1>7, <2>1, ConfirmsToken DEF AllPromised
    <3> QED
      BY <1>1, <1>2, <2>1, <3>1 DEF OneToken
  <2> QED
    BY <1>4, <2>1
<1>8. ~Confirms(h) => SelectionOf(h) = {}
  BY DEF SelectionOf
<1>9. Promised(p, h)
  BY <1>2 DEF AllPromised
<1> QED
  BY <1>3, <1>5, <1>6, <1>7, <1>8, <1>9 DEF LeavesConfirms, AllPromised

(* A step of one station. *)
LEMMA ConfirmedStep ==
  ASSUME ConfirmedInv, NEW n \in Node,
         \A x \in Node \ {n} : /\ bus'[x] = bus[x] /\ procedures'[x] = procedures[x]
                               /\ grid'[x] = grid[x] /\ pendingRx'[x] = pendingRx[x],
         Confirmed(bus'[n], procedures'[n], grid'[n], pendingRx'[n])
  PROVE  ConfirmedInv'
<1>1. ASSUME NEW x \in Node
      PROVE  Confirmed(bus'[x], procedures'[x], grid'[x], pendingRx'[x])
  <2>1. CASE x = n
    BY <2>1
  <2>2. CASE x # n
    BY <2>2 DEF ConfirmedInv
  <2> QED
    BY <2>1, <2>2
<1> QED
  BY <1>1 DEF ConfirmedInv

(* The grid and the open selections of the other stations stay. *)
OthersGrids(n) ==
  \A x \in Node \ {n} : grid'[x] = grid[x] /\ pendingRx'[x] = pendingRx[x]
OthersProcedures(n) == \A x \in Node \ {n} : procedures'[x] = procedures[x]

(* The head was no confirmation and none follows: the selections stay. *)
LEMMA QuietConfirmed ==
  ASSUME ProcedureInv, ConfirmedInv, NEW n \in Node, bus[n] # <<>>,
         NEW m, NEW ms \in {<<>>, <<m>>}, Answers(n, ms),
         RestKept(bus[n], procedures[n], procedures'[n]),
         ~Confirms(Head(bus[n])),
         ms = <<m>> => Promised(procedures'[n], m) /\ ~Confirms(m),
         SelectedCells(grid'[n]) = SelectedCells(grid[n]), pendingRx'[n] = pendingRx[n],
         OthersGrids(n), OthersProcedures(n)
  PROVE  ConfirmedInv'
<1>1. PICK b, p, k, h, c, q, new :
        /\ b = bus[n] /\ p = procedures[n] /\ k = nextId[n] /\ h = Head(b)
        /\ c = Tail(b) \o ms /\ q = procedures'[n]
        /\ new = Following(m, ms)
  OBVIOUS
<1>2. BusSound(b, p, k) /\ AllPromised(p, b)
  BY <1>1, Zenon DEF ProcedureInv, ConfirmedInv, Confirmed, AllPromised
<1>3. /\ bus'[n] = c /\ \A x \in Node \ {n} : bus'[x] = bus[x]
  BY <1>1 DEF ProcedureInv, Answers
<1>4. LeavesConfirms(b, p, h, c, q, new)
  <2>1. /\ b # <<>> /\ h = Head(b) /\ c = Tail(b) \o ms /\ RestKept(b, p, q)
        /\ FollowPromised(q, m, ms) /\ new = Following(m, ms)
    BY <1>1 DEF FollowPromised
  <2> QED
    BY <1>2, <2>1, HandledConfirms, Zenon
<1>5. new = {}
  BY <1>1 DEF SelectionOf, Following
<1>6. Selections(c) = Selections(b)
  BY <1>1, <1>4, <1>5 DEF LeavesConfirms
<1>7. Confirmed(bus'[n], procedures'[n], grid'[n], pendingRx'[n])
  BY <1>1, <1>3, <1>4, <1>6 DEF ConfirmedInv, Confirmed, LeavesConfirms, AllPromised
<1> QED
  BY <1>3, <1>7, ConfirmedStep DEF OthersGrids, OthersProcedures

(* The head is the message that may allocate: what it finds selected is its  *)
(* own selection, and what follows it is all there is then.                  *)
LEMMA TokenFinds ==
  ASSUME ProcedureInv, ConfirmedInv, NEW n \in Node, bus[n] # <<>>,
         Token(procedures[n], Head(bus[n]))
  PROVE  /\ SelectedCells(grid[n]) = SelectionOf(Head(bus[n]))
         /\ pendingRx[n] = Peers(SelectionOf(Head(bus[n])))
         /\ Promised(procedures[n], Head(bus[n]))
<1>1. PICK b, p, k, h, m, ms, c, new :
        /\ b = bus[n] /\ p = procedures[n] /\ k = nextId[n] /\ h = Head(b)
        /\ m = 0 /\ ms = <<>> /\ c = Tail(b) \o ms
        /\ new = Following(m, ms)
  OBVIOUS
<1>2. BusSound(b, p, k) /\ AllPromised(p, b)
  BY <1>1, Zenon DEF ProcedureInv, ConfirmedInv, Confirmed, AllPromised
<1>3. ms # <<m>> /\ ms \in {<<>>, <<m>>}
  BY <1>1
<1>4. RestKept(b, p, p)
  BY DEF RestKept
<1>5. LeavesConfirms(b, p, h, c, p, new)
  <2>1. FollowPromised(p, m, ms)
    BY <1>3 DEF FollowPromised
  <2> QED
    BY <1>1, <1>2, <1>3, <1>4, <2>1, HandledConfirms
<1> QED
  BY <1>1, <1>5 DEF ConfirmedInv, Confirmed, LeavesConfirms

LEMMA TokenConfirmed ==
  ASSUME ProcedureInv, ConfirmedInv, NEW n \in Node, bus[n] # <<>>,
         NEW m, Answers(n, <<m>>),
         RestKept(bus[n], procedures[n], procedures'[n]),
         Token(procedures[n], Head(bus[n])), Promised(procedures'[n], m),
         SelectedCells(grid'[n]) = SelectionOf(m), pendingRx'[n] = Peers(SelectionOf(m)),
         OthersGrids(n), OthersProcedures(n)
  PROVE  ConfirmedInv'
<1>1. PICK b, p, k, h, ms, c, q, new :
        /\ b = bus[n] /\ p = procedures[n] /\ k = nextId[n] /\ h = Head(b)
        /\ ms = <<m>> /\ c = Tail(b) \o ms /\ q = procedures'[n]
        /\ new = Following(m, ms)
  OBVIOUS
<1>2. BusSound(b, p, k) /\ AllPromised(p, b)
  BY <1>1, Zenon DEF ProcedureInv, ConfirmedInv, Confirmed, AllPromised
<1>3. /\ bus'[n] = c /\ \A x \in Node \ {n} : bus'[x] = bus[x]
  BY <1>1 DEF ProcedureInv, Answers
<1>4. LeavesConfirms(b, p, h, c, q, new)
  <2>1. /\ b # <<>> /\ h = Head(b) /\ c = Tail(b) \o ms /\ RestKept(b, p, q)
        /\ FollowPromised(q, m, ms) /\ ms \in {<<>>, <<m>>} /\ new = Following(m, ms)
    BY <1>1 DEF FollowPromised
  <2> QED
    BY <1>2, <2>1, HandledConfirms, Zenon
<1>5. new = SelectionOf(m)
  BY <1>1 DEF Following
<1>6. Confirmed(bus'[n], procedures'[n], grid'[n], pendingRx'[n])
  BY <1>1, <1>3, <1>4, <1>5 DEF Confirmed, LeavesConfirms, AllPromised
<1> QED
  BY <1>3, <1>6, ConfirmedStep DEF OthersGrids, OthersProcedures

-----------------------------------------------------------------------------
(* The handlers of the slot selection, and the cells selected *)

(* Two grids agree on what is selected for reception. *)
SameSelected(g, h) ==
  \A c \in Cell : g[c].state = "PROPOSED_RX" \/ h[c].state = "PROPOSED_RX"
                  => h[c].state = g[c].state /\ h[c].mac = g[c].mac

LEMMA NoneSelected ==
  ASSUME NEW g, SelectedCells(g) = {}
  PROVE  \A c \in Cell : g[c].state # "PROPOSED_RX"
<1> SUFFICES ASSUME NEW c \in Cell, g[c].state = "PROPOSED_RX" PROVE FALSE
  OBVIOUS
<1>1. <<g[c].mac, c>> \in SelectedCells(g)
  BY DEF SelectedCells
<1> QED
  BY <1>1

LEMMA SameSelectedCells ==
  ASSUME NEW g, NEW h, SameSelected(g, h)
  PROVE  SelectedCells(h) = SelectedCells(g)
BY DEF SameSelected, SelectedCells

(* No message of the selection's own confirms, and the grid's selections stay. *)
LEMMA KeptConfirmed ==
  ASSUME ProtocolInv, ConfirmedInv, NEW n \in Node, bus[n] # <<>>,
         NEW m, NEW ms \in {<<>>, <<m>>}, Answers(n, ms), UNCHANGED <<procedures, pendingRx>>,
         ~Confirms(Head(bus[n])),
         ms = <<m>> => Promised(procedures[n], m) /\ ~Confirms(m),
         NEW g, grid' = [grid EXCEPT ![n] = g], SameSelected(grid[n], g)
  PROVE  ConfirmedInv'
<1>1. DOMAIN grid = Node /\ ProcedureInv
  BY StationAssumption DEF ProtocolInv, IInv, TypeOK
<1>2. grid'[n] = g /\ OthersGrids(n) /\ OthersProcedures(n)
  BY <1>1 DEF OthersGrids, OthersProcedures
<1>3. SelectedCells(grid'[n]) = SelectedCells(grid[n])
  BY <1>2, SameSelectedCells
<1>4. RestKept(bus[n], procedures[n], procedures'[n])
  BY DEF RestKept
<1> QED
  BY <1>1, <1>2, <1>3, <1>4, QuietConfirmed

(* The same, for a handler that sends nothing. *)
LEMMA SilentConfirmed ==
  ASSUME ProtocolInv, ConfirmedInv, NEW n \in Node, bus[n] # <<>>, Answers(n, <<>>),
         UNCHANGED <<procedures, pendingRx>>, ~Confirms(Head(bus[n])),
         NEW g, grid' = [grid EXCEPT ![n] = g], SameSelected(grid[n], g)
  PROVE  ConfirmedInv'
<1>1. PICK m, ms : m = 0 /\ ms = <<>>
  OBVIOUS
<1>2. ms # <<m>> /\ ms \in {<<>>, <<m>>}
  BY <1>1
<1> QED
  BY <1>1, <1>2, KeptConfirmed

(* What the invariant says of the grid of one station. *)
LEMMA ProtocolGrid ==
  ASSUME ProtocolInv, NEW n \in Node
  PROVE  /\ DOMAIN grid = Node /\ grid = [grid EXCEPT ![n] = grid[n]]
         /\ grid[n] \in Grid /\ pendingRx[n] \subseteq Node
         /\ DOMAIN pendingRx = Node
         /\ Marked(grid[n], removals[n]) /\ 0 \notin removals[n]
         /\ bus[n] # <<>> => /\ Head(bus[n]) \in Message
                             /\ Head(bus[n]).type = "SET_BC_SLOTS" => grid[n] = EmptyGrid
<1>1. n \in Station /\ IInv
  BY StationAssumption DEF ProtocolInv
<1>2. /\ Typed(grid[n], pendingTx[n], pendingRx[n], removals[n], external[n],
               nextId[n], bus[n])
      /\ Books(grid[n], pendingTx[n], removals[n], nextId[n], bus[n])
  BY <1>1, TypedStation
<1>3. grid \in [Node -> Grid] /\ pendingRx \in [Node -> SUBSET Node]
  BY <1>1, StationAssumption DEF IInv, TypeOK
<1>4. bus[n] # <<>> => Head(bus[n]) \in Message
  BY ProtocolStation
<1>5. bus[n] # <<>> /\ Head(bus[n]).type = "SET_BC_SLOTS" => grid[n] = EmptyGrid
  BY <1>2 DEF Books, BcFirst
<1> QED
  BY <1>2, <1>3, <1>4, <1>5 DEF Typed, Books

LEMMA SameGridSelected == ASSUME NEW g PROVE SameSelected(g, g)
BY DEF SameSelected

(* The broadcast slots are reserved in an empty grid. *)
LEMMA ReservedConfirmed ==
  ASSUME ProtocolInv, ConfirmedInv, NEW n \in Node, AllocateReservedSlots(n),
         UNCHANGED procedures
  PROVE  ConfirmedInv'
<1>1. PICK h, m, ms, g : /\ h = Head(bus[n]) /\ m = SetR(h.id, TRUE) /\ ms = <<m>>
                         /\ g = SetSlotsReserved(grid[n], Reserved)
  OBVIOUS
<1>2. /\ bus[n] # <<>> /\ h.to = "AI" /\ h.type = "SET_BC_SLOTS" /\ Answers(n, ms)
      /\ grid' = [grid EXCEPT ![n] = g] /\ UNCHANGED pendingRx
  BY <1>1 DEF AllocateReservedSlots, Addressed
<1>3. ~Confirms(h) /\ ~Confirms(m) /\ Promised(procedures[n], m)
  BY <1>1, <1>2 DEF Confirms, SetR, Promised
<1>4. SameSelected(grid[n], g)
  <2>1. grid[n] = EmptyGrid
    BY <1>1, <1>2, ProtocolGrid
  <2> QED
    BY <1>1, <2>1 DEF SetSlotsReserved, SameSelected, EmptyGrid, FreeInfo
<1> QED
  BY <1>1, <1>2, <1>3, <1>4, KeptConfirmed

(* What leaves the grid alone and sends nothing. *)
LEMMA IgnoreConfirmed ==
  ASSUME ProtocolInv, ConfirmedInv, NEW n \in Node, UNCHANGED procedures,
         IgnoreRequest(n) \/ ExternalSlotsAllocated(n) \/ ExternalSlotRemoved(n)
  PROVE  ConfirmedInv'
<1>1. /\ bus[n] # <<>> /\ Head(bus[n]).to = "AI"
      /\ Head(bus[n]).type \in {"GET_PROPOSED", "SET_EXTERNAL_USED", "SET_EXTERNAL_FREE"}
      /\ Answers(n, <<>>) /\ UNCHANGED <<grid, pendingRx>>
  BY DEF IgnoreRequest, ExternalSlotsAllocated, ExternalSlotRemoved, Addressed, gridVars
<1>2. ~Confirms(Head(bus[n]))
  BY <1>1 DEF Confirms
<1>3. PICK g : g = grid[n]
  OBVIOUS
<1>4. grid' = [grid EXCEPT ![n] = g] /\ SameSelected(grid[n], g)
  BY <1>1, <1>3, ProtocolGrid, SameGridSelected
<1> QED
  BY <1>1, <1>2, <1>4, SilentConfirmed

(* An answer to a removal frees a marked cell, which is allocated. *)
LEMMA ResponseConfirmed ==
  ASSUME ProtocolInv, ConfirmedInv, NEW n \in Node, ProcessSetResponse(n),
         UNCHANGED procedures
  PROVE  ConfirmedInv'
<1>1. PICK h, g : /\ h = Head(bus[n])
                  /\ g = IF h.id \in removals[n] /\ h.result = "OK"
                         THEN ExecutePendingRemoval(grid[n], h.id) ELSE grid[n]
  OBVIOUS
<1>2. /\ bus[n] # <<>> /\ h.to = "AI" /\ h.type = "SETR" /\ Answers(n, <<>>)
      /\ grid' = [grid EXCEPT ![n] = g] /\ UNCHANGED pendingRx
  BY <1>1 DEF ProcessSetResponse, Addressed
<1>3. ~Confirms(h)
  BY <1>2 DEF Confirms
<1>4. SameSelected(grid[n], g)
  <2>1. CASE h.id \in removals[n] /\ h.result = "OK"
    <3>1. Marked(grid[n], removals[n]) /\ h.id # 0
      BY <2>1, ProtocolGrid
    <3>2. \A c \in RemovalCells(grid[n], h.id) : grid[n][c].state \in {"RX", "TX"}
      BY <3>1 DEF RemovalCells, Marked
    <3>3. g = FreeSlots(grid[n], First(RemovalCells(grid[n], h.id)))
      BY <1>1, <2>1 DEF ExecutePendingRemoval
    <3>4. First(RemovalCells(grid[n], h.id)) \subseteq RemovalCells(grid[n], h.id)
      BY DEF First
    <3> QED
      BY <3>2, <3>3, <3>4 DEF FreeSlots, SameSelected, FreeInfo
  <2>2. CASE ~(h.id \in removals[n] /\ h.result = "OK")
    BY <1>1, <2>2, SameGridSelected
  <2> QED
    BY <2>1, <2>2
<1> QED
  BY <1>1, <1>2, <1>3, <1>4, SilentConfirmed

(* What is proposed was free. *)
LEMMA ProposeConfirmed ==
  ASSUME ProtocolInv, ConfirmedInv, NEW n \in Node, ProposeSlots(n), UNCHANGED procedures
  PROVE  ConfirmedInv'
<1>1. PICK h : h = Head(bus[n])
  OBVIOUS
<1>2. PICK accepted :
        /\ \A c \in accepted : IsSetPendingAllowed(grid[n], c, "PROPOSED_TX", h.mac)
        /\ grid' = [grid EXCEPT ![n] = [c \in Cell |->
                      IF c \in accepted
                      THEN [state |-> "PROPOSED_TX", mac |-> h.mac, removal |-> 0]
                      ELSE @[c]]]
        /\ Answers(n, <<[to |-> "MAC", type |-> "GETR_PROPOSED", id |-> h.id,
                         mac |-> h.mac, slots |-> accepted]>>)
  BY <1>1 DEF ProposeSlots
<1>3. PICK m, ms, g : /\ m = [to |-> "MAC", type |-> "GETR_PROPOSED", id |-> h.id,
                              mac |-> h.mac, slots |-> accepted]
                      /\ ms = <<m>>
                      /\ g = [c \in Cell |->
                                IF c \in accepted
                                THEN [state |-> "PROPOSED_TX", mac |-> h.mac, removal |-> 0]
                                ELSE grid[n][c]]
  OBVIOUS
<1>4. /\ bus[n] # <<>> /\ h.to = "AI" /\ h.type = "GET_PROPOSED" /\ UNCHANGED pendingRx
  BY <1>1 DEF ProposeSlots, Addressed
<1>5. Answers(n, ms) /\ grid' = [grid EXCEPT ![n] = g]
  BY <1>2, <1>3
<1>6. ~Confirms(h) /\ ~Confirms(m) /\ Promised(procedures[n], m)
  BY <1>3, <1>4 DEF Confirms, Promised
<1>7. SameSelected(grid[n], g)
  <2>1. \A c \in accepted : grid[n][c].state = "FREE"
    BY <1>2 DEF IsSetPendingAllowed, IsSlotFree
  <2> QED
    BY <1>3, <2>1 DEF SameSelected
<1> QED
  BY <1>1, <1>3, <1>4, <1>5, <1>6, <1>7, KeptConfirmed

(* remove_slot frees an allocated cell. *)
LEMMA RemoveConfirmed ==
  ASSUME ProtocolInv, ConfirmedInv, NEW n \in Node, RemoveSlot(n), UNCHANGED procedures
  PROVE  ConfirmedInv'
<1>1. PICK h, ok : h = Head(bus[n]) /\ ok = IsSlotAllocatedFor(grid[n], h.slot, h.mac)
  OBVIOUS
<1>2. PICK m, ms, g : /\ m = SetR(h.id, ok) /\ ms = <<m>>
                      /\ g = IF ok THEN FreeSlots(grid[n], {h.slot}) ELSE grid[n]
  OBVIOUS
<1>3. /\ bus[n] # <<>> /\ h.to = "AI" /\ h.type = "SET_REMOVAL" /\ UNCHANGED pendingRx
      /\ Answers(n, ms) /\ grid' = [grid EXCEPT ![n] = g]
  BY <1>1, <1>2 DEF RemoveSlot, Addressed
<1>4. ~Confirms(h) /\ ~Confirms(m)
  BY <1>2, <1>3 DEF Confirms, SetR
<1>5. Promised(procedures[n], m)
  <2>1. Promised(procedures[n], h)
    <3>1. 1 \in DOMAIN bus[n] /\ bus[n][1] = h
      BY <1>1, <1>3, ProtocolStation DEF IsSeq
    <3> QED
      BY <3>1 DEF ConfirmedInv, Confirmed
  <2>2. procedures[n][h.id].set # "ALLOCATION"
    BY <1>3, <2>1 DEF Promised
  <2>3. m.id = h.id /\ m.to = "MAC" /\ m.type = "SETR"
    BY <1>2 DEF SetR
  <2> QED
    BY <2>2, <2>3 DEF Promised
<1>6. SameSelected(grid[n], g)
  <2>1. CASE ok
    <3>1. grid[n][h.slot].state \in {"RX", "TX"}
      BY <1>1, <2>1 DEF IsSlotAllocatedFor, IsSlotAllocated
    <3> QED
      BY <1>2, <2>1, <3>1 DEF FreeSlots, SameSelected, FreeInfo
  <2>2. CASE ~ok
    BY <1>2, <2>2, SameGridSelected
  <2> QED
    BY <2>1, <2>2
<1> QED
  BY <1>1, <1>2, <1>3, <1>4, <1>5, <1>6, KeptConfirmed

LEMMA MarkSelected ==
  ASSUME NEW g \in Grid, NEW due, NEW id
  PROVE  SameSelected(g, MarkRemoval(g, due, id))
<1>1. CASE due = NoSlot \/ ~(IsSlotAllocated(g, due) /\ ~IsRemovePending(g, due))
  <2>1. MarkRemoval(g, due, id) = g
    BY <1>1 DEF MarkRemoval, SetPendingRemoval
  <2> QED
    BY <2>1, SameGridSelected
<1>2. CASE due # NoSlot /\ IsSlotAllocated(g, due) /\ ~IsRemovePending(g, due)
  <2>1. MarkRemoval(g, due, id) = [g EXCEPT ![due].removal = id]
    BY <1>2 DEF MarkRemoval, SetPendingRemoval
  <2> QED
    BY <2>1 DEF SameSelected, Grid, SlotInfo
<1> QED
  BY <1>1, <1>2

LEMMA StatsConfirmed ==
  ASSUME ProtocolInv, ConfirmedInv, NEW n \in Node, ProcessStats(n), UNCHANGED procedures
  PROVE  ConfirmedInv'
<1>1. PICK due : /\ grid' = [grid EXCEPT ![n] = MarkRemoval(@, due, nextId[n])]
                 /\ Answers(n, RemovalRequest(grid[n], due, nextId[n]))
  BY DEF ProcessStats
<1>2. PICK m, ms, g : /\ m = [to |-> "MAC", type |-> "SET_REMOVAL", id |-> nextId[n],
                              mac |-> grid[n][due].mac, slot |-> due]
                      /\ ms = RemovalRequest(grid[n], due, nextId[n])
                      /\ g = MarkRemoval(grid[n], due, nextId[n])
  OBVIOUS
<1>3. ms \in {<<>>, <<m>>}
  BY <1>2 DEF RemovalRequest
<1>4. /\ bus[n] # <<>> /\ Head(bus[n]).to = "AI" /\ Head(bus[n]).type = "STATS"
      /\ UNCHANGED pendingRx
  BY DEF ProcessStats, Addressed
<1>5. ~Confirms(Head(bus[n])) /\ ~Confirms(m) /\ Promised(procedures[n], m)
  BY <1>2, <1>4 DEF Confirms, Promised
<1>6. grid' = [grid EXCEPT ![n] = g] /\ Answers(n, ms)
  BY <1>1, <1>2
<1>7. SameSelected(grid[n], g)
  BY <1>2, ProtocolGrid, MarkSelected
<1> QED
  BY <1>3, <1>4, <1>5, <1>6, <1>7, KeptConfirmed

(* select_rx_slot runs when nothing is selected: afterwards there is what its *)
(* answer announces.                                                          *)
LEMMA SelectConfirmed ==
  ASSUME ProtocolInv, ConfirmedInv, NEW n \in Node, SelectSlot(n), UNCHANGED procedures
  PROVE  ConfirmedInv'
<1>1. PICK h, p : h = Head(bus[n]) /\ p = procedures[n]
  OBVIOUS
<1>2. bus[n] # <<>> /\ h.to = "AI" /\ h.type = "GET_SELECTED"
  BY <1>1 DEF SelectSlot, Addressed
<1>3. ProcedureInv /\ Token(p, h) /\ ~Confirms(h)
  BY <1>2 DEF ProtocolInv, Token, Carrier, Confirms
<1>4. SelectedCells(grid[n]) = {} /\ pendingRx[n] = {}
  BY <1>1, <1>2, <1>3, TokenFinds DEF SelectionOf, Peers
<1>5. PICK c \in h.slots \cup {NoSlot} :
        LET accepted == c # NoSlot /\ IsSetPendingAllowed(grid[n], c, "PROPOSED_RX", h.mac)
        IN  /\ grid' = [grid EXCEPT ![n] = IF accepted
                                           THEN SetSlotPending(@, c, "PROPOSED_RX", h.mac)
                                           ELSE @]
            /\ pendingRx' = [pendingRx EXCEPT ![n] = IF accepted THEN @ \cup {h.mac} ELSE @]
            /\ Answers(n, <<[to |-> "MAC", type |-> "GETR_SELECTED", id |-> h.id,
                             mac |-> h.mac, slot |-> IF accepted THEN c ELSE NoSlot]>>)
  BY <1>1 DEF SelectSlot, RxCandidates
<1> DEFINE accepted == c # NoSlot /\ IsSetPendingAllowed(grid[n], c, "PROPOSED_RX", h.mac)
<1>6. PICK m : m = [to |-> "MAC", type |-> "GETR_SELECTED", id |-> h.id, mac |-> h.mac,
                    slot |-> IF accepted THEN c ELSE NoSlot]
  OBVIOUS
<1>7. Answers(n, <<m>>)
  BY <1>5, <1>6
<1>8. Promised(procedures'[n], m) /\ RestKept(bus[n], procedures[n], procedures'[n])
  BY <1>6 DEF Promised, RestKept
<1>9. OthersGrids(n) /\ OthersProcedures(n)
  BY <1>5, ProtocolGrid DEF OthersGrids, OthersProcedures
<1>10. h.slots \subseteq Cell
  <2>1. h \in Message
    BY <1>1, <1>2, ProtocolGrid
  <2> QED
    BY <1>2, <2>1, AIMessage
<1>11. SelectedCells(grid'[n]) = SelectionOf(m) /\ pendingRx'[n] = Peers(SelectionOf(m))
  <2>1. CASE accepted
    <3>1. c \in Cell /\ c # NoSlot /\ IsSetPendingAllowed(grid[n], c, "PROPOSED_RX", h.mac)
      BY <1>5, <1>10, <2>1
    <3>2. PICK g : g = [grid[n] EXCEPT ![c] =
                          [state |-> "PROPOSED_RX", mac |-> h.mac, removal |-> 0]]
      OBVIOUS
    <3>3. SetSlotPending(grid[n], c, "PROPOSED_RX", h.mac) = g
      BY <3>1, <3>2 DEF SetSlotPending
    <3>4. grid'[n] = g /\ pendingRx'[n] = {h.mac}
      BY <1>4, <1>5, <2>1, <3>3, ProtocolGrid
    <3>5. SelectionOf(m) = {<<h.mac, c>>}
      BY <1>6, <2>1, <3>1 DEF SelectionOf, Confirms
    <3>6. \A d \in Cell : grid[n][d].state # "PROPOSED_RX"
      BY <1>4 DEF SelectedCells
    <3>7. DOMAIN grid[n] = Cell
      BY ProtocolGrid DEF Grid
    <3>8. SelectedCells(g) = {<<h.mac, c>>}
      BY <3>1, <3>2, <3>6, <3>7 DEF SelectedCells
    <3> QED
      BY <3>4, <3>5, <3>8 DEF Peers
  <2>2. CASE ~accepted
    <3>1. grid'[n] = grid[n] /\ pendingRx'[n] = pendingRx[n]
      BY <1>5, <2>2, ProtocolGrid
    <3>2. SelectionOf(m) = {}
      BY <1>6, <2>2 DEF SelectionOf, Confirms
    <3> QED
      BY <1>4, <3>1, <3>2 DEF Peers
  <2> QED
    BY <2>1, <2>2
<1> QED
  BY <1>1, <1>2, <1>3, <1>7, <1>8, <1>9, <1>11, TokenConfirmed

(* What an allocation request finds: the selection it confirms, or none. *)
LEMMA AllocationFinds ==
  ASSUME ProtocolInv, ConfirmedInv, NEW n \in Node, NEW h, h = Head(bus[n]),
         Addressed(n, "AI", "SET_ALLOCATION")
  PROVE  /\ ProcedureInv /\ bus[n] # <<>> /\ h.to = "AI" /\ h.type = "SET_ALLOCATION"
         /\ h.mac \in Node /\ h.mode \in Mode /\ h.slot \in Cell
         /\ Token(procedures[n], h) /\ Promised(procedures[n], h)
         /\ SelectedCells(grid[n]) = SelectionOf(h)
         /\ pendingRx[n] = Peers(SelectionOf(h))
<1>1. /\ ProcedureInv /\ bus[n] # <<>> /\ h.to = "AI" /\ h.type = "SET_ALLOCATION"
  BY DEF Addressed, ProtocolInv
<1>2. h \in Message
  BY <1>1, ProtocolGrid
<1>3. h.mac \in Node /\ h.mode \in Mode /\ h.slot \in Cell
  BY <1>1, <1>2, AIMessage
<1>4. Promised(procedures[n], h)
  <2>1. 1 \in DOMAIN bus[n] /\ bus[n][1] = h
    BY <1>1, ProtocolStation DEF IsSeq
  <2> QED
    BY <2>1 DEF ConfirmedInv, Confirmed
<1>5. Token(procedures[n], h)
  BY <1>1, <1>4 DEF Promised, Token, Awaited
<1> QED
  BY <1>1, <1>3, <1>4, <1>5, TokenFinds

(* allocate_slot leaves nothing selected. *)
LEMMA AllocateConfirmed ==
  ASSUME ProtocolInv, ConfirmedInv, NEW n \in Node, AllocateSlot(n), UNCHANGED procedures
  PROVE  ConfirmedInv'
<1>1. PICK h, m, g : /\ h = Head(bus[n]) /\ m = SetR(h.id, TRUE)
                     /\ g = IF AlreadyAllocated(n, h) THEN grid[n]
                            ELSE SetSlotAllocated(grid[n], h.slot, h.mode, h.mac)
  OBVIOUS
<1>2. /\ ProcedureInv /\ bus[n] # <<>>
      /\ h.mac \in Node /\ h.mode \in Mode /\ h.slot \in Cell
      /\ Token(procedures[n], h)
      /\ SelectedCells(grid[n]) = SelectionOf(h)
      /\ pendingRx[n] = Peers(SelectionOf(h))
  BY <1>1, AllocationFinds DEF AllocateSlot
<1>3. /\ Answers(n, <<m>>)
      /\ \/ /\ h.mode = "TX"
            /\ grid' = [grid EXCEPT ![n] = AbortTXProposals(g, {h.mac})]
            /\ UNCHANGED pendingRx
         \/ /\ h.mode = "RX"
            /\ grid' = [grid EXCEPT ![n] = g]
            /\ pendingRx' = [pendingRx EXCEPT ![n] = @ \ {h.mac}]
      /\ AlreadyAllocated(n, h) \/ NewlyAllocated(n, h)
  BY <1>1 DEF AllocateSlot
<1>4. Promised(procedures'[n], m) /\ SelectionOf(m) = {}
  BY <1>1 DEF Promised, SetR, SelectionOf, Confirms
<1>5. RestKept(bus[n], procedures[n], procedures'[n])
  BY DEF RestKept
<1>6. OthersGrids(n) /\ OthersProcedures(n)
  BY <1>3, ProtocolGrid DEF OthersGrids, OthersProcedures
<1>7. DOMAIN grid[n] = Cell
  BY ProtocolGrid DEF Grid
<1>8. \A c \in Cell : /\ g[c].state = "PROPOSED_RX" => grid[n][c].state = "PROPOSED_RX"
                      /\ c = h.slot => g[c].state # "PROPOSED_RX"
  <2>1. CASE AlreadyAllocated(n, h)
    BY <1>1, <2>1 DEF AlreadyAllocated, IsSlotAllocatedFor, IsSlotAllocated
  <2>2. CASE ~AlreadyAllocated(n, h)
    <3>1. IsSetAllocatedAllowed(grid[n], h.slot, h.mode, h.mac)
      BY <1>3, <2>2 DEF NewlyAllocated
    <3>2. g = [grid[n] EXCEPT ![h.slot] = [state |-> h.mode, mac |-> h.mac, removal |-> 0]]
      BY <1>1, <2>2, <3>1 DEF SetSlotAllocated
    <3> QED
      BY <1>2, <1>7, <3>2 DEF Mode
  <2> QED
    BY <2>1, <2>2
<1>9. h.slot \notin {c \in Cell : g[c].state = "PROPOSED_RX"}
  BY <1>8
<1>10. \A c \in Cell : g[c].state # "PROPOSED_RX"
  <2>1. ASSUME NEW c \in Cell, g[c].state = "PROPOSED_RX" PROVE FALSE
    <3>1. <<grid[n][c].mac, c>> \in SelectedCells(grid[n])
      BY <1>8, <2>1 DEF SelectedCells
    <3>2. <<grid[n][c].mac, c>> = <<h.mac, h.slot>>
      BY <1>2, <3>1 DEF SelectionOf
    <3> QED
      BY <1>8, <2>1, <3>2
  <2> QED
    BY <2>1
<1>11. SelectedCells(grid'[n]) = {} /\ pendingRx'[n] = {}
  <2>1. CASE h.mode = "TX"
    <3>1. SelectionOf(h) = {}
      <4>1. ~Confirms(h)
        BY <1>1, <2>1, AllocationFinds DEF Confirms, AllocateSlot
      <4> QED
        BY <4>1 DEF SelectionOf
    <3>2. grid'[n] = AbortTXProposals(g, {h.mac}) /\ pendingRx'[n] = pendingRx[n]
      BY <1>3, <2>1, ProtocolGrid
    <3>3. \A c \in Cell : AbortTXProposals(g, {h.mac})[c].state # "PROPOSED_RX"
      BY <1>10 DEF AbortTXProposals, FreeSlots, FreeInfo
    <3> QED
      BY <1>2, <3>1, <3>2, <3>3 DEF SelectedCells, Peers
  <2>2. CASE h.mode = "RX"
    <3>1. grid'[n] = g /\ pendingRx'[n] = pendingRx[n] \ {h.mac}
      BY <1>3, <2>2, ProtocolGrid
    <3>2. pendingRx[n] \subseteq {h.mac}
      BY <1>2 DEF SelectionOf, Peers
    <3> QED
      BY <1>10, <3>1, <3>2 DEF SelectedCells
  <2> QED
    BY <1>2, <2>1, <2>2 DEF Mode
<1> QED
  BY <1>1, <1>2, <1>3, <1>4, <1>5, <1>6, <1>11, TokenConfirmed DEF Peers

(* An allocation that is refused is one for transmission: what a selection    *)
(* announced is still there when it is confirmed.                             *)
LEMMA RefuseConfirmed ==
  ASSUME ProtocolInv, ConfirmedInv, NEW n \in Node, RefuseAllocation(n), UNCHANGED procedures
  PROVE  ConfirmedInv'
<1>1. PICK h, m, ms, g : /\ h = Head(bus[n]) /\ m = SetR(h.id, FALSE) /\ ms = <<m>>
                         /\ g = grid[n]
  OBVIOUS
<1>2. /\ bus[n] # <<>> /\ h.to = "AI" /\ h.type = "SET_ALLOCATION"
      /\ h.mac \in Node /\ h.mode \in Mode /\ h.slot \in Cell
      /\ Promised(procedures[n], h)
      /\ SelectedCells(grid[n]) = SelectionOf(h)
      /\ pendingRx[n] = Peers(SelectionOf(h))
  BY <1>1, AllocationFinds DEF RefuseAllocation
<1>3. h.mode = "TX"
  <2>1. ASSUME h.mode = "RX" PROVE FALSE
    <3>1. Confirms(h)
      BY <1>2, <2>1 DEF Confirms
    <3>2. <<h.mac, h.slot>> \in SelectedCells(grid[n]) /\ h.mac \in pendingRx[n]
      BY <1>2, <3>1 DEF SelectionOf, Peers
    <3>3. grid[n][h.slot].state = "PROPOSED_RX" /\ grid[n][h.slot].mac = h.mac
      BY <3>2 DEF SelectedCells
    <3>4. NewlyAllocated(n, h)
      BY <2>1, <3>2, <3>3 DEF NewlyAllocated, IsSetAllocatedAllowed
    <3> QED
      BY <1>1, <3>4 DEF RefuseAllocation
  <2> QED
    BY <1>2, <2>1 DEF Mode
<1>4. ~Confirms(h) /\ ~Confirms(m)
  BY <1>1, <1>2, <1>3 DEF Confirms, SetR
<1>5. Promised(procedures[n], m)
  <2>1. procedures[n][h.id].mode = "TX"
    BY <1>2, <1>3 DEF Promised
  <2>2. m.id = h.id /\ m.to = "MAC" /\ m.type = "SETR"
    BY <1>1 DEF SetR
  <2> QED
    BY <2>1, <2>2 DEF Promised
<1>6. Answers(n, ms) /\ UNCHANGED <<grid, pendingRx>>
  BY <1>1 DEF RefuseAllocation, gridVars
<1>7. grid' = [grid EXCEPT ![n] = g] /\ SameSelected(grid[n], g)
  BY <1>1, <1>6, ProtocolGrid, SameGridSelected
<1> QED
  BY <1>1, <1>2, <1>4, <1>5, <1>6, <1>7, KeptConfirmed

LEMMA SelectionConfirms ==
  ASSUME ProtocolInv, ConfirmedInv, NEW n \in Node, SelectionHandles(n), UNCHANGED procedures
  PROVE  ConfirmedInv'
BY ReservedConfirmed, IgnoreConfirmed, ResponseConfirmed, ProposeConfirmed, RemoveConfirmed,
   StatsConfirmed, SelectConfirmed, AllocateConfirmed, RefuseConfirmed DEF SelectionHandles

-----------------------------------------------------------------------------
(* The handlers of the MAC *)

(* A procedure that begins has an id unlike any that is waited for. *)
LEMMA BegunKept ==
  ASSUME ProcedureInv, NEW n \in Node, NEW r, Remember(n, nextId[n], r)
  PROVE  /\ RestKept(bus[n], procedures[n], procedures'[n])
         /\ procedures'[n][nextId[n]] = r
         /\ OthersProcedures(n)
<1>1. DOMAIN procedures = Node /\ BusSound(bus[n], procedures[n], nextId[n])
  BY DEF ProcedureInv
<1>2. /\ procedures'[n] = [i \in DOMAIN procedures[n] \cup {nextId[n]} |->
                              IF i = nextId[n] THEN r ELSE procedures[n][i]]
      /\ OthersProcedures(n)
  BY <1>1 DEF Remember, OthersProcedures
<1>3. nextId[n] \notin DOMAIN procedures[n]
  BY <1>1 DEF BusSound, IdsFresh
<1>4. \A i \in DOMAIN bus[n] : Awaited(bus[n][i]) => bus[n][i].id \in DOMAIN procedures[n]
  BY <1>1 DEF BusSound, AwaitedKnown
<1> QED
  BY <1>2, <1>3, <1>4 DEF RestKept

(* A procedure that ends is the one that its answer names. *)
LEMMA EndedKept ==
  ASSUME ProcedureInv, NEW n \in Node, bus[n] # <<>>, Awaited(Head(bus[n])),
         Forget(n, Head(bus[n]).id)
  PROVE  /\ RestKept(bus[n], procedures[n], procedures'[n])
         /\ OthersProcedures(n)
<1>1. DOMAIN procedures = Node /\ BusSound(bus[n], procedures[n], nextId[n])
  BY DEF ProcedureInv
<1>2. PICK h : h = Head(bus[n])
  OBVIOUS
<1>3. /\ procedures'[n] = [i \in DOMAIN procedures[n] \ {h.id} |-> procedures[n][i]]
      /\ OthersProcedures(n)
  BY <1>1, <1>2 DEF Forget, OthersProcedures
<1>4. 1 \in DOMAIN bus[n] /\ bus[n][1] = h
  BY <1>1, <1>2 DEF BusSound, IsSeq
<1>5. \A i \in DOMAIN bus[n] : i # 1 /\ Awaited(bus[n][i])
        => bus[n][i].id \in DOMAIN procedures[n] \ {h.id}
  BY <1>1, <1>2, <1>4 DEF BusSound, AwaitedKnown
<1> QED
  BY <1>3, <1>5 DEF RestKept

(* The MAC leaves the grid alone. *)
LEMMA MacGrid ==
  ASSUME NEW n \in Node, UNCHANGED gridVars
  PROVE  /\ SelectedCells(grid'[n]) = SelectedCells(grid[n])
         /\ pendingRx'[n] = pendingRx[n] /\ OthersGrids(n)
BY DEF gridVars, OthersGrids

(* The handlers that begin and end no procedure. *)
LEMMA MacPlainConfirmed ==
  ASSUME ProtocolInv, ConfirmedInv, NEW n \in Node, UNCHANGED gridVars,
         \/ SendProposal(n) \/ RemoveForSelection(n) \/ ReceiveAddSlot(n)
         \/ ReceiveAdvertisement(n) \/ ReceiveAckDelete(n)
         \/ SendSelection(n) /\ Head(bus[n]).slot = NoSlot
  PROVE  ConfirmedInv'
<1>1. PICK h, g : h = Head(bus[n]) /\ g = grid[n]
  OBVIOUS
<1>2. /\ bus[n] # <<>> /\ h.to = "MAC" /\ UNCHANGED procedures
      /\ h.type \in {"GETR_PROPOSED", "SET_REMOVAL", "RECEIVE", "GETR_SELECTED"}
      /\ h.type = "GETR_SELECTED" => h.slot = NoSlot
  BY <1>1 DEF SendProposal, SendSelection, RemoveForSelection, ReceiveAddSlot,
     ReceiveAdvertisement, ReceiveAckDelete, Received, Addressed, macVars
<1>3. ~Confirms(h)
  BY <1>2 DEF Confirms
<1>4. UNCHANGED pendingRx /\ grid' = [grid EXCEPT ![n] = g] /\ SameSelected(grid[n], g)
  BY <1>1, ProtocolGrid, SameGridSelected DEF gridVars
<1>5. CASE SendProposal(n) \/ (SendSelection(n) /\ Head(bus[n]).slot = NoSlot)
  <2>1. Answers(n, <<>>)
    BY <1>5 DEF SendProposal, SendSelection
  <2> QED
    BY <1>1, <1>2, <1>3, <1>4, <2>1, SilentConfirmed
<1>6. ASSUME NEW m, Answers(n, <<m>>), m.to = "AI",
             m.type \in {"SETR", "GET_SELECTED", "SET_EXTERNAL_USED", "SET_EXTERNAL_FREE"}
      PROVE  ConfirmedInv'
  <2>1. ~Confirms(m) /\ Promised(procedures[n], m)
    BY <1>6 DEF Confirms, Promised
  <2>2. PICK ms : ms = <<m>>
    OBVIOUS
  <2> QED
    BY <1>1, <1>2, <1>3, <1>4, <1>6, <2>1, <2>2, KeptConfirmed
<1>7. CASE RemoveForSelection(n)
  <2>1. PICK m : m = [to |-> "AI", type |-> "SETR", id |-> h.id, result |-> "OK"]
    OBVIOUS
  <2>2. Answers(n, <<m>>) /\ m.to = "AI" /\ m.type = "SETR"
    BY <1>1, <1>7, <2>1 DEF RemoveForSelection
  <2> QED
    BY <1>6, <2>2
<1>8. CASE ReceiveAddSlot(n)
  <2>1. PICK m : m = [to |-> "AI", type |-> "GET_SELECTED", id |-> 0, mac |-> h.src,
                      slots |-> h.packet.slots]
    OBVIOUS
  <2>2. Answers(n, <<m>>) /\ m.to = "AI" /\ m.type = "GET_SELECTED"
    BY <1>1, <1>8, <2>1 DEF ReceiveAddSlot
  <2> QED
    BY <1>6, <2>2
<1>9. CASE ReceiveAdvertisement(n)
  <2>1. PICK m : m = [to |-> "AI", type |-> "SET_EXTERNAL_USED", src |-> h.src,
                      slots |-> h.packet.slots]
    OBVIOUS
  <2>2. Answers(n, <<m>>) /\ m.to = "AI" /\ m.type = "SET_EXTERNAL_USED"
    BY <1>1, <1>9, <2>1 DEF ReceiveAdvertisement
  <2> QED
    BY <1>6, <2>2
<1>10. CASE ReceiveAckDelete(n)
  <2>1. PICK c : Answers(n, <<[to |-> "AI", type |-> "SET_EXTERNAL_FREE", slot |-> c]>>)
    BY <1>10 DEF ReceiveAckDelete
  <2>2. PICK m : m = [to |-> "AI", type |-> "SET_EXTERNAL_FREE", slot |-> c]
    OBVIOUS
  <2>3. Answers(n, <<m>>) /\ m.to = "AI" /\ m.type = "SET_EXTERNAL_FREE"
    BY <2>1, <2>2
  <2> QED
    BY <1>6, <2>3
<1> QED
  BY <1>5, <1>7, <1>8, <1>9, <1>10

(* The handlers that begin a procedure. *)
LEMMA MacBeginsConfirmed ==
  ASSUME ProtocolInv, ConfirmedInv, NEW n \in Node, UNCHANGED gridVars,
         \/ ReceiveResult(n) \/ ReceiveDelete(n)
         \/ SendSelection(n) /\ Head(bus[n]).slot # NoSlot
  PROVE  ConfirmedInv'
<1>1. PICK h, k : h = Head(bus[n]) /\ k = nextId[n]
  OBVIOUS
<1>2. ProcedureInv /\ bus[n] # <<>> /\ h.to = "MAC"
  BY <1>1 DEF ProtocolInv, ReceiveResult, ReceiveDelete, SendSelection, Received, Addressed
<1>3. CASE ReceiveResult(n)
  <2>1. h.type = "RECEIVE" /\ \E c : SetSlotAllocation(n, h.src, "TX", c)
    BY <1>1, <1>3 DEF ReceiveResult, Received, Addressed
  <2>2. PICK c : SetSlotAllocation(n, h.src, "TX", c)
    BY <2>1
  <2>3. PICK m, ms, r : /\ m = [to |-> "AI", type |-> "SET_ALLOCATION", id |-> k,
                                mac |-> h.src, mode |-> "TX", slot |-> c]
                        /\ r = [set |-> "ALLOCATION", mode |-> "TX", mac |-> h.src,
                                slot |-> c]
                        /\ ms = <<m>>
    OBVIOUS
  <2>4. Answers(n, ms) /\ Remember(n, nextId[n], r)
    BY <1>1, <2>2, <2>3 DEF SetSlotAllocation
  <2>5. /\ RestKept(bus[n], procedures[n], procedures'[n])
        /\ procedures'[n][k] = r /\ OthersProcedures(n)
    BY <1>1, <1>2, <2>4, BegunKept
  <2>6. ~Confirms(h) /\ ~Confirms(m) /\ Promised(procedures'[n], m)
    BY <1>2, <2>1, <2>3, <2>5 DEF Confirms, Promised
  <2> QED
    BY <1>1, <1>2, <2>3, <2>4, <2>5, <2>6, MacGrid, QuietConfirmed
<1>4. CASE ReceiveDelete(n)
  <2>1. h.type = "RECEIVE" /\ \E c : SetSlotRemoval(n, h.src, c)
    BY <1>1, <1>4 DEF ReceiveDelete, Received, Addressed
  <2>2. PICK c : SetSlotRemoval(n, h.src, c)
    BY <2>1
  <2>3. PICK m, ms, r : /\ m = [to |-> "AI", type |-> "SET_REMOVAL", id |-> k,
                                mac |-> h.src, slot |-> c]
                        /\ r = [set |-> "REMOVAL", mac |-> h.src, slot |-> c]
                        /\ ms = <<m>>
    OBVIOUS
  <2>4. Answers(n, ms) /\ Remember(n, nextId[n], r)
    BY <1>1, <2>2, <2>3 DEF SetSlotRemoval
  <2>5. /\ RestKept(bus[n], procedures[n], procedures'[n])
        /\ procedures'[n][k] = r /\ OthersProcedures(n)
    BY <1>1, <1>2, <2>4, BegunKept
  <2>6. ~Confirms(h) /\ ~Confirms(m) /\ Promised(procedures'[n], m)
    BY <1>2, <2>1, <2>3, <2>5 DEF Confirms, Promised
  <2> QED
    BY <1>1, <1>2, <2>3, <2>4, <2>5, <2>6, MacGrid, QuietConfirmed
<1>5. CASE SendSelection(n) /\ Head(bus[n]).slot # NoSlot
  <2>1. h.type = "GETR_SELECTED" /\ SetSlotAllocation(n, h.mac, "RX", h.slot)
    BY <1>1, <1>5 DEF SendSelection, Addressed
  <2>2. PICK m, r : /\ m = [to |-> "AI", type |-> "SET_ALLOCATION", id |-> k,
                            mac |-> h.mac, mode |-> "RX", slot |-> h.slot]
                    /\ r = [set |-> "ALLOCATION", mode |-> "RX", mac |-> h.mac,
                            slot |-> h.slot]
    OBVIOUS
  <2>3. Answers(n, <<m>>) /\ Remember(n, nextId[n], r)
    BY <1>1, <2>1, <2>2 DEF SetSlotAllocation
  <2>4. /\ RestKept(bus[n], procedures[n], procedures'[n])
        /\ procedures'[n][k] = r /\ OthersProcedures(n)
    BY <1>1, <1>2, <2>3, BegunKept
  <2>5. Promised(procedures'[n], m) /\ SelectionOf(m) = SelectionOf(h)
    BY <1>1, <1>2, <1>5, <2>1, <2>2, <2>4 DEF Promised, SelectionOf, Confirms
  <2>6. Token(procedures[n], h)
    BY <1>2, <2>1 DEF Token, Carrier
  <2>7. /\ SelectedCells(grid'[n]) = SelectionOf(m)
        /\ pendingRx'[n] = Peers(SelectionOf(m)) /\ OthersGrids(n)
    BY <1>1, <1>2, <2>5, <2>6, TokenFinds, MacGrid
  <2> QED
    BY <1>1, <1>2, <2>3, <2>4, <2>5, <2>6, <2>7, TokenConfirmed
<1> QED
  BY <1>3, <1>4, <1>5

(* The handlers that end one. *)
LEMMA MacEndsConfirmed ==
  ASSUME ProtocolInv, ConfirmedInv, NEW n \in Node, UNCHANGED gridVars,
         FinishAllocation(n) \/ FinishRemoval(n) \/ FinishOther(n)
  PROVE  ConfirmedInv'
<1>1. PICK h, m, ms : h = Head(bus[n]) /\ m = 0 /\ ms = <<>>
  OBVIOUS
<1>2. /\ ProcedureInv /\ bus[n] # <<>> /\ h.to = "MAC" /\ h.type = "SETR"
      /\ Answers(n, ms) /\ Forget(n, h.id)
  BY <1>1 DEF ProtocolInv, FinishAllocation, FinishRemoval, FinishOther, Addressed
<1>3. ~Confirms(h) /\ Awaited(h)
  BY <1>2 DEF Confirms, Awaited
<1>4. RestKept(bus[n], procedures[n], procedures'[n]) /\ OthersProcedures(n)
  BY <1>1, <1>2, <1>3, EndedKept
<1>5. ms # <<m>> /\ ms \in {<<>>, <<m>>}
  BY <1>1
<1> QED
  BY <1>1, <1>2, <1>3, <1>4, <1>5, MacGrid, QuietConfirmed

LEMMA MacConfirms ==
  ASSUME ProtocolInv, ConfirmedInv, NEW n \in Node, MacHandles(n), UNCHANGED gridVars
  PROVE  ConfirmedInv'
<1>1. SendSelection(n) => \/ SendSelection(n) /\ Head(bus[n]).slot = NoSlot
                          \/ SendSelection(n) /\ Head(bus[n]).slot # NoSlot
  OBVIOUS
<1> QED
  BY <1>1, MacPlainConfirmed, MacBeginsConfirmed, MacEndsConfirmed DEF MacHandles

-----------------------------------------------------------------------------
(* What a tick brings *)

(* At the ticks nothing is selected. *)
LEMMA TickFinds ==
  ASSUME ProcedureInv, ConfirmedInv, NEW x \in Node, draining[x] = FALSE
  PROVE  /\ Selections(bus[x]) = {} /\ SelectedCells(grid[x]) = {} /\ pendingRx[x] = {}
         /\ \A i \in DOMAIN bus[x] : ~Confirms(bus[x][i])
<1>1. Idle(bus[x], procedures[x])
  BY Zenon DEF ProcedureInv
<1>2. Confirmed(bus[x], procedures[x], grid[x], pendingRx[x])
  BY DEF ConfirmedInv
<1>3. ASSUME NEW i \in DOMAIN bus[x], Confirms(bus[x][i]) PROVE FALSE
  <2>1. Token(procedures[x], bus[x][i])
    BY <1>2, <1>3, ConfirmsToken DEF Confirmed
  <2>2. bus[x][i].type = "RECEIVE"
    BY <1>1, <2>1 DEF Idle
  <2> QED
    BY <1>3, <2>2 DEF Confirms
<1>4. Selections(bus[x]) = {}
  BY <1>3 DEF Selections
<1> QED
  BY <1>2, <1>3, <1>4 DEF Confirmed, Peers

LEMMA TickConfirmed ==
  ASSUME ProtocolInv, ConfirmedInv, NEW x \in Node, draining[x] = FALSE,
         procedures'[x] = procedures[x],
         bus'[x] = bus[x] \/ \E m, ms : TickBrings(x, m, ms),
         SelectedCells(grid'[x]) = {}, pendingRx'[x] = {}
  PROVE  Confirmed(bus'[x], procedures'[x], grid'[x], pendingRx'[x])
<1>1. PICK b, p, c : b = bus[x] /\ p = procedures[x] /\ c = bus'[x]
  OBVIOUS
<1>2. /\ \A i \in DOMAIN b : ~Confirms(b[i]) /\ Promised(p, b[i])
      /\ IsSeq(b)
  BY <1>1, TickFinds, ProtocolStation DEF ConfirmedInv, Confirmed, ProtocolInv
<1>3. \A j \in DOMAIN c : ~Confirms(c[j]) /\ Promised(p, c[j])
  <2>1. CASE c = b
    BY <1>2, <2>1
  <2>2. ASSUME NEW m, NEW ms, TickBrings(x, m, ms)
        PROVE  \A j \in DOMAIN c : ~Confirms(c[j]) /\ Promised(p, c[j])
    <3>1. /\ ms \in {<<>>, <<m>>} /\ c = b \o ms
          /\ ~Awaited(m) /\ (Carrier(m) => m.type = "RECEIVE")
      BY <1>1, <2>2 DEF TickBrings
    <3>2. PlusShape(b, m, ms, c)
      BY <1>2, <3>1, Plus, Zenon
    <3>3. ~Confirms(m) /\ Promised(p, m)
      BY <3>1 DEF Awaited, Carrier, Confirms, Promised
    <3> QED
      BY <1>2, <3>2, <3>3 DEF PlusShape
  <2> QED
    BY <1>1, <2>1, <2>2
<1>4. Selections(c) = {}
  BY <1>3 DEF Selections
<1> QED
  BY <1>1, <1>3, <1>4 DEF Confirmed, Peers

(* The timeouts find nothing selected and select nothing. *)
LEMMA TimersSelected ==
  ASSUME ProtocolInv, ConfirmedInv, NEW n \in Node, InterloopSteps(n),
         \A x \in Node : draining[x] = FALSE, NEW x \in Node
  PROVE  SelectedCells(grid'[x]) = {} /\ pendingRx'[x] = {}
<1>1. SelectedCells(grid[x]) = {} /\ pendingRx[x] = {}
  BY TickFinds DEF ProtocolInv
<1>2. DOMAIN grid = Node /\ DOMAIN pendingRx = Node /\ grid[x] \in Grid
  BY ProtocolGrid
<1>3. PICK expiredTx \in SUBSET pendingTx[n], expiredRx \in SUBSET pendingRx[n],
            expiredRemovals \in SUBSET removals[n], stale \in SUBSET external[n] :
        LET h == AbortPendingRemovals(
                   AbortRXProposals(AbortTXProposals(grid[n], expiredTx), expiredRx),
                   expiredRemovals)
        IN  \E due \in Due(h, n) :
              /\ grid'      = [grid EXCEPT ![n] = MarkRemoval(h, due, nextId[n])]
              /\ pendingRx' = [pendingRx EXCEPT ![n] = @ \ expiredRx]
  BY DEF InterloopSteps
<1>7. PICK g : g = AbortPendingRemovals(
                     AbortRXProposals(AbortTXProposals(grid[n], expiredTx), expiredRx),
                     expiredRemovals)
  OBVIOUS
<1>8. PICK due : /\ grid'      = [grid EXCEPT ![n] = MarkRemoval(g, due, nextId[n])]
                 /\ pendingRx' = [pendingRx EXCEPT ![n] = @ \ expiredRx]
  BY <1>3, <1>7
<1>4. pendingRx'[x] = {}
  BY <1>1, <1>2, <1>8
<1>5. CASE x # n
  BY <1>1, <1>2, <1>8, <1>4, <1>5
<1>6. CASE x = n
  <2>1. PICK g1 : g1 = AbortTXProposals(grid[n], expiredTx)
    OBVIOUS
  <2>2. g1 \in Grid /\ \A c \in Cell : g1[c].state # "PROPOSED_RX"
    <3>1. \A c \in Cell : grid[n][c].state # "PROPOSED_RX"
      BY <1>1, <1>6, NoneSelected
    <3> QED
      BY <1>2, <1>6, <2>1, <3>1
         DEF AbortTXProposals, FreeSlots, FreeInfo, Grid, SlotInfo, SlotState
  <2>3. PICK g2 : g2 = AbortRXProposals(g1, expiredRx)
    OBVIOUS
  <2>4. g2 \in Grid /\ \A c \in Cell : g2[c].state # "PROPOSED_RX"
    BY <2>2, <2>3 DEF AbortRXProposals, FreeSlots, FreeInfo, Grid, SlotInfo, SlotState
  <2>5. g = AbortPendingRemovals(g2, expiredRemovals)
    BY <1>7, <2>1, <2>3
  <2>6. g \in Grid /\ \A c \in Cell : g[c].state # "PROPOSED_RX"
    BY <2>4, <2>5 DEF AbortPendingRemovals, Grid, SlotInfo
  <2>7. \A c \in Cell : MarkRemoval(g, due, nextId[n])[c].state # "PROPOSED_RX"
    BY <2>6, MarkSelected DEF SameSelected
  <2> QED
    BY <1>2, <1>8, <1>4, <1>6, <2>7 DEF SelectedCells
<1> QED
  BY <1>5, <1>6

LEMMA TickConfirms ==
  ASSUME ProtocolInv, ConfirmedInv, NEW n \in Node, Tick(n)
  PROVE  ConfirmedInv'
<1>1. (\A x \in Node : draining[x] = FALSE)
  BY Zenon DEF ProtocolInv, ProcedureInv, Tick
<1>2. UNCHANGED procedures
  BY DEF Tick, AppSend, QueueTimeout, RequestSlots, SendStatistics, Request, Advertise, SelectionTimers,
     Transmit, Retransmit, macVars
<1> SUFFICES ASSUME NEW x \in Node
             PROVE  /\ bus'[x] = bus[x] \/ \E m, ms : TickBrings(x, m, ms)
                    /\ SelectedCells(grid'[x]) = {} /\ pendingRx'[x] = {}
  BY <1>1, <1>2, TickConfirmed DEF ConfirmedInv
<1>3. SelectedCells(grid[x]) = {} /\ pendingRx[x] = {}
  BY <1>1, TickFinds DEF ProtocolInv
<1>4. CASE AppSend(n) \/ QueueTimeout(n) \/ SendStatistics(n)
  <2>1. PICK m \in MacRequest : /\ Request(n, m)
                                /\ m.to = "AI" /\ m.type \in {"GET_PROPOSED", "STATS"}
    BY <1>4, TickRequests
  <2>2. UNCHANGED <<grid, pendingRx>>
    BY <2>1 DEF Request, gridVars
  <2> QED
    BY <1>3, <2>1, <2>2, RequestBrings
<1>5. CASE SelectionTimers(n)
  <2>1. InterloopSteps(n)
    BY <1>5 DEF SelectionTimers
  <2> QED
    BY <1>1, <1>5, <2>1, TimersBring, TimersSelected
<1>6. CASE Transmit(n)
  <2>1. UNCHANGED <<grid, pendingRx>>
    BY <1>6 DEF Transmit, gridVars
  <2> QED
    BY <1>1, <1>3, <1>6, <2>1, TransmitHeard
<1>7. CASE Advertise(n) \/ Retransmit(n)
  BY <1>3, <1>7 DEF Advertise, Retransmit, selVars
<1> QED
  BY <1>4, <1>5, <1>6, <1>7 DEF Tick

LEMMA ConfirmedInvInductive ==
  ProtocolInv /\ ConfirmedInv /\ [ProtocolNext]_vars => ConfirmedInv'
<1>1. ASSUME ProtocolInv, ConfirmedInv, UNCHANGED vars PROVE ConfirmedInv'
  BY <1>1 DEF vars, selVars, macVars, ConfirmedInv
<1>2. ASSUME ProtocolInv, ConfirmedInv, NEW n \in Node, Drain(n) PROVE ConfirmedInv'
  <2>1. CASE MacHandles(n) /\ UNCHANGED gridVars
    BY <1>2, <2>1, MacConfirms
  <2>2. CASE SelectionHandles(n) /\ UNCHANGED <<macVars, radioVars>>
    <3>1. UNCHANGED procedures
      BY <2>2 DEF macVars
    <3> QED
      BY <1>2, <2>2, <3>1, SelectionConfirms
  <2> QED
    BY <1>2, <2>1, <2>2 DEF Drain
<1> QED
  BY <1>1, <1>2, TickConfirms DEF ProtocolNext

LEMMA InitConfirmed == ProtocolInit => ConfirmedInv
<1> SUFFICES ASSUME ProtocolInit, NEW n \in Node
             PROVE  Confirmed(bus[n], procedures[n], grid[n], pendingRx[n])
  BY DEF ConfirmedInv
<1>1. bus[n] = <<SetBcSlots>> /\ grid[n] = EmptyGrid /\ pendingRx[n] = {}
  BY StationAssumption DEF ProtocolInit, Init
<1>2. PICK b : b = bus[n]
  OBVIOUS
<1>3. DOMAIN b = {1} /\ b[1] = SetBcSlots
  BY <1>1, <1>2
<1>4. ~Confirms(SetBcSlots) /\ Promised(procedures[n], SetBcSlots)
  BY DEF Confirms, Promised, SetBcSlots
<1>5. Selections(b) = {}
  BY <1>3, <1>4 DEF Selections
<1>6. SelectedCells(EmptyGrid) = {}
  BY DEF SelectedCells, EmptyGrid, FreeInfo
<1> QED
  BY <1>1, <1>2, <1>3, <1>4, <1>5, <1>6 DEF Confirmed, Peers

(* What is selected in a grid is what a message on the bus is about to        *)
(* confirm, and what a message promises its procedure is kept.                *)
THEOREM ConfirmedInvariant == ProtocolSpec => []ConfirmedInv
BY InitConfirmed, ConfirmedInvInductive, ProtocolInvariant, PTL DEF ProtocolSpec

(* The selection that a station announced to its peer is always confirmed, in *)
(* the instant that made it: the allocation is not refused, and no cell is    *)
(* left as PROPOSED_RX between the instants.                                  *)
THEOREM SelectionConfirmedHolds == ProtocolSpec => []SelectionConfirmed
<1>1. ConfirmedInv => SelectionConfirmed
  <2> SUFFICES ASSUME ConfirmedInv PROVE NeverRefused /\ SelectionOver
    BY DEF SelectionConfirmed
  <2>1. NeverRefused
    BY DEF NeverRefused, ConfirmedInv, Confirmed, Promised
  <2>2. SelectionOver
    <3> SUFFICES ASSUME NEW n \in Node, bus[n] = <<>>
                 PROVE  /\ pendingRx[n] = {}
                        /\ \A c \in Cell : grid[n][c].state # "PROPOSED_RX"
      BY DEF SelectionOver, Quiet
    <3>1. DOMAIN bus[n] = {}
      OBVIOUS
    <3>2. Selections(bus[n]) = {}
      BY <3>1 DEF Selections
    <3> QED
      BY <3>2, NoneSelected DEF ConfirmedInv, Confirmed, Peers
  <2> QED
    BY <2>1, <2>2
<1> QED
  BY <1>1, ConfirmedInvariant, PTL
=============================================================================
