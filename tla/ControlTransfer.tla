--------------------------- MODULE ControlTransfer ---------------------------
(***************************************************************************)
(* How a control packet that asks for an acknowledgement gets across: the  *)
(* queue of the broadcast slots, the map of packets that wait for their    *)
(* acknowledgement (Acknowledgment::ack_needed_map) and the two short      *)
(* lists by which a MAC remembers the acknowledgements it owes and those   *)
(* it got (control_acks, received_control_acks).                           *)
(*                                                                         *)
(* A transmission is one step with its reception: it lasts milliseconds,   *)
(* an acknowledgement times out after a second or more.  Anything may be   *)
(* lost, and an acknowledgement may time out whatever its delay, for it    *)
(* waits for a broadcast slot of its sender.  Packets that ask for no      *)
(* acknowledgement only take their turn in the queue and are left out.     *)
(***************************************************************************)
EXTENDS Naturals, Sequences, SequencesExt

CONSTANTS Node,      \* the stations
          Tries,     \* RETRY_COUNTER_MAX
          ListSize,  \* RECEIVED_CONTROL_ACKS_SIZE
          MaxIndex,  \* bound: mac_index values that a station uses, from 1
          MaxCopies  \* bound: transmissions of one packet

ASSUME TransferAssumption == /\ Tries \in Nat \ {0}
                             /\ ListSize \in Nat
                             /\ MaxIndex \in Nat
                             /\ MaxCopies \in Nat

VARIABLES queue,      \* queue[n]: the queue of the broadcast slots of n
          needed,     \* needed[n]: ack_needed_map, by mac_index
          received,   \* received[n]: received_control_acks
          answered,   \* answered[n]: control_acks
          nextIndex,  \* nextIndex[n]: mac_index, the number of the next packet
          \* history, read by no action
          copies,     \* copies[n][i]: times that n transmitted its packet i
          acks,       \* acks[n][i]: acknowledgements of i that n accepted
          got         \* got[n]: packets that n received, as <<source, index>>

history == <<copies, acks, got>>
vars    == <<queue, needed, received, answered, nextIndex, history>>

Index == 1 .. MaxIndex
Item  == [kind : {"PACKET", "ACK"}, peer : Node, index : Index]

(* left is retry_counter.  waiting is the timestamp set far in the future when *)
(* a copy is queued again: no timeout until that copy is transmitted.          *)
Need == [peer : Node, left : 1 .. Tries, waiting : BOOLEAN]

Pair(m, i) == <<m, i>>

(* push_back, then erase from the front down to the size of the list. *)
Pushed(list, x) ==
  LET longer == Append(list, x)
      excess == IF Len(longer) > ListSize THEN Len(longer) - ListSize ELSE 0
  IN  SubSeq(longer, excess + 1, Len(longer))

Entered(n, i, entry) ==
  [needed EXCEPT ![n] = [j \in DOMAIN @ \cup {i} |-> IF j = i THEN entry ELSE @[j]]]
Erased(n, i) == [needed EXCEPT ![n] = [j \in DOMAIN @ \ {i} |-> @[j]]]

-----------------------------------------------------------------------------
Init ==
  /\ queue     = [n \in Node |-> <<>>]
  /\ needed    = [n \in Node |-> [i \in {} |-> {}]]
  /\ received  = [n \in Node |-> <<>>]
  /\ answered  = [n \in Node |-> <<>>]
  /\ nextIndex = [n \in Node |-> 1]
  /\ copies    = [n \in Node |-> [i \in Index |-> 0]]
  /\ acks      = [n \in Node |-> [i \in Index |-> 0]]
  /\ got       = [n \in Node |-> {}]

(* TDMA_MAC_send of a control packet: it goes to the end of the queue. *)
Send(n) ==
  /\ nextIndex[n] <= MaxIndex
  /\ \E m \in Node \ {n} :
       queue' = [queue EXCEPT ![n] =
                   Append(@, [kind |-> "PACKET", peer |-> m, index |-> nextIndex[n]])]
  /\ nextIndex' = [nextIndex EXCEPT ![n] = @ + 1]
  /\ UNCHANGED <<needed, received, answered, history>>

-----------------------------------------------------------------------------
(* Mutants: one try too many, one too few, all tries again at every one. *)
NeedAfterExtraTry(n, e) ==
  IF e.index \in DOMAIN needed[n]
  THEN [needed[n][e.index] EXCEPT !.waiting = FALSE]
  ELSE [peer |-> e.peer, left |-> Tries + 1, waiting |-> FALSE]
NeedAfterLostTry(n, e) ==
  IF e.index \in DOMAIN needed[n]
  THEN [needed[n][e.index] EXCEPT !.waiting = FALSE]
  ELSE [peer |-> e.peer, left |-> Tries - 1, waiting |-> FALSE]
NeedAfterRestart(n, e) == [peer |-> e.peer, left |-> Tries, waiting |-> FALSE]

(* tx_MAC with a packet at the head of the queue.  The first transmission     *)
(* enters it in the map; a later one restarts its timeout.                    *)
NeedAfter(n, e) ==
  IF e.index \in DOMAIN needed[n]
  THEN [needed[n][e.index] EXCEPT !.waiting = FALSE]
  ELSE [peer |-> e.peer, left |-> Tries, waiting |-> FALSE]

Acknowledged(n, e) == Pair(e.peer, e.index) \in Range(received[n])

(* Mutant: the acknowledgement carries a number of its sender's own. *)
AnswerRenumbered(m, n, i, q) ==
  IF Pair(n, i) \in Range(answered[m])
  THEN queue' = q /\ UNCHANGED answered
  ELSE /\ answered' = [answered EXCEPT ![m] = Pushed(@, Pair(n, i))]
       /\ queue' = [q EXCEPT ![m] =
            <<[kind |-> "ACK", peer |-> n, index |-> nextIndex[m]]>> \o @]

(* TDMA_prepare_and_send_control_ack at the station that receives i from n:  *)
(* the acknowledgement goes to the front of the queue, unless one is listed. *)
Answer(m, n, i, q) ==
  IF Pair(n, i) \in Range(answered[m])
  THEN queue' = q /\ UNCHANGED answered
  ELSE /\ answered' = [answered EXCEPT ![m] = Pushed(@, Pair(n, i))]
       /\ queue' = [q EXCEPT ![m] = <<[kind |-> "ACK", peer |-> n, index |-> i]>> \o @]

TransmitPacket(n) ==
  /\ queue[n] # <<>> /\ Head(queue[n]).kind = "PACKET"
  /\ LET e == Head(queue[n])
         q == [queue EXCEPT ![n] = Tail(@)]
     IN  /\ ~Acknowledged(n, e)
         /\ copies[n][e.index] < MaxCopies
         /\ needed' = Entered(n, e.index, NeedAfter(n, e))
         /\ copies' = [copies EXCEPT ![n][e.index] = @ + 1]
         /\ \/ queue' = q /\ UNCHANGED <<answered, got>>
            \/ /\ Answer(e.peer, n, e.index, q)
               /\ got' = [got EXCEPT ![e.peer] = @ \cup {Pair(n, e.index)}]
  /\ UNCHANGED <<received, nextIndex, acks>>

(* A packet whose acknowledgement came while its copy was queued is not sent. *)
(* The loop then looks for the next packet, but it examines the same packet   *)
(* again, because the one it takes from the queue is put behind it in the     *)
(* container: it goes on until the queue is empty.                            *)
SkipAcknowledged(n) ==
  /\ queue[n] # <<>> /\ Head(queue[n]).kind = "PACKET"
  /\ Acknowledged(n, Head(queue[n]))
  /\ queue' = [queue EXCEPT ![n] = <<>>]
  /\ UNCHANGED <<needed, received, answered, nextIndex, history>>

(* TDMA_handle_received_control_ack: the first one for a packet counts. *)
Accept(n, i) ==
  IF i \in DOMAIN needed[n]
  THEN /\ received' = [received EXCEPT ![n] = Pushed(@, Pair(needed[n][i].peer, i))]
       /\ needed' = Erased(n, i)
       /\ acks' = [acks EXCEPT ![n][i] = @ + 1]
  ELSE UNCHANGED <<received, needed, acks>>

(* remove_control_ack_in_list: the first one of the list that is x goes. *)
Struck(m, x) ==
  LET places == {k \in DOMAIN answered[m] : answered[m][k] = x}
  IN  \/ places = {} /\ UNCHANGED answered
      \/ \E k \in places :
           /\ \A j \in places : k <= j
           /\ answered' = [answered EXCEPT ![m] = RemoveAt(@, k)]

(* tx_MAC with an acknowledgement: it is not owed any more, received or not. *)
TransmitAck(n) ==
  /\ queue[n] # <<>> /\ Head(queue[n]).kind = "ACK"
  /\ LET e == Head(queue[n])
     IN  /\ queue' = [queue EXCEPT ![n] = Tail(@)]
         /\ Struck(n, Pair(e.peer, e.index))
         /\ \/ UNCHANGED <<received, needed, acks>>
            \/ Accept(e.peer, e.index)
  /\ UNCHANGED <<nextIndex, copies, got>>

(* Mutant: the entry does not wait for the copy that was queued. *)
RequeuedAtOnce(entry) == [entry EXCEPT !.left = @ - 1]

Requeued(entry) == [entry EXCEPT !.left = @ - 1, !.waiting = TRUE]

(* check_ack_timeout on one entry: the counter is lowered and the packet goes *)
(* to the end of the queue again, or it is dropped when no try is left.       *)
TimeOut(n) ==
  /\ \E i \in DOMAIN needed[n] :
       LET entry == needed[n][i]
       IN  /\ ~entry.waiting
           /\ \/ /\ entry.left > 1
                 /\ needed' = Entered(n, i, Requeued(entry))
                 /\ queue' = [queue EXCEPT ![n] =
                      Append(@, [kind |-> "PACKET", peer |-> entry.peer, index |-> i])]
              \/ /\ entry.left = 1
                 /\ needed' = Erased(n, i)
                 /\ UNCHANGED queue
  /\ UNCHANGED <<received, answered, nextIndex, history>>

-----------------------------------------------------------------------------
Next == \E n \in Node : \/ Send(n) \/ TransmitPacket(n) \/ SkipAcknowledged(n)
                        \/ TransmitAck(n) \/ TimeOut(n)

Spec == Init /\ [][Next]_vars
-----------------------------------------------------------------------------
(* Properties *)

TransferTypeOK ==
  /\ queue     \in [Node -> Seq(Item)]
  /\ \A n \in Node : /\ DOMAIN needed[n] \subseteq Index
                     /\ \A i \in DOMAIN needed[n] : needed[n][i] \in Need
  /\ received  \in [Node -> Seq(Node \X Index)]
  /\ answered  \in [Node -> Seq(Node \X Index)]
  /\ nextIndex \in [Node -> 1 .. MaxIndex + 1]

(* The retry counter bounds the transmissions: RETRY_COUNTER_MAX of them for *)
(* a packet never acknowledged.  Only an acknowledgement that has fallen out *)
(* of the list of ten while a copy was queued lets a packet start again, and *)
(* each one allows it RETRY_COUNTER_MAX more.                                *)
BoundedTransmissions ==
  \A n \in Node, i \in Index :
    /\ copies[n][i] <= Tries * (acks[n][i] + 1)
    /\ (acks[n][i] = 1 /\ \E m \in Node : Pair(m, i) \in Range(received[n]))
         => copies[n][i] <= Tries

(* A packet is given up only after RETRY_COUNTER_MAX transmissions: one that *)
(* was transmitted, is not acknowledged and is not in the map any more has   *)
(* had them all, whatever was queued, skipped or lost meanwhile.             *)
GivenUpAfterAllTries ==
  \A n \in Node, i \in Index :
    copies[n][i] > 0 /\ acks[n][i] = 0 /\ i \notin DOMAIN needed[n]
    => copies[n][i] = Tries

(* An acknowledgement that a station accepts is of a packet its destination  *)
(* did receive, and the one it remembers belongs to that destination: the    *)
(* map is searched by mac_index alone.                                       *)
AcknowledgedWasReceived ==
  \A n \in Node : \A m \in Node, i \in Index :
    Pair(m, i) \in Range(received[n]) => Pair(n, i) \in got[m]

(* At most one copy of a packet waits in the queue, and while the packet     *)
(* waits for its timeout none does: a copy is queued by a timeout alone and  *)
(* the next timeout cannot come before that copy is transmitted.             *)
OneCopyQueued ==
  \A n \in Node : \A j, k \in DOMAIN queue[n] :
    queue[n][j].kind = "PACKET" =>
      /\ queue[n][j].index \in DOMAIN needed[n] => needed[n][queue[n][j].index].waiting
      /\ j # k /\ queue[n][k].kind = "PACKET" => queue[n][j].index # queue[n][k].index

(* What check_ack_timeout says: a packet that timed out is retransmitted, or *)
(* dropped when its counter is 0.  So one whose copy is waited for is queued.*)
(* The code breaks it: the copy may be thrown away with the rest of the      *)
(* queue behind a packet that is acknowledged already, and the packet then   *)
(* stays in the map for ever, neither retransmitted nor dropped.             *)
RetransmissionQueued ==
  \A n \in Node : \A i \in DOMAIN needed[n] :
    needed[n][i].waiting
    => \E j \in DOMAIN queue[n] : queue[n][j].kind = "PACKET" /\ queue[n][j].index = i
=============================================================================
