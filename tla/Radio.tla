-------------------------------- MODULE Radio --------------------------------
(* How one station hears: its superframe table, the timers with which its    *)
(* controller tunes the receiver (rx_MAC_start, rx_MAC_first_event,          *)
(* rx_MAC_second_event, planned by table_get_next_rx_message_no2), and the   *)
(* channel on which frames of all stations meet.  Time is the real           *)
(* millisecond within the superframe; tx_MAC and the table look Lead ahead.  *)
EXTENDS WirelessChannel

CONSTANTS
  NumSlots, NumChannels,
  SlotMs,      \* TDMA_SLOT_DURATION
  AckMs,       \* TDMA_ACK_QUEUE_SIZE, the end of a timeslot
  Broadcast,   \* the broadcast cells of table_create_static, <<channel, timeslot>>
  MaxQueue,    \* bound: frames in the queue of the channel
  MaxChanges   \* bound: changes of the table

Channels == 0 .. NumChannels - 1
Slots    == 0 .. NumSlots - 1
Cell     == Channels \X Slots
FrameMs  == NumSlots * SlotMs

Guard       == 1    \* GUARD_MS_COUNT
Lead        == 2    \* 1 + TX_TIMER_OFFSET_MS
NoChannel   == NumChannels    \* 0xFF

(* Mutant: the value before the port to ns-3. *)
RxOffsetBefore == 1
RxOffset       == 2    \* RX_TIMER_OFFSET_MS

(* A timeslot has room for data between its guard and the gap before its     *)
(* acknowledgements; the first timeslot of the superframe has a broadcast,   *)
(* and the broadcasts are a quarter or a third of the superframe apart.      *)
ASSUME RadioAssumption ==
  /\ NumSlots \in Nat \ {0} /\ NumChannels \in Nat \ {0}
  /\ SlotMs \in Nat /\ AckMs \in Nat \ {0} /\ AckMs + Guard + Lead <= SlotMs
  /\ Broadcast \subseteq Cell /\ \E c \in Channels : <<c, 0>> \in Broadcast
  /\ \A a, b \in Broadcast : a[2] = b[2] => a = b
  /\ MaxQueue \in Nat /\ MaxChanges \in Nat

VARIABLES
  now,      \* ms in the superframe
  table,    \* get_slot_type of each cell
  radio,    \* MFTDMAMac::rx_channel
  timer,    \* the one pending event of the controller, with its rx_container
  queue,    \* m_queue of the channel
  added,    \* history: cells added to the table since the last rx_MAC_start
  lone,     \* history: channels with one frame in this ms, and for the station
  heard,    \* history: channels on which the station received in this ms
  changes

vars == <<now, table, radio, timer, queue, added, lone, heard, changes>>
-----------------------------------------------------------------------------
SlotOf(t) == ((t % FrameMs) * NumSlots) \div FrameMs
MsOf(t)   == (t % FrameMs) % SlotMs

(* A pending event: what runs, in how many ms, on which channels it and the  *)
(* event after it tune, and the ms between it, that event and the next start.*)
Event(name, in, first, second, change, wkup) ==
  [name |-> name, in |-> in, first |-> first, second |-> second,
   change |-> change, wkup |-> wkup]
Start(in) == Event("start", in, NoChannel, NoChannel, 0, 0)

Init ==
  /\ now = 1
  /\ table = [c \in Cell |-> IF c \in Broadcast THEN "BROADCAST" ELSE "NONE"]
  /\ radio = NoChannel /\ timer = Start(0)
  /\ queue = <<>>
  /\ added = {} /\ lone = {} /\ heard = {} /\ changes = 0
-----------------------------------------------------------------------------
(* table_get_next_rx_message_no2: the channels timeslot s asks for and the   *)
(* radio is not on, and how many timeslots on one asks for any.              *)
Wanted(type, s) == {c \in Channels : table[<<c, s>>] = type /\ c # radio}
Asks(s)         == Wanted("BROADCAST", s) \cup Wanted("RECEIVE", s) \cup Wanted("SEND", s)
Sending(s)      == {c \in Channels : table[<<c, s>>] = "SEND"}
Ahead(s)        == {d \in 1 .. NumSlots : Asks((s + d) % NumSlots) # {}}

(* Mutant: a station that listens to data stays on that channel. *)
SecondChannelNone(s) == {}

(* The channel on which the station waits for acknowledgements after data. *)
SecondChannel(s) == Sending(s)

Plan(s, end, gap) ==
  \/ \E c \in Wanted("BROADCAST", s) :
       timer' = Event("first", 0, c, NoChannel, 0, end)
  \/ /\ Wanted("BROADCAST", s) = {}
     /\ \E c \in Wanted("RECEIVE", s) :
          \/ SecondChannel(s) = {} /\ timer' = Event("first", 0, c, NoChannel, 0, end)
          \/ \E d \in SecondChannel(s) : timer' = Event("first", 0, c, d, gap, end - gap)
  \/ /\ Wanted("BROADCAST", s) = {} /\ Wanted("RECEIVE", s) = {}
     /\ \E c \in Wanted("SEND", s) :
          timer' = Event("first", gap, c, NoChannel, 0, end - gap)
  \/ /\ Asks(s) = {}
     /\ \/ Ahead(s) = {} /\ timer' = Start(SlotMs)    \* 50 ms
        \/ \E d \in Ahead(s) :
             (\A e \in Ahead(s) : d <= e) /\ timer' = Start(SlotMs * d)

(* The current timeslot is the one the radio is Lead ahead of: at once when  *)
(* it is to hear data, in its gap when it is to hear acknowledgements only.  *)
RxStart ==
  /\ timer.name = "start" /\ timer.in = 0
  /\ LET end == SlotMs - MsOf(now + Lead) + RxOffset
     IN  Plan(SlotOf(now + Lead), end, end - AckMs)
  /\ added' = {}
  /\ UNCHANGED <<now, table, radio, queue, lone, heard, changes>>

RxFirst ==
  /\ timer.name = "first" /\ timer.in = 0
  /\ radio' = timer.first
  /\ timer' = IF timer.second = NoChannel THEN Start(timer.wkup)
              ELSE Event("second", timer.change, timer.second, NoChannel, 0, timer.wkup)
  /\ UNCHANGED <<now, table, queue, added, lone, heard, changes>>

RxSecond ==
  /\ timer.name = "second" /\ timer.in = 0
  /\ radio' = timer.first
  /\ timer' = Start(timer.wkup)
  /\ UNCHANGED <<now, table, queue, added, lone, heard, changes>>

(* add_slot and remove_slot; the slot selection keeps a timeslot to one cell *)
(* to send in and one to receive in.                                         *)
TableAdd(c, s, type) ==
  /\ changes < MaxChanges
  /\ table[<<c, s>>] = "NONE"
  /\ \A d \in Channels : table[<<d, s>>] \notin {type, "BROADCAST"}
  /\ table' = [table EXCEPT ![<<c, s>>] = type]
  /\ added' = added \cup {<<c, s>>}
  /\ changes' = changes + 1
  /\ UNCHANGED <<now, radio, timer, queue, lone, heard>>

TableRemove(cell) ==
  /\ changes < MaxChanges
  /\ table[cell] \in {"RECEIVE", "SEND"}
  /\ table' = [table EXCEPT ![cell] = "NONE"]
  /\ changes' = changes + 1
  /\ UNCHANGED <<now, radio, timer, queue, added, lone, heard>>

(* tx_MAC of any station hands a frame over, never for a guard ms; mine when *)
(* the station is to hear it (its own frames it does not).                   *)
Transmit(channel, mine) ==
  /\ MsOf(now + Lead) >= Guard
  /\ Len(queue) < MaxQueue
  /\ queue' = AddPacket(queue, [wait |-> Lead, channel |-> channel, mine |-> mine])
  /\ UNCHANGED <<now, table, radio, timer, added, lone, heard, changes>>

(* Send of the channel, for the first frame of its queue. *)
Send ==
  /\ SendDue(queue)
  /\ heard' = IF ~Collision(queue) /\ queue[1].mine /\ queue[1].channel = radio
              THEN heard \cup {radio} ELSE heard
  /\ \E m \in InOrder(Kept(queue)) : queue' = Picked(queue, m)
  /\ UNCHANGED <<now, table, radio, timer, added, lone, changes>>

(* Time passes when nothing of this ms is left to run.  The events of one ms *)
(* run in the order they were scheduled in; the model takes any order.       *)
OnAirNext(c) == {i \in DOMAIN queue : queue[i].wait = 1 /\ queue[i].channel = c}
Tick ==
  /\ timer.in > 0 /\ ~SendDue(queue)
  /\ now' = (now + 1) % FrameMs
  /\ timer' = [timer EXCEPT !.in = @ - 1]
  /\ queue' = Closer(queue)
  /\ heard' = {}
  /\ lone' = {c \in Channels : \E i \in OnAirNext(c) : OnAirNext(c) = {i} /\ queue[i].mine}
  /\ UNCHANGED <<table, radio, added, changes>>

Next ==
  \/ RxStart \/ RxFirst \/ RxSecond
  \/ \E c \in Channels, s \in Slots, type \in {"RECEIVE", "SEND"} : TableAdd(c, s, type)
  \/ \E cell \in Cell : TableRemove(cell)
  \/ \E c \in Channels, mine \in BOOLEAN : Transmit(c, mine)
  \/ Send \/ Tick

Spec == Init /\ [][Next]_vars
-----------------------------------------------------------------------------
(* Every variable has its type; of the timer that means more: no change and  *)
(* no wake-up lies in the past (the code calls it an error and the subtraction*)
(* wraps), and the station looks at its table once a superframe at least,    *)
(* always at the first ms of a timeslot.  The channel's queue is in the      *)
(* order of the timestamps, as the one event of the channel needs it.        *)
RadioTypeOK ==
  /\ now \in 0 .. FrameMs - 1
  /\ table \in [Cell -> {"NONE", "BROADCAST", "RECEIVE", "SEND"}]
  /\ radio \in Channels \cup {NoChannel}
  /\ timer.name \in {"start", "first", "second"}
  /\ timer.in \in 0 .. FrameMs /\ timer.change \in 0 .. SlotMs /\ timer.wkup \in 0 .. SlotMs
  /\ timer.first \in Channels \cup {NoChannel} /\ timer.second \in Channels \cup {NoChannel}
  /\ added \subseteq Cell /\ lone \subseteq Channels /\ heard \subseteq Channels
  /\ changes \in 0 .. MaxChanges
  /\ \A i \in DOMAIN queue : queue[i].wait \in 0 .. Lead /\ queue[i].channel \in Channels
  /\ Ordered(queue)
  /\ radio # NoChannel /\ timer.name = "start" => MsOf(now + timer.in) = 0

(* Frames of one ms on one channel destroy each other, however many they are *)
(* and in whatever order they were handed over: what the station hears came  *)
(* from a frame alone on its channel (CheckCollisionDropPackets).            *)
OnlyLoneFramesHeard == heard \subseteq lone

(* The part of the timeslot in which the station is to hear on a cell. *)
DueOn(type) ==
  \/ type = "BROADCAST" /\ MsOf(now) >= Guard
  \/ type = "RECEIVE" /\ MsOf(now) \in Guard .. SlotMs - AckMs - 1
  \/ type = "SEND" /\ MsOf(now) > SlotMs - AckMs

(* A cell that was in the table when the station last looked is listened to  *)
(* in its time: when the ms ends, a lone frame for the station in it has     *)
(* been heard.  The radio is changed by up to two events in a timeslot, in   *)
(* the same ms as frames arrive, from a table that changes meanwhile, and    *)
(* sleeps over timeslots that need no change (rx_MAC_start).                 *)
KnownCellsHeard ==
  timer.in > 0 /\ ~SendDue(queue) =>
    \A c \in lone : LET cell == <<c, SlotOf(now)>> IN
      DueOn(table[cell]) /\ cell \notin added => c \in heard
=============================================================================
