---------------------------- MODULE SlotMonitor ----------------------------
(* What one station knows of the quality of one allocated cell, and the two  *)
(* reasons for which it removes the cell by itself: RandomSlotSelection      *)
(* counts the acknowledgements of the packets sent in the cell, frame by     *)
(* frame, and removes a cell that fails in several frames in a row;          *)
(* SlotSelectionAIModule removes a cell that was not used for a while.  The  *)
(* frame is the unit of time.  SlotSelection leaves both to chance           *)
(* ("any refreshed slot may be found failing"); this module is what it       *)
(* leaves out.                                                               *)
EXTENDS Naturals

CONSTANTS
  Enough,       \* ACK_RECEIVED_THRESHOLD
  Limit,        \* CONSEC_FAIL_THRESHOLD
  Wrap,         \* 2^8: m_consec_failing_frames counts in uint8_t
  IdleTimeout,  \* IDLE_TIMEOUT_MS, in frames
  MaxSamples,   \* bound: acknowledgements of one frame
  Record        \* bound: the history below counts up to here

(* A frame is judged on at least one acknowledgement, the limit fits the     *)
(* counter, and the history is long enough to tell the evidence from less.   *)
ASSUME MonitorAssumption ==
  /\ Enough \in Nat /\ IdleTimeout \in Nat \ {0}
  /\ Limit \in Nat \ {0} /\ Wrap \in Nat /\ Limit < Wrap
  /\ MaxSamples \in Nat /\ Enough < MaxSamples
  /\ Record \in Nat /\ Limit * (Enough + 1) <= Record

VARIABLES
  state,      \* "FREE", "TX" or "RX"
  pending,    \* why its removal is pending: "no", "idle" or "failing"
  idle,       \* frames since last_used
  success,    \* m_successcount and m_failcount of the cell ...
  fail,
  past,       \* ... and whether they are of an earlier frame (m_curframes)
  consec,     \* m_consec_failing_frames
  alive,      \* environment: the other end still listens or sends
  seen, lost  \* history: statistics and failures since the counters' reset

vars == <<state, pending, idle, success, fail, past, consec, alive, seen, lost>>
----------------------------------------------------------------------------
UpTo(bound, n) == IF n > bound THEN bound ELSE n

IsSlotAllocated == state # "FREE"
RxTimeout       == (3 * IdleTimeout) \div 2
TimeoutFrames   == IF state = "RX" THEN RxTimeout ELSE IdleTimeout

(* The success ratio of the counted frame is below REMOVAL_THRESHOLD (0.8).  *)
BelowThreshold == 5 * success < 4 * (success + fail)

(* Mutant: a frame of few statistics is judged as well. *)
JudgedOnFew == success + fail > 0

Judged == success + fail > Enough

ConsecAfter ==
  IF ~Judged THEN consec ELSE IF BelowThreshold THEN (consec + 1) % Wrap ELSE 0

(* Counters restart (notify_slot_allocated, notify_slot_removed). *)
ResetCounters ==
  /\ success' = 0 /\ fail' = 0 /\ past' = FALSE /\ consec' = 0
  /\ seen' = 0 /\ lost' = 0

Init ==
  /\ state = "FREE" /\ pending = "no" /\ idle = 0
  /\ success = 0 /\ fail = 0 /\ past = FALSE /\ consec = 0
  /\ alive = FALSE /\ seen = 0 /\ lost = 0
----------------------------------------------------------------------------
(* The MAC has the cell allocated for a peer that just answered. *)
Allocate(mode) ==
  /\ ~IsSlotAllocated
  /\ state' = mode /\ pending' = "no" /\ idle' = 0 /\ alive' = TRUE
  /\ ResetCounters

(* A repeated allocation restarts the counters, not last_used. *)
AllocateAgain ==
  /\ IsSlotAllocated /\ alive
  /\ ResetCounters
  /\ UNCHANGED <<state, pending, idle, alive>>

(* Mutant: the subclass is not told that the slot is free. *)
FreeUntold ==
  /\ state' = "FREE" /\ pending' = "no" /\ idle' = 0 /\ alive' = FALSE
  /\ UNCHANGED <<success, fail, past, consec, seen, lost>>

(* freeSlot and notify_slot_removed. *)
Free ==
  /\ state' = "FREE" /\ pending' = "no" /\ idle' = 0 /\ alive' = FALSE
  /\ ResetCounters

(* The MAC answers a removal, or the other end removes the cell. *)
RemovalDone == pending # "no" /\ Free
PeerRemoves == IsSlotAllocated /\ alive /\ Free

(* check_removal_timeouts, abortPendingRemoval. *)
RemovalExpires ==
  /\ pending # "no"
  /\ pending' = "no"
  /\ UNCHANGED <<state, idle, success, fail, past, consec, alive, seen, lost>>

(* process_stats refreshes the cell whatever the statistic says, then        *)
(* process_ack_statistic: the first statistic of a later frame judges the    *)
(* frame that was counted.  A statistic may belong to a packet of an earlier *)
(* allocation of the cell: it names the cell only.                           *)
Statistic(ok) ==
  /\ IsSlotAllocated
  /\ ok => alive
  /\ past \/ success + fail < MaxSamples
  /\ idle' = 0
  /\ IF past
     THEN /\ consec' = ConsecAfter
          /\ pending' = IF Judged /\ BelowThreshold /\ ConsecAfter >= Limit /\ pending = "no"
                        THEN "failing" ELSE pending
          /\ success' = IF ok THEN 1 ELSE 0
          /\ fail' = IF ok THEN 0 ELSE 1
     ELSE /\ success' = IF ok THEN success + 1 ELSE success
          /\ fail' = IF ok THEN fail ELSE fail + 1
          /\ UNCHANGED <<consec, pending>>
  /\ past' = FALSE
  /\ seen' = UpTo(Record, seen + 1)
  /\ lost' = UpTo(Record, IF ok THEN lost ELSE lost + 1)
  /\ UNCHANGED <<state, alive>>

(* A packet received in an RX cell refreshes it. *)
Reception ==
  /\ state = "RX" /\ alive
  /\ idle' = 0
  /\ UNCHANGED <<state, pending, success, fail, past, consec, alive, seen, lost>>

(* Mutant: only the cells this station sends in are checked. *)
CheckIdleSending ==
  /\ state = "TX" /\ pending = "no" /\ idle >= TimeoutFrames
  /\ pending' = "idle"
  /\ UNCHANGED <<state, idle, success, fail, past, consec, alive, seen, lost>>

(* check_idle_timeouts *)
CheckIdle ==
  /\ IsSlotAllocated /\ pending = "no" /\ idle >= TimeoutFrames
  /\ pending' = "idle"
  /\ UNCHANGED <<state, idle, success, fail, past, consec, alive, seen, lost>>

(* The clock enters the next frame. *)
NewFrame ==
  /\ IsSlotAllocated
  /\ past' = TRUE
  /\ idle' = UpTo(RxTimeout, idle + 1)
  /\ UNCHANGED <<state, pending, success, fail, consec, alive, seen, lost>>

(* The other end leaves, without a word. *)
PeerGone ==
  /\ alive
  /\ alive' = FALSE
  /\ UNCHANGED <<state, pending, idle, success, fail, past, consec, seen, lost>>

Next ==
  \/ \E mode \in {"TX", "RX"} : Allocate(mode)
  \/ AllocateAgain \/ RemovalDone \/ PeerRemoves \/ RemovalExpires
  \/ \E ok \in BOOLEAN : Statistic(ok)
  \/ Reception \/ CheckIdle \/ NewFrame \/ PeerGone

Spec == Init /\ [][Next]_vars

(* The clock and the periodic checks of interloop_steps never stop.  The MAC *)
(* answers every removal, and within the instant of its request              *)
(* (RemoveForSelection of SlotProtocol): strong fairness, because it allows  *)
(* removals that expire but not that every one of them does.  Traffic, a     *)
(* repeated allocation and the other end are not relied on.                  *)
FairSpec ==
  Spec /\ WF_vars(NewFrame) /\ WF_vars(CheckIdle) /\ SF_vars(RemovalDone)
----------------------------------------------------------------------------
(* The monitor's variables have their types, a removal is pending only for   *)
(* an allocated cell, and a free cell has no counters (notify_slot_removed). *)
MonitorTypeOK ==
  /\ state \in {"FREE", "TX", "RX"} /\ pending \in {"no", "idle", "failing"}
  /\ idle \in 0 .. RxTimeout
  /\ success \in Nat /\ fail \in Nat /\ success + fail <= MaxSamples
  /\ past \in BOOLEAN /\ alive \in BOOLEAN
  /\ consec \in 0 .. Wrap - 1
  /\ seen \in 0 .. Record /\ lost \in 0 .. Record
  /\ ~IsSlotAllocated =>
       /\ pending = "no" /\ ~alive
       /\ success = 0 /\ fail = 0 /\ consec = 0 /\ seen = 0

(* A cell is removed as failing only on evidence of its present allocation:  *)
(* at least Limit frames' worth of statistics handed in since the counters   *)
(* were reset, more than a fifth of that number failures                     *)
(* (process_ack_statistic, with notify_slot_allocated).  Counters kept over  *)
(* a frame, an allocation or a good frame would condemn a cell on less.      *)
EvidenceNeeded ==
  [][ pending' = "failing" /\ pending # "failing" =>
        /\ seen >= Limit * (Enough + 1)
        /\ 5 * lost > Limit * (Enough + 1) ]_vars

(* A cell that is still allocated though the other end is gone. *)
Dead == IsSlotAllocated /\ ~alive

(* A frame ends with some statistics, but too few to be judged. *)
ThinFrame == NewFrame /\ ~past /\ success + fail \in 1 .. Enough

(* A cell of which the other end is gone is free again in the end: when      *)
(* unused it becomes idle, when used its failures count, and a removal that  *)
(* expired is asked for anew (check_idle_timeouts, process_ack_statistic,    *)
(* process_set_response).  The one way out is that it carries too little     *)
(* traffic to be judged and enough to be refreshed, for ever (process_stats  *)
(* refreshes last_used on a failed statistic too).                           *)
DeadSlotRemoved ==
  \/ []<><<ThinFrame>>_vars
  \/ Dead ~> state = "FREE"
============================================================================
