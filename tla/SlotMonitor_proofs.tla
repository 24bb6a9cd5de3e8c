------------------------- MODULE SlotMonitor_proofs -------------------------
(***************************************************************************)
(* Proofs about SlotMonitor: for every threshold, limit and counter width  *)
(* the counters keep their types, and a cell is condemned only on the      *)
(* evidence the thresholds promise.                                        *)
(***************************************************************************)
EXTENDS SlotMonitor, TLAPS

LEMMA TimeoutsPositive == RxTimeout \in Nat /\ IdleTimeout \in Nat
BY MonitorAssumption DEF RxTimeout, MonitorAssumption

(* The counter of failing frames: one more, zero, or as it was; never more *)
(* than it was and one, which is where its eight bits come in.             *)
LEMMA ConsecStep ==
  ASSUME MonitorTypeOK
  PROVE  /\ ConsecAfter \in 0 .. Wrap - 1
         /\ \/ ~Judged /\ ConsecAfter = consec
            \/ ConsecAfter = 0
            \/ Judged /\ BelowThreshold /\ ConsecAfter = consec + 1
<1>1. Wrap \in Nat /\ Wrap > 0 /\ consec \in 0 .. Wrap - 1
  BY MonitorAssumption DEF MonitorAssumption, MonitorTypeOK
<1>2. CASE consec + 1 < Wrap
  <2>1. (consec + 1) % Wrap = consec + 1
    BY <1>1, <1>2
  <2> QED
    BY <1>1, <1>2, <2>1 DEF ConsecAfter
<1>3. CASE consec + 1 = Wrap
  <2>1. (consec + 1) % Wrap = 0
    BY <1>1, <1>3
  <2> QED
    BY <1>1, <2>1 DEF ConsecAfter
<1> QED
  BY <1>1, <1>2, <1>3

-----------------------------------------------------------------------------
(* Types: the numbers, and what depends on whether the cell is allocated *)

Numbers ==
  /\ idle \in 0 .. RxTimeout
  /\ success \in Nat /\ fail \in Nat /\ success + fail <= MaxSamples
  /\ consec \in 0 .. Wrap - 1
  /\ seen \in 0 .. Record /\ lost \in 0 .. Record

Flags ==
  /\ state \in {"FREE", "TX", "RX"} /\ pending \in {"no", "idle", "failing"}
  /\ past \in BOOLEAN /\ alive \in BOOLEAN
  /\ ~IsSlotAllocated =>
       /\ pending = "no" /\ ~alive
       /\ success = 0 /\ fail = 0 /\ consec = 0 /\ seen = 0

LEMMA TypesParts == MonitorTypeOK <=> Numbers /\ Flags
BY Zenon DEF MonitorTypeOK, Numbers, Flags

LEMMA InitTypes == Init => MonitorTypeOK
<1> SUFFICES ASSUME Init PROVE Numbers /\ Flags
  BY TypesParts
<1>1. Numbers
  BY MonitorAssumption, TimeoutsPositive DEF Init, Numbers, MonitorAssumption
<1>2. Flags
  BY Zenon DEF Init, Flags, IsSlotAllocated
<1> QED
  BY <1>1, <1>2

LEMMA NextNumbers == MonitorTypeOK /\ [Next]_vars => Numbers'
<1> SUFFICES ASSUME MonitorTypeOK, [Next]_vars PROVE Numbers'
  OBVIOUS
<1>1. Numbers
  BY TypesParts
<1>2. ConsecAfter \in 0 .. Wrap - 1
  BY ConsecStep
<1>3. /\ Wrap \in Nat /\ Wrap > 0 /\ Record \in Nat
      /\ MaxSamples \in Nat /\ MaxSamples > 0
  BY MonitorAssumption DEF MonitorAssumption
<1> USE <1>1, <1>3, TimeoutsPositive DEF Numbers
<1>4. ASSUME ResetCounters, idle' = 0 \/ idle' = idle PROVE Numbers'
  BY <1>4 DEF ResetCounters
<1>5. ASSUME NEW mode, Allocate(mode) PROVE Numbers'
  BY <1>4, <1>5 DEF Allocate
<1>6. CASE AllocateAgain
  BY <1>4, <1>6 DEF AllocateAgain
<1>7. CASE RemovalDone \/ PeerRemoves
  BY <1>4, <1>7 DEF RemovalDone, PeerRemoves, Free
<1>8. ASSUME NEW ok, Statistic(ok) PROVE Numbers'
  <2>1. seen' \in 0 .. Record /\ lost' \in 0 .. Record
    BY <1>8 DEF Statistic, UpTo
  <2>2. success' \in Nat /\ fail' \in Nat /\ success' + fail' <= MaxSamples
    BY <1>8 DEF Statistic
  <2>3. consec' \in 0 .. Wrap - 1
    BY <1>2, <1>8 DEF Statistic
  <2>4. idle' \in 0 .. RxTimeout
    BY <1>8 DEF Statistic
  <2> QED
    BY <2>1, <2>2, <2>3, <2>4, Zenon
<1>9. CASE NewFrame
  BY <1>9 DEF NewFrame, UpTo
<1>10. CASE RemovalExpires \/ Reception \/ CheckIdle \/ PeerGone \/ UNCHANGED vars
  BY <1>10 DEF RemovalExpires, Reception, CheckIdle, PeerGone, vars
<1> QED
  BY <1>5, <1>6, <1>7, <1>8, <1>9, <1>10 DEF Next

LEMMA NextFlags == MonitorTypeOK /\ [Next]_vars => Flags'
<1> SUFFICES ASSUME MonitorTypeOK, [Next]_vars PROVE Flags'
  OBVIOUS
<1>1. Flags
  BY TypesParts
<1> USE <1>1 DEF Flags, IsSlotAllocated
<1>2. ASSUME NEW mode \in {"TX", "RX"}, Allocate(mode) PROVE Flags'
  BY <1>2, Zenon DEF Allocate, ResetCounters
<1>3. CASE AllocateAgain
  BY <1>3, Zenon DEF AllocateAgain, ResetCounters
<1>4. CASE RemovalDone \/ PeerRemoves
  BY <1>4, Zenon DEF RemovalDone, PeerRemoves, Free, ResetCounters
<1>5. ASSUME NEW ok \in BOOLEAN, Statistic(ok) PROVE Flags'
  <2>1. state' = state /\ state # "FREE" /\ alive' = alive /\ past' = FALSE
    BY <1>5, Zenon DEF Statistic
  <2>2. pending' \in {"no", "idle", "failing"}
    BY <1>5, Zenon DEF Statistic
  <2> QED
    BY <2>1, <2>2, Zenon
<1>6. CASE NewFrame
  BY <1>6, Zenon DEF NewFrame
<1>7. CASE PeerGone
  BY <1>7, Zenon DEF PeerGone
<1>8. CASE RemovalExpires
  BY <1>8, Zenon DEF RemovalExpires
<1>9. CASE Reception \/ CheckIdle
  BY <1>9, Zenon DEF Reception, CheckIdle
<1>10. CASE UNCHANGED vars
  BY <1>10, Zenon DEF vars
<1> QED
  BY <1>2, <1>3, <1>4, <1>5, <1>6, <1>7, <1>8, <1>9, <1>10, Zenon DEF Next

LEMMA NextTypes == MonitorTypeOK /\ [Next]_vars => MonitorTypeOK'
<1> SUFFICES ASSUME MonitorTypeOK, [Next]_vars PROVE Numbers' /\ Flags'
  BY Zenon DEF MonitorTypeOK, Numbers, Flags
<1> QED
  BY NextNumbers, NextFlags

(* The monitor's variables keep their types: no counter leaves its width, *)
(* a removal is pending only for an allocated cell, and a free cell has   *)
(* kept none of its statistics.                                           *)
THEOREM MonitorTypes == Spec => []MonitorTypeOK
BY InitTypes, NextTypes, PTL DEF Spec

-----------------------------------------------------------------------------
(* Evidence *)

Share == Enough + 1    \* statistics of the smallest frame that is judged

(* Why EvidenceNeeded holds: each frame counted as failing came with Share *)
(* statistics of its own, more than a fifth of them failures, and so did   *)
(* the frame that is being counted; or the history is full, and it is      *)
(* longer than the evidence needed.                                        *)
Evidence ==
  /\ seen >= Limit * Share \/ seen >= consec * Share + success + fail
  /\ 5 * lost > Limit * Share \/ 5 * lost >= consec * (Share + 1) + 5 * fail

LEMMA Products ==
  ASSUME NEW k \in Nat
  PROVE  /\ k * Share \in Nat /\ (k + 1) * Share = k * Share + Share
         /\ (k + 1) * (Share + 1) = k * (Share + 1) + Share + 1
         /\ k * (Share + 1) = k * Share + k
         /\ 0 * Share = 0 /\ 0 * (Share + 1) = 0
         /\ k >= Limit => k * Share >= Limit * Share
<1>1. Share \in Nat /\ Limit \in Nat
  BY MonitorAssumption DEF MonitorAssumption, Share
<1>2. ASSUME k >= Limit PROVE k * Share >= Limit * Share
  <2>1. PICK d \in Nat : k = Limit + d
    <3>1. k - Limit \in Nat /\ k = Limit + (k - Limit)
      BY <1>1, <1>2
    <3> QED BY <3>1
  <2>2. (Limit + d) * Share = Limit * Share + d * Share /\ d * Share >= 0
    BY <1>1, SMTT(30)
  <2>3. Limit * Share \in Nat /\ d * Share \in Nat
    BY <1>1
  <2> QED BY <2>1, <2>2, <2>3
<1> QED
  BY <1>1, <1>2, SMTT(30)

LEMMA InitEvidence == Init => Evidence
BY Products DEF Init, Evidence

(* A frame that is judged and found failing brings the evidence of one more. *)
LEMMA FailingFrame ==
  ASSUME MonitorTypeOK, Judged, BelowThreshold
  PROVE  success + fail >= Share /\ 5 * fail >= Share + 1
BY TypesParts, MonitorAssumption
   DEF Numbers, Judged, BelowThreshold, Share, MonitorAssumption

(* The first statistic after a frame that was found failing, or not.  What *)
(* it leaves in consec is covered by the evidence of the frames before it. *)
LEMMA EvidenceSoFar ==
  ASSUME MonitorTypeOK, Evidence
  PROVE  /\ seen >= Limit * Share \/ seen >= ConsecAfter * Share
         /\ 5 * lost > Limit * Share \/ 5 * lost >= ConsecAfter * (Share + 1)
<1>1. /\ consec \in Nat /\ success \in Nat /\ fail \in Nat
      /\ seen \in Nat /\ lost \in Nat /\ Share \in Nat
  BY TypesParts, MonitorAssumption DEF Numbers, Share, MonitorAssumption
<1>2. CASE ConsecAfter = consec \/ ConsecAfter = 0
  BY <1>1, <1>2, Products DEF Evidence
<1>3. CASE Judged /\ BelowThreshold /\ ConsecAfter = consec + 1
  <2>1. /\ (consec + 1) * Share = consec * Share + Share
        /\ (consec + 1) * (Share + 1) = consec * (Share + 1) + Share + 1
        /\ consec * Share \in Nat /\ consec * (Share + 1) \in Nat
    BY <1>1, Products
  <2>2. success + fail >= Share /\ 5 * fail >= Share + 1
    BY <1>3, FailingFrame
  <2>3. seen >= Limit * Share \/ seen >= ConsecAfter * Share
    BY <1>1, <1>3, <2>1, <2>2 DEF Evidence
  <2>4. 5 * lost > Limit * Share \/ 5 * lost >= ConsecAfter * (Share + 1)
    BY <1>1, <1>3, <2>1, <2>2 DEF Evidence
  <2> QED
    BY <2>3, <2>4
<1> QED
  BY <1>2, <1>3, ConsecStep

LEMMA NextEvidence ==
  MonitorTypeOK /\ Evidence /\ [Next]_vars => Evidence'
<1> SUFFICES ASSUME MonitorTypeOK, Evidence, [Next]_vars PROVE Evidence'
  OBVIOUS
<1>1. /\ consec \in Nat /\ success \in Nat /\ fail \in Nat
      /\ seen \in 0 .. Record /\ lost \in 0 .. Record
      /\ Share \in Nat /\ Share > 0 /\ Limit \in Nat /\ Limit > 0
      /\ Record \in Nat /\ Record >= Limit * Share /\ Limit * Share \in Nat
  BY TypesParts, MonitorAssumption DEF Numbers, Share, MonitorAssumption
<1>2. ASSUME ResetCounters PROVE Evidence'
  BY <1>2, Products DEF ResetCounters, Evidence
<1>3. ASSUME UNCHANGED <<success, fail, consec, seen, lost>> PROVE Evidence'
  BY <1>3 DEF Evidence
<1>4. ASSUME NEW ok \in BOOLEAN, Statistic(ok) PROVE Evidence'
  <2>1. /\ seen' = Record \/ seen' = seen + 1
        /\ IF ok THEN lost' = lost ELSE lost' = Record \/ lost' = lost + 1
    BY <1>1, <1>4 DEF Statistic, UpTo
  <2>2. CASE past
    <3>1. consec' = ConsecAfter /\ ConsecAfter \in Nat
      BY <1>4, <2>2, ConsecStep DEF Statistic
    <3>2. IF ok THEN success' = 1 /\ fail' = 0 ELSE success' = 0 /\ fail' = 1
      BY <1>4, <2>2 DEF Statistic
    <3>3. consec' * Share \in Nat /\ consec' * (Share + 1) \in Nat
      BY <1>1, <3>1
    <3>4. seen' >= Limit * Share \/ seen' >= consec' * Share + success' + fail'
      BY <1>1, <2>1, <3>1, <3>2, <3>3, EvidenceSoFar
    <3>5. 5 * lost' > Limit * Share \/ 5 * lost' >= consec' * (Share + 1) + 5 * fail'
      <4>1. 5 * lost > Limit * Share \/ 5 * lost >= consec' * (Share + 1)
        BY <3>1, EvidenceSoFar
      <4>2. CASE ok
        BY <1>1, <2>1, <3>2, <3>3, <4>1, <4>2
      <4>3. CASE ~ok /\ lost' = lost + 1
        BY <1>1, <3>2, <3>3, <4>1, <4>3
      <4>4. CASE ~ok /\ lost' = Record
        <5>1. 5 * Record > Limit * Share
          BY <1>1
        <5> QED
          BY <4>4, <5>1
      <4> QED
        BY <2>1, <4>2, <4>3, <4>4
    <3> QED
      BY <3>4, <3>5 DEF Evidence
  <2>3. CASE ~past
    <3>1. /\ consec' = consec
          /\ IF ok THEN success' = success + 1 /\ fail' = fail
             ELSE success' = success /\ fail' = fail + 1
      BY <1>4, <2>3 DEF Statistic
    <3>2. consec * Share \in Nat /\ consec * (Share + 1) \in Nat
      BY <1>1
    <3>3. seen' >= Limit * Share \/ seen' >= consec' * Share + success' + fail'
      BY <1>1, <2>1, <3>1, <3>2 DEF Evidence
    <3>4. 5 * lost' > Limit * Share \/ 5 * lost' >= consec' * (Share + 1) + 5 * fail'
      BY <1>1, <2>1, <3>1, <3>2 DEF Evidence
    <3> QED
      BY <3>3, <3>4 DEF Evidence
  <2> QED
    BY <2>2, <2>3
<1>5. ASSUME NEW mode, Allocate(mode) PROVE Evidence'
  BY <1>2, <1>5 DEF Allocate
<1>6. CASE AllocateAgain \/ RemovalDone \/ PeerRemoves
  BY <1>2, <1>6 DEF AllocateAgain, RemovalDone, PeerRemoves, Free
<1>7. CASE RemovalExpires \/ Reception \/ CheckIdle \/ NewFrame \/ PeerGone \/ UNCHANGED vars
  BY <1>3, <1>7, Zenon
     DEF RemovalExpires, Reception, CheckIdle, NewFrame, PeerGone, vars
<1> QED
  BY <1>4, <1>5, <1>6, <1>7, Zenon DEF Next

(* Only a statistic condemns a cell, and then the evidence is in. *)
LEMMA StepEvidence ==
  ASSUME MonitorTypeOK, Evidence, [Next]_vars, pending' = "failing", pending # "failing"
  PROVE  seen >= Limit * Share /\ 5 * lost > Limit * Share
<1>1. PICK ok \in BOOLEAN : Statistic(ok)
  <2>1. ASSUME NEW mode, Allocate(mode) PROVE FALSE
    BY <2>1 DEF Allocate
  <2>2. CASE AllocateAgain \/ RemovalDone \/ PeerRemoves \/ RemovalExpires
    BY <2>2 DEF AllocateAgain, RemovalDone, PeerRemoves, Free, RemovalExpires
  <2>3. CASE Reception \/ CheckIdle \/ NewFrame \/ PeerGone \/ UNCHANGED vars
    BY <2>3 DEF Reception, CheckIdle, NewFrame, PeerGone, vars
  <2> QED
    BY <2>1, <2>2, <2>3, Zenon DEF Next
<1>2. Judged /\ BelowThreshold /\ ConsecAfter >= Limit
  BY <1>1 DEF Statistic
<1>3. /\ Share \in Nat /\ Limit \in Nat \ {0} /\ seen \in Nat /\ lost \in Nat
      /\ ConsecAfter \in Nat
  BY TypesParts, MonitorAssumption, ConsecStep DEF Numbers, Share, MonitorAssumption
<1>4. /\ ConsecAfter * Share >= Limit * Share
      /\ ConsecAfter * (Share + 1) = ConsecAfter * Share + ConsecAfter
      /\ ConsecAfter * Share \in Nat /\ Limit * Share \in Nat
  BY <1>2, <1>3, Products
<1> QED
  BY <1>2, <1>3, <1>4, EvidenceSoFar

(* A cell is removed as failing only after Limit frames' worth of statistics *)
(* with more than a fifth of them failures, for every threshold and limit.   *)
THEOREM EvidenceNeededHolds == Spec => EvidenceNeeded
<1>1. MonitorTypeOK /\ Evidence /\ [Next]_vars =>
        [pending' = "failing" /\ pending # "failing" =>
           /\ seen >= Limit * (Enough + 1)
           /\ 5 * lost > Limit * (Enough + 1)]_vars
  BY StepEvidence DEF Share
<1> QED
  BY <1>1, InitTypes, NextTypes, InitEvidence, NextEvidence, PTL DEF Spec, EvidenceNeeded
=============================================================================
