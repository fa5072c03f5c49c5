------------------------------ MODULE Adjustometer ------------------------------
(* Core 0 of the Adjustometer (sensors.c): the capture of oscillator periods,   *)
(* the convergence and the verification of the baseline, and the zero hold.     *)
(*                                                                              *)
(* Time is kept as ages that Tick lets grow up to the bound that matters.  The  *)
(* low-pass filters are abstracted: a window may yield any frequency of Hz, so  *)
(* what holds here holds for every filter and every oscillator.                 *)
EXTENDS Integers

CONSTANTS
  Hz,             \* filtered frequencies a window may yield
  Track,          \* 2^ADJUSTOMETER_BASELINE_TRACK_SHIFT
  Tolerance, LockWindows,     \* ADJUSTOMETER_BASELINE_LOCK_...
  MinTime, MaxTime,           \* ADJUSTOMETER_BASELINE_..._TIME
  VerifyTime, VerifyDrift,    \* ADJUSTOMETER_BASELINE_VERIFY_...
  ZeroEnter, ZeroExit, ReleaseWindows,  \* ADJUSTOMETER_ZERO_HOLD_...
  Loss,           \* the age after which a signal counts as lost
  Band            \* frequencies of an oscillator that has settled

ASSUME AdjustometerAssumption ==
  /\ Hz \subseteq Nat /\ Band \subseteq Hz
  /\ Track \in Nat \ {0} /\ Tolerance \in Nat /\ LockWindows \in Nat
  /\ MinTime \in Nat /\ MaxTime \in Nat /\ MinTime <= MaxTime
  /\ VerifyTime \in Nat /\ VerifyDrift \in Nat
  /\ ZeroEnter \in Nat /\ ZeroExit \in Nat /\ ZeroEnter < ZeroExit
  /\ ReleaseWindows \in Nat \ {0} /\ Loss \in Nat

Blocks == 4       \* COUNTOF(captureTicks)

VARIABLES
  captureStarted, retryDue,        \* 100 ms have passed since captureRetryUs
  captureFilled, captureHealthy,
  edgeAge,                         \* since adjustometerLastEdgeUs
  filtered, pulse,                 \* adjustometerSignalHz, adjustometerPulse
  started, startAge,               \* adjustometerBaselineStartUs # 0, its age
  estimate, stableWindows,
  verifying, verifyAge,
  baseline, baselineReady,
  zeroHold, candidateSign, candidateWindows,
  (* what the properties compare with *)
  unbroken,     \* blocks captured since the last loss
  windowAge,    \* since the measurement of the last window
  calmAge,      \* since the last loss, drift or change of the candidate baseline
  signRun       \* windows in a row at least ZeroExit off, all on one side

capture == <<captureStarted, retryDue, captureFilled, captureHealthy, edgeAge, unbroken>>
locking == <<started, startAge, estimate, stableWindows, verifying, verifyAge,
             baseline, baselineReady, calmAge>>
zero == <<pulse, zeroHold, candidateSign, candidateWindows, signRun>>
vars == <<capture, locking, zero, filtered, windowAge>>

Abs(n) == IF n < 0 THEN -n ELSE n
Capped(n, most) == IF n > most THEN most ELSE n
Sign(n) == IF n > 0 THEN 1 ELSE -1

--------------------------------------------------------------------------------
(* The baseline: convergence, then verification                                 *)

TrackedEstimate(f) == estimate + ((f - estimate) \div Track)

StartConverging(f) ==
  /\ started' = TRUE /\ startAge' = 0
  /\ estimate' = f /\ stableWindows' = 0

(* Faulty variant: the time limit is forgotten.                                 *)
LocksOnlyWhenStable(age, stable) == age >= MinTime /\ stable >= LockWindows
Locks(age, stable) == (age >= MinTime /\ stable >= LockWindows) \/ age >= MaxTime

Converge(f) ==
  /\ IF ~started
     THEN StartConverging(f)
     ELSE /\ estimate' = TrackedEstimate(f)
          /\ stableWindows' = IF Abs(f - estimate') <= Tolerance
                              THEN Capped(stableWindows + 1, LockWindows) ELSE 0
          /\ UNCHANGED <<started, startAge>>
  /\ IF Locks(startAge', stableWindows')
     THEN /\ baseline' = estimate' /\ filtered' = estimate'
          /\ verifying' = TRUE /\ verifyAge' = 0 /\ calmAge' = 0
     ELSE filtered' = f /\ UNCHANGED <<baseline, verifying, verifyAge, calmAge>>
  /\ UNCHANGED baselineReady

NoDrift(f) == FALSE   \* faulty variant: the drift is not looked at
Drifts(f) == Abs(f - baseline) > VerifyDrift

Verify(f) ==
  \/ /\ Drifts(f)
     /\ StartConverging(f)
     /\ filtered' = f /\ verifying' = FALSE /\ calmAge' = 0
     /\ UNCHANGED <<verifyAge, baseline, baselineReady>>
  \/ /\ ~Drifts(f) /\ verifyAge >= VerifyTime
     /\ baseline' = estimate /\ filtered' = estimate
     /\ baselineReady' = TRUE
     /\ UNCHANGED <<started, startAge, estimate, stableWindows, verifying, verifyAge,
                    calmAge>>
  \/ /\ ~Drifts(f) /\ verifyAge < VerifyTime
     /\ estimate' = TrackedEstimate(f)
     /\ filtered' = f
     /\ UNCHANGED <<started, startAge, stableWindows, verifying, verifyAge, baseline,
                    baselineReady, calmAge>>

--------------------------------------------------------------------------------
(* The zero hold                                                                *)

ClearCandidate == candidateSign' = 0 /\ candidateWindows' = 0

(* Faulty variant: windows of both signs are counted together.                  *)
CountAnySign(offset) == candidateWindows + 1
Count(offset) ==
  IF Sign(offset) = candidateSign THEN candidateWindows + 1 ELSE 1

HoldOrPass(offset) ==
  \/ /\ Abs(offset) <= ZeroEnter
     /\ pulse' = 0 /\ zeroHold' = TRUE /\ ClearCandidate
  \/ /\ Abs(offset) > ZeroEnter /\ zeroHold /\ Abs(offset) < ZeroExit
     /\ pulse' = 0 /\ ClearCandidate /\ UNCHANGED zeroHold
  \/ /\ Abs(offset) >= ZeroExit /\ zeroHold
     /\ IF Count(offset) < ReleaseWindows
        THEN /\ pulse' = 0
             /\ candidateSign' = Sign(offset) /\ candidateWindows' = Count(offset)
             /\ UNCHANGED zeroHold
        ELSE pulse' = offset /\ zeroHold' = FALSE /\ ClearCandidate
  \/ /\ Abs(offset) > ZeroEnter /\ ~zeroHold
     /\ pulse' = offset /\ UNCHANGED <<zeroHold, candidateSign, candidateWindows>>

SignRun(offset) ==
  IF Abs(offset) < ZeroExit THEN 0
  ELSE Sign(offset) * Capped(IF Sign(offset) * signRun > 0 THEN Abs(signRun) + 1 ELSE 1,
                             ReleaseWindows)

(* processAdjustometerFrequency                                                 *)
ProcessWindow(f) ==
  /\ windowAge' = 0
  /\ IF baselineReady
     THEN /\ filtered' = f
          /\ HoldOrPass(f - baseline)
          /\ signRun' = SignRun(f - baseline)
          /\ UNCHANGED locking
     ELSE /\ IF verifying THEN Verify(f) ELSE Converge(f)
          /\ pulse' = 0 /\ signRun' = 0
          /\ IF baselineReady' THEN zeroHold' = TRUE /\ ClearCandidate
             ELSE UNCHANGED <<zeroHold, candidateSign, candidateWindows>>

--------------------------------------------------------------------------------
(* updateAdjustometerCapture                                                    *)

(* Faulty variant: every window is followed by four new blocks.                 *)
FilledAgain == 0
(* Once the baseline is final the window slides by one block.                   *)
FilledAfterWindow == IF baselineReady' THEN Blocks ELSE 0

Block ==
  /\ captureStarted
  /\ edgeAge' = 0
  /\ unbroken' = Capped(unbroken + 1, Blocks)
  /\ IF captureFilled + 1 < Blocks
     THEN /\ captureFilled' = captureFilled + 1
          /\ UNCHANGED <<captureHealthy, locking, zero, filtered, windowAge>>
     ELSE /\ captureHealthy' = TRUE
          /\ \E f \in Hz : ProcessWindow(f)
          /\ captureFilled' = FilledAfterWindow
  /\ UNCHANGED <<captureStarted, retryDue>>

(* Faulty variants of the discard: the blocks before the gap are kept; the      *)
(* verification goes on.                                                        *)
FilledKept == captureFilled
FilledAfterLoss == 0
HealthAfterLoss == FALSE
VerifyingKept == verifying
VerifyingAfterLoss == FALSE

DiscardCaptureWindow ==
  /\ captureFilled' = FilledAfterLoss /\ captureHealthy' = HealthAfterLoss
  /\ IF baselineReady
     THEN UNCHANGED locking
     ELSE /\ started' = FALSE /\ startAge' = 0
          /\ stableWindows' = 0 /\ verifying' = VerifyingAfterLoss
          /\ calmAge' = 0
          /\ UNCHANGED <<estimate, verifyAge, baseline, baselineReady>>
  /\ unbroken' = 0

(* The capture reports a timeout, or an error upon which it is set up again.    *)
LoseCapture ==
  /\ captureStarted
  /\ DiscardCaptureWindow
  /\ \/ UNCHANGED <<captureStarted, retryDue>>
     \/ captureStarted' = FALSE /\ retryDue' = FALSE
  /\ UNCHANGED <<edgeAge, zero, filtered, windowAge>>

Retry(ok) ==
  /\ ~captureStarted /\ retryDue
  /\ captureStarted' = ok /\ retryDue' = FALSE
  /\ UNCHANGED <<captureFilled, captureHealthy, edgeAge, unbroken, locking, zero,
                 filtered, windowAge>>

Tick ==
  /\ edgeAge' = Capped(edgeAge + 1, Loss + 1)
  /\ windowAge' = Capped(windowAge + 1, Loss + 1)
  /\ startAge' = IF started THEN Capped(startAge + 1, MaxTime) ELSE startAge
  /\ verifyAge' = IF verifying THEN Capped(verifyAge + 1, VerifyTime) ELSE verifyAge
  /\ calmAge' = IF baselineReady THEN calmAge ELSE Capped(calmAge + 1, VerifyTime)
  /\ retryDue' = ~captureStarted
  /\ UNCHANGED <<captureStarted, captureFilled, captureHealthy, unbroken, zero,
                 filtered, started, estimate, stableWindows, verifying, baseline,
                 baselineReady>>

SignalLost == ~captureHealthy \/ edgeAge > Loss

Init ==
  /\ captureStarted \in BOOLEAN /\ retryDue = FALSE
  /\ captureFilled = 0 /\ captureHealthy = FALSE /\ edgeAge = 0 /\ unbroken = 0
  /\ filtered = 0 /\ pulse = 0 /\ windowAge = 0
  /\ started = FALSE /\ startAge = 0 /\ estimate = 0 /\ stableWindows = 0
  /\ verifying = FALSE /\ verifyAge = 0
  /\ baseline = 0 /\ baselineReady = FALSE /\ calmAge = 0
  /\ zeroHold = TRUE /\ candidateSign = 0 /\ candidateWindows = 0 /\ signRun = 0

Next == Block \/ LoseCapture \/ Tick \/ \E ok \in BOOLEAN : Retry(ok)

(* The loop drains the capture, and a capture that can be set up is.            *)
Fairness == WF_vars(Block) /\ WF_vars(Tick) /\ SF_vars(Retry(TRUE))

Spec == Init /\ [][Next]_vars /\ Fairness

--------------------------------------------------------------------------------
(* Properties                                                                   *)

TypeOK ==
  /\ captureStarted \in BOOLEAN /\ retryDue \in BOOLEAN
  /\ captureFilled \in 0 .. Blocks /\ captureHealthy \in BOOLEAN
  /\ edgeAge \in 0 .. Loss + 1 /\ windowAge \in 0 .. Loss + 1
  /\ filtered \in Nat /\ estimate \in Nat /\ baseline \in Nat /\ pulse \in Int
  /\ started \in BOOLEAN /\ startAge \in 0 .. MaxTime
  /\ stableWindows \in 0 .. LockWindows
  /\ verifying \in BOOLEAN /\ verifyAge \in 0 .. VerifyTime
  /\ baselineReady \in BOOLEAN /\ calmAge \in 0 .. VerifyTime
  /\ zeroHold \in BOOLEAN /\ candidateSign \in -1 .. 1
  /\ candidateWindows \in 0 .. ReleaseWindows - 1
  /\ unbroken \in 0 .. Blocks /\ signRun \in -ReleaseWindows .. ReleaseWindows

(* The baseline is final only after a whole verification without a lost signal, *)
(* a drift or another candidate in between.                                     *)
VerifiedInOnePiece ==
  [][(~baselineReady /\ baselineReady') => calmAge >= VerifyTime]_vars

(* The estimate that becomes the baseline went on following the oscillator, but *)
(* never further from the verified candidate than the drift allowed.            *)
EstimateNearCandidate ==
  /\ TypeOK
  /\ (verifying /\ ~baselineReady) => Abs(estimate - baseline) <= VerifyDrift

(* What the ECU may act on comes from a current window: a healthy window is     *)
(* made of blocks without a gap between them, and a final measurement that is   *)
(* not flagged as lost is no older than the edges, so that an old window never  *)
(* hides behind new edges.                                                      *)
WindowIsCurrent ==
  /\ captureHealthy => unbroken = Blocks
  /\ (baselineReady /\ ~SignalLost) => windowAge <= Loss

(* The hold lets a displacement through only after that many windows in a row   *)
(* on the same side, and with their sign.                                       *)
SpikesHeld ==
  [][(zeroHold /\ ~zeroHold') =>
       (Abs(signRun') = ReleaseWindows /\ signRun' * pulse' > 0)]_vars

(* An oscillator that stays in a band narrower than the drift gets its baseline *)
(* even when it never is stable.                                                *)
OutOfBand ==
  Block /\ captureFilled + 1 >= Blocks /\ ~\E f \in Band : ProcessWindow(f)
BaselineComes == <>[][~LoseCapture /\ ~OutOfBand]_vars => <>baselineReady
================================================================================
