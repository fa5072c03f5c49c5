------------------------------- MODULE Vp37Drive -------------------------------
(* The VP37 quantity drive (common/vp37): start-up with baseline wait and       *)
(* calibration sweep, the periodic control step on core 1, the demand ramp, the *)
(* release at rest, the calibration probe and the stop.                         *)
(*                                                                              *)
(* What VP37_readAdjustometer makes of a frame is FeedbackReader's subject; a   *)
(* reading here is lost (the transfer failed), refused (not fresh, a status     *)
(* that says signal lost or baseline pending) or good.  Positions are counted   *)
(* from the calibrated bottom, adjustMin, in coarse steps; time is counted in   *)
(* coarse ticks, as ages that stop at the largest value anything compares with. *)
EXTENDS Vp37Values

VARIABLES
  pc,             \* where start-up, the control core or the probe is
  polls, samples, \* of VP37_waitForCalibrationSettle; samples are good in a row
  quantity,       \* the command on the quantity PWM channel
  lastPWMval,     \* output.lastPWMval: the last command the loop wrote
  enabled,        \* the drive enable pin, behind the PCF8574
  target, desired, zeroRequested,  \* zeroRequested: requestedPercent is zero
  commFailed, lostFor,             \* lostFor: the time since commLostSince
  controlStarted, due,             \* due: the time until controlDueUs
  busyFor,        \* how long the running step has taken
  pidStarted,
  pidAge          \* the time since pidLastUs, when the last good step began

setup == <<polls, samples>>
output == <<quantity, lastPWMval, enabled>>
demand == <<target, desired, zeroRequested>>
link == <<commFailed, lostFor>>
timing == <<controlStarted, due, busyFor>>
pid == <<pidStarted, pidAge>>
vars == <<pc, setup, output, demand, link, timing, pid>>

--------------------------------------------------------------------------------
(* VP37_init                                                                    *)

(* The fields VP37_init sets before the sweep; the sweep begins at rest.        *)
(* Without a baseline the start-up stops feeding the watchdog and the ECU       *)
(* starts over: pc stays at "boot".                                             *)
BaselineReady ==
  /\ pc = "boot" /\ pc' = "calMin"
  /\ target' = Unset /\ desired' = Unset /\ zeroRequested' = FALSE
  /\ commFailed' = FALSE /\ lostFor' = 0
  /\ lastPWMval' = Unset /\ quantity' = 0
  /\ controlStarted' = FALSE /\ pidStarted' = FALSE
  /\ polls' = 0 /\ samples' = 0
  /\ UNCHANGED <<enabled, due, busyFor, pidAge>>

Calibrating == pc \in {"calMin", "calMax"}

(* A poll whose reading is lost, refused or good; a stable window needs Samples *)
(* good readings in a row.                                                      *)
SettlePoll(good) ==
  /\ polls < Polls
  /\ polls' = polls + 1
  /\ samples' = IF good THEN Least(samples + 1, Samples) ELSE 0

Settled == samples = Samples /\ polls >= MinPolls

CalibrationPoll ==
  /\ Calibrating
  /\ \E good \in BOOLEAN : SettlePoll(good)
  /\ UNCHANGED <<pc, output, demand, link, timing, pid>>

(* The resting endpoint is stable: drive to the other one.                      *)
MinSettles ==
  /\ pc = "calMin" /\ Settled
  /\ pc' = "calMax"
  /\ quantity' = CalibrationPwm
  /\ polls' = 0 /\ samples' = 0
  /\ UNCHANGED <<lastPWMval, enabled, demand, link, timing, pid>>

(* Faulty variant: every lost transfer starts the cutoff over.                  *)
MarkLostAgain == commFailed' = TRUE /\ lostFor' = 0
(* VP37_updateAdjustometerPosition, on a failed transfer and otherwise.         *)
MarkLost ==
  /\ commFailed' = TRUE
  /\ lostFor' = IF commFailed THEN lostFor ELSE 0
MarkRead == commFailed' = FALSE /\ lostFor' = 0

(* The pin follows the command unless the expander cannot be reached.           *)
EnableVP37(enable) == enabled' \in {enable, enabled}

(* Faulty variant: the ramp has no beginning.                                   *)
NoStartOfRamp == Unset
(* Calibration leaves the actuator at the bottom: the first demand ramps from   *)
(* there.                                                                       *)
StartOfRamp == 0

(* Both endpoints are stable and far enough apart; one more reading, which may  *)
(* be lost, and the drive is ready at the bottom.                               *)
CalibrationDone ==
  /\ pc = "calMax" /\ Settled
  /\ pc' = "run"
  /\ quantity' = 0
  /\ MarkLost \/ MarkRead
  /\ target' = Unset
  /\ desired' = StartOfRamp
  /\ EnableVP37(TRUE)
  /\ polls' = 0 /\ samples' = 0
  /\ UNCHANGED <<lastPWMval, zeroRequested, timing, pid>>

(* An endpoint does not settle in time, or the travel is too short.             *)
CalibrationFails ==
  /\ Calibrating
  /\ polls = Polls \/ (pc = "calMax" /\ Settled)
  /\ pc' = "failed"
  /\ quantity' = 0
  /\ MarkLost \/ MarkRead
  /\ EnableVP37(FALSE)
  /\ polls' = 0 /\ samples' = 0
  /\ UNCHANGED <<lastPWMval, demand, timing, pid>>

--------------------------------------------------------------------------------
(* Between two steps                                                            *)

(* VP37_setPositionDemandPercentage: the application or a test asks for a       *)
(* position; a small demand above zero may still map to the bottom.  A demand   *)
(* is also accepted after a stop: the stroke is still calibrated.               *)
SetDemand ==
  /\ pc \in {"run", "stopped"}
  /\ \E zero \in BOOLEAN, p \in Position :
       /\ zero => p = 0
       /\ zeroRequested' = zero
       /\ target' = p
  /\ UNCHANGED <<pc, setup, output, desired, link, timing, pid>>

(* Faulty variant: the loop remembers a zero that the channel never gets.       *)
StopWithoutWrite ==
  /\ pc' = "stopped"
  /\ lastPWMval' = 0
  /\ EnableVP37(FALSE)
  /\ UNCHANGED quantity
Stop ==
  /\ pc' = "stopped"
  /\ quantity' = 0 /\ lastPWMval' = 0
  /\ EnableVP37(FALSE)

(* The console stops the drive, or a console command left a period out of range.*)
StopBetweenSteps ==
  /\ pc = "run"
  /\ Stop
  /\ UNCHANGED <<setup, demand, link, timing, pid>>

(* The console puts the tuning back (VP37_resetTuning): the loop forgets the    *)
(* last command, while the channel goes on carrying it.                         *)
ResetTuning ==
  /\ pc \in {"run", "stopped"}
  /\ lastPWMval' = Unset
  /\ UNCHANGED <<pc, setup, quantity, enabled, demand, link, timing, pid>>

(* The console measures the upper endpoint again, from rest only.  The last     *)
(* step released the drive there (demand.atRest, finalPWM zero), and the tuning *)
(* was not reset since, which leaves finalPWM above zero.                       *)
(* Faulty variant: the drive need not be released yet.                          *)
MayProbeDriven == zeroRequested /\ target = 0 /\ enabled
MayProbe ==
  /\ zeroRequested /\ target = 0 /\ desired = 0 /\ lastPWMval = 0
  /\ enabled

ProbeBegins ==
  /\ pc = "run" /\ MayProbe
  /\ pc' = "probe"
  /\ quantity' = CalibrationPwm
  /\ polls' = 0 /\ samples' = 0
  /\ UNCHANGED <<lastPWMval, enabled, demand, link, timing, pid>>

ProbePoll ==
  /\ pc = "probe" /\ ~Settled
  /\ SettlePoll(TRUE)
  /\ UNCHANGED <<pc, output, demand, link, timing, pid>>

(* It settles, runs out of time, or meets a bad reading or a drive switched off.*)
ProbeEnds ==
  /\ pc = "probe"
  /\ pc' = "run"
  /\ quantity' = 0
  /\ controlStarted' = FALSE /\ pidStarted' = FALSE
  /\ polls' = 0 /\ samples' = 0
  /\ UNCHANGED <<lastPWMval, enabled, demand, link, due, busyFor, pidAge>>

--------------------------------------------------------------------------------
(* VP37_process                                                                 *)

(* A step starts at its deadline or late; a whole period late starts a new grid.*)
StepBegins ==
  /\ pc = "run"
  /\ ~controlStarted \/ due <= 0
  /\ pc' = "step"
  /\ due' = IF ~controlStarted \/ -due >= Period THEN Period ELSE due + Period
  /\ controlStarted' = TRUE
  /\ busyFor' = 0
  /\ UNCHANGED <<setup, output, demand, link, pid>>

(* The transfer failed: hold the command until the link is lost for too long.   *)
ReadingLost ==
  /\ pc = "step"
  /\ MarkLost
  /\ IF lostFor' >= Cutoff THEN Stop ELSE pc' = "run" /\ UNCHANGED output
  /\ UNCHANGED <<setup, demand, timing, pid>>

(* The feedback is not to be used, or the drive is not allowed (RPM).           *)
ReadingRefused ==
  /\ pc = "step"
  /\ MarkRead
  /\ Stop
  /\ UNCHANGED <<setup, demand, timing, pid>>

(* How far the ramp may go in this step: the full rate for the time between the *)
(* beginnings of the last good step and of this one, a period for the first.    *)
Reach == Slew * (IF pidStarted THEN pidAge - busyFor ELSE Period)

(* VP37_rampDemand: a rise may be slower and braked, a descent is neither.      *)
RampDemand ==
  IF desired = Unset THEN desired' = target
  ELSE IF target >= desired
       THEN desired' \in desired .. Least(target, desired + Reach)
       ELSE desired' = IF desired - Reach > target THEN desired - Reach ELSE target

WriteQuantityPWM(pwm) ==
  IF lastPWMval = pwm THEN UNCHANGED <<lastPWMval, quantity>>
  ELSE lastPWMval' = pwm /\ quantity' = pwm

(* Faulty variant: the loop holds the bottom under drive.                       *)
AtRestNever == FALSE
AtRestNow == zeroRequested /\ desired' <= 0

(* VP37_positionCycle: release at rest, drive otherwise; a failed correction    *)
(* step stops the drive.                                                        *)
PositionCycle ==
  IF target = Unset
  THEN pc' = "run" /\ UNCHANGED <<output, desired>>
  ELSE /\ RampDemand
       /\ IF AtRestNow
          THEN pc' = "run" /\ WriteQuantityPWM(0) /\ UNCHANGED enabled
          ELSE \/ /\ pc' = "run"
                  /\ \E pwm \in Commands : WriteQuantityPWM(pwm)
                  /\ UNCHANGED enabled
               \/ Stop

ReadingGood ==
  /\ pc = "step"
  /\ MarkRead
  /\ pidStarted' = TRUE /\ pidAge' = busyFor
  /\ PositionCycle
  /\ UNCHANGED <<setup, target, zeroRequested, timing>>

--------------------------------------------------------------------------------
(* Time.  Nothing in the code bounds the delay of a step; Late states what the  *)
(* core-1 loop keeps, and the bounds below are in its terms.  Core 0 is still   *)
(* starting up when the drive becomes ready: the first step may take any time.  *)
LateStep == pc = "run" /\ controlStarted /\ due <= -Late
SlowStep == pc = "step" /\ busyFor >= ReadTime

Tick ==
  /\ pc \in {"run", "step", "probe"}
  /\ ~LateStep /\ ~SlowStep
  /\ lostFor' = IF commFailed THEN Older(lostFor, Cutoff) ELSE 0
  /\ due' = IF controlStarted /\ pc # "probe" THEN due - 1 ELSE 0
  /\ busyFor' = IF pc = "step" THEN busyFor + 1 ELSE 0
  /\ pidAge' = Older(pidAge, FeedbackBound)
  /\ UNCHANGED <<pc, setup, output, demand, commFailed, controlStarted, pidStarted>>

Init ==
  /\ pc = "boot" /\ polls = 0 /\ samples = 0
  /\ quantity = 0 /\ lastPWMval = 0 /\ enabled \in BOOLEAN
  /\ target = Unset /\ desired = Unset /\ zeroRequested = FALSE
  /\ commFailed = FALSE /\ lostFor = 0
  /\ controlStarted = FALSE /\ due = 0 /\ busyFor = 0
  /\ pidStarted = FALSE /\ pidAge = FeedbackBound

StartUp ==
  BaselineReady \/ CalibrationPoll \/ MinSettles \/ CalibrationDone
    \/ CalibrationFails
Between ==
  SetDemand \/ StopBetweenSteps \/ ResetTuning \/ ProbeBegins \/ ProbePoll
    \/ ProbeEnds
StepEnds == ReadingLost \/ ReadingRefused \/ ReadingGood

Next == StartUp \/ Between \/ StepBegins \/ StepEnds \/ Tick

(* Core 1 comes around to its next step and finishes it, and time passes.       *)
Fairness == WF_vars(StepBegins) /\ WF_vars(StepEnds) /\ WF_vars(Tick)

Spec == Init /\ [][Next]_vars /\ Fairness

--------------------------------------------------------------------------------
(* Properties                                                                   *)

TypeOK ==
  /\ pc \in {"boot", "calMin", "calMax", "failed", "run", "step", "probe", "stopped"}
  /\ polls \in 0 .. Polls /\ samples \in 0 .. Samples
  /\ quantity \in Commands \cup {0, CalibrationPwm}
  /\ lastPWMval \in Commands \cup {0, Unset}
  /\ enabled \in BOOLEAN /\ zeroRequested \in BOOLEAN
  /\ target \in Position \cup {Unset} /\ desired \in Position \cup {Unset}
  /\ commFailed \in BOOLEAN /\ lostFor \in 0 .. Cutoff
  /\ controlStarted \in BOOLEAN /\ due \in -(Late + ReadTime) .. Period
  /\ busyFor \in 0 .. ReadTime
  /\ pidStarted \in BOOLEAN /\ pidAge \in 0 .. FeedbackBound

(* Lost transfers, late steps and slow transfers together never let the control *)
(* loop drive the actuator on feedback older than the communication cutoff and  *)
(* two steps.                                                                   *)
PowerNeedsFeedback ==
  /\ TypeOK
  /\ (pc \in {"run", "step"} /\ quantity # 0) => pidStarted /\ pidAge < FeedbackBound

(* What the loop remembers writing is what the channel carries, also after the  *)
(* sweep, the probe and a stop, which write it directly, or it remembers        *)
(* nothing, at first and after a reset of the tuning: a memory that disagreed   *)
(* would keep an equal command from ever reaching the actuator.                 *)
ChannelFollowsMemory ==
  pc \in {"run", "step", "stopped"} => lastPWMval \in {quantity, Unset}

Off == {"stopped", "failed"}

(* What a demand may do: no step throws the actuator.  However long the losses  *)
(* before it, the commanded position moves no faster than the slew over the     *)
(* time since the last good step began, and from the calibrated bottom, within  *)
(* a period's reach, for the first demand after start (ECU README: "The first   *)
(* demand after start ramps from the calibrated bottom").  A stop is final: it  *)
(* leaves the channel at zero, and whatever is demanded or read afterwards, it  *)
(* stays there until a restart.                                                 *)
DemandsAreCurbed ==
  [][/\ pc' \in Off => quantity' = 0
     /\ pc \in Off => pc' = pc
     /\ pc = "step" /\ desired' # desired =>
          LET from == IF desired = Unset THEN 0 ELSE desired
              span == IF pidStarted THEN pidAge ELSE Period
          IN from - Slew * span <= desired' /\ desired' <= from + Slew * span]_vars

(* When the demand stays at zero the actuator is released, or the drive stops;  *)
(* only the probe, which the console starts, may drive it again.                *)
RestReleases ==
  (<>[]zeroRequested) => <>[](quantity \in {0, CalibrationPwm})
================================================================================
