------------------------------- MODULE Vp37Values -------------------------------
(* The values of the VP37 drive: positions on the calibrated stroke, commands,  *)
(* periods and time bounds, in the coarse units of Vp37Drive.                   *)
EXTENDS Integers

CONSTANTS
  Top,        \* the calibrated stroke: a position at the physical limit
  Slew,       \* the farthest a tick moves the desired position: the full rate,
              \* VP37_DESIRED_SLEW_PERCENT_PER_SECOND
  Commands,   \* quantity commands of the position loop, all above zero
  Period,     \* pidTimeUpdate
  Late,       \* how late core 1 starts a step at most (see LateStep)
  ReadTime,   \* how long a step takes: it is dominated by the I2C transfer
  Cutoff,     \* VP37_ADJ_COMM_CUTOFF_MS
  Polls,      \* calibration polls until VP37_CALIBRATION_TIMEOUT_MS
  MinPolls,   \* calibration polls within VP37_CALIBRATION_MIN_SETTLE_MS
  Samples     \* VP37_CALIBRATION_STABLE_SAMPLES

CalibrationPwm == -1   \* VP37_getMaxAdjustometerPWMVal, told from every command
Unset == -1            \* no target, no desired position, nothing written yet

ASSUME DriveAssumption ==
  /\ {Top, Slew, Period, Cutoff, Samples} \subseteq Nat \ {0}
  /\ {Late, ReadTime, Polls, MinPolls} \subseteq Nat
  /\ Commands \subseteq Nat \ {0}

(* Longer than any reading the loop runs on may be old; where ages stop.        *)
StepSpan == Period + Late + ReadTime
FeedbackBound == Cutoff + 2 * StepSpan + ReadTime
Position == 0 .. Top
Least(a, b) == IF a <= b THEN a ELSE b
Older(age, cap) == Least(age + 1, cap)
================================================================================
