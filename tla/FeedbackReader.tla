----------------------------- MODULE FeedbackReader -----------------------------
(* The fast feedback channel of the VP37 position loop: the Adjustometer        *)
(* publishes its newest oscillator window in an I2C register frame, and the ECU *)
(* decides in VP37_readAdjustometer whether the frame it fetched is fresh.      *)
(*                                                                              *)
(* Time is the ECU's microsecond counter in coarse ticks.  It may pass between  *)
(* any two steps: the Adjustometer's loop, its publication, the transfer and    *)
(* the ECU's use of the result all take their time.                             *)
EXTENDS Integers

CONSTANTS
  MaxAge,    \* ADJUSTOMETER_FEEDBACK_MAX_AGE_US
  Attempts,  \* VP37_ADJ_FEEDBACK_ATTEMPTS
  Numbers,   \* bound of the model: window numbers (31 bits wide, so never
             \* wrapping between two reads) stay below this
  Width,     \* the Adjustometer's clock is counted modulo this (2^32)
  Phases,    \* what its clock may show when the ECU starts
  Horizon    \* bound of the model: the last instant

ASSUME ReaderAssumption ==
  /\ MaxAge \in Nat \ {0} /\ Attempts \in Nat \ {0} /\ Horizon \in Nat
  /\ Numbers \in Nat \ {0, 1} /\ Phases \subseteq 0 .. Width - 1
  /\ Width \in Nat /\ Width > 2 * Horizon

VARIABLES
  now,
  (* the Adjustometer *)
  phase,     \* its clock shows (phase + now) % Width
  boots,     \* its restarts, at most one
  window,    \* the newest window: its number and when it ended
  frame,     \* the register frame: nothing, or a window with its stamp and age
  (* the reader *)
  pc,        \* "idle" between reads, "transfer" and "decide" within one
  startedUs, attempt,
  fetched,   \* the frame of the last transfer
  last,      \* sampleNumber and measuredUs of the last good read, and its boot
  sampleTracked, sampleAgeOriginUs,
  reading,   \* the result of the last read, NoReading while it is under way
  firstSeen, seenBefore
    \* when the first good read of this window number and the last good read
    \* of another one started: what the properties compare with

adjustometer == <<phase, boots, window, frame>>
tracking == <<last, sampleTracked, sampleAgeOriginUs, firstSeen, seenBefore>>
reader == <<pc, startedUs, attempt, fetched, tracking, reading>>
vars == <<now, adjustometer, reader>>

Time == 0 .. Horizon
Number == 0 .. Numbers - 1
Clock(t) == (phase + t) % Width
None == [published |-> FALSE]
Frame == [published : {TRUE}, number : Number, at : Time, boot : 0 .. 1,
          measuredUs : 0 .. Width - 1, ageUs : Time]
NoReading == [commOk |-> FALSE, fresh |-> FALSE]

--------------------------------------------------------------------------------
(* The Adjustometer                                                             *)

(* processAdjustometerFrequency ends a window, which takes some time.           *)
Measure ==
  /\ window.at < now /\ window.number + 1 < Numbers
  /\ window' = [number |-> window.number + 1, at |-> now]
  /\ UNCHANGED <<now, phase, boots, frame, reader>>

AgeUs == now - window.at

(* The core-0 loop publishes a new window, or the same one with its age brought *)
(* up to date.  How long the loop takes to come around is not bounded here.     *)
Publish ==
  /\ frame' = [published |-> TRUE, number |-> window.number, at |-> window.at,
               boot |-> boots, measuredUs |-> Clock(window.at), ageUs |-> AgeUs]
  /\ UNCHANGED <<now, phase, boots, window, reader>>

(* A restart empties the registers and sets the clock and the numbers to zero.  *)
Restart ==
  /\ boots = 0 /\ boots' = 1
  /\ phase' = (-now) % Width
  /\ window' = [number |-> 0, at |-> now]
  /\ frame' = None
  /\ UNCHANGED <<now, reader>>

--------------------------------------------------------------------------------
(* VP37_readAdjustometer                                                        *)

Begin ==
  /\ pc = "idle" /\ pc' = "transfer"
  /\ startedUs' = now
  /\ reading' = NoReading
  /\ UNCHANGED <<now, adjustometer, attempt, fetched, tracking>>

Fail ==
  /\ pc' = "idle" /\ startedUs' = 0 /\ attempt' = 0

(* One transfer: a bus error or a frame of another version ends the read, a     *)
(* torn frame is fetched again while attempts are left.                         *)
Transfer ==
  /\ pc = "transfer"
  /\ \/ Fail /\ UNCHANGED fetched
     \/ /\ frame.published
        /\ fetched' = frame
        /\ pc' = "decide"
        /\ UNCHANGED <<startedUs, attempt>>
     \/ /\ IF attempt + 1 < Attempts
           THEN attempt' = attempt + 1 /\ UNCHANGED <<pc, startedUs>>
           ELSE Fail
        /\ UNCHANGED fetched
  /\ UNCHANGED <<now, adjustometer, tracking, reading>>

Elapsed(t, since, interval) == t - since >= interval

Advanced == ~sampleTracked \/ fetched.number # last.number

(* Faulty variants: every publication of a window renews its budget; the        *)
(* publication age is not charged.                                              *)
OriginRenewed == startedUs - fetched.ageUs
OriginWithoutAge == IF Advanced THEN startedUs ELSE sampleAgeOriginUs
(* The instant the age of the sample is counted from: publication age and the   *)
(* whole read are charged to one budget, which the same sample never renews.    *)
ChargedOrigin ==
  IF Advanced \/ ~Elapsed(startedUs, sampleAgeOriginUs, fetched.ageUs)
  THEN startedUs - fetched.ageUs
  ELSE sampleAgeOriginUs

(* Faulty variant: the stamps are compared as plain numbers.                    *)
StampSmaller == sampleTracked /\ fetched.measuredUs < last.measuredUs
ClockBackwards ==
  sampleTracked /\ 2 * ((fetched.measuredUs - last.measuredUs) % Width) >= Width

FeedbackFresh ==
  /\ ~ClockBackwards
  /\ fetched.ageUs <= MaxAge
  /\ ~Elapsed(now, ChargedOrigin, MaxAge)

Decide ==
  /\ pc = "decide" /\ pc' = "idle"
  /\ sampleAgeOriginUs' = ChargedOrigin
  /\ sampleTracked' = TRUE
  /\ last' = [number |-> fetched.number, measuredUs |-> fetched.measuredUs,
              boot |-> fetched.boot, startedUs |-> startedUs]
  /\ reading' = [commOk |-> TRUE, fresh |-> FeedbackFresh, at |-> fetched.at,
                 startedAt |-> startedUs, readAt |-> now,
                 new |-> Advanced /\ fetched.boot = last.boot]
  /\ IF Advanced
     THEN firstSeen' = startedUs /\ seenBefore' = last.startedUs
     ELSE UNCHANGED <<firstSeen, seenBefore>>
  /\ fetched' = None /\ startedUs' = 0 /\ attempt' = 0
  /\ UNCHANGED <<now, adjustometer>>

--------------------------------------------------------------------------------
Tick ==
  /\ now < Horizon
  /\ now' = now + 1
  /\ UNCHANGED <<adjustometer, reader>>

Init ==
  /\ now = 0
  /\ phase \in Phases
  /\ \E n \in 0 .. 1 : window = [number |-> n, at |-> 0]
  /\ frame = None
  /\ boots = 0
  /\ pc = "idle" /\ startedUs = 0 /\ attempt = 0 /\ fetched = None
  /\ last = [number |-> 0, measuredUs |-> 0, boot |-> 0, startedUs |-> 0]
  /\ sampleTracked = FALSE /\ sampleAgeOriginUs = 0
  /\ reading = NoReading
  /\ firstSeen = 0 /\ seenBefore = 0

Next == Measure \/ Publish \/ Restart \/ Begin \/ Transfer \/ Decide \/ Tick

Spec == Init /\ [][Next]_vars

--------------------------------------------------------------------------------
(* Properties                                                                   *)

TypeOK ==
  /\ now \in Time /\ phase \in 0 .. Width - 1 /\ boots \in 0 .. 1
  /\ window \in [number : Number, at : Time]
  /\ frame \in Frame \cup {None}
  /\ pc \in {"idle", "transfer", "decide"}
  /\ startedUs \in Time /\ attempt \in 0 .. Attempts
  /\ fetched \in Frame \cup {None}
  /\ last \in [number : Number, measuredUs : 0 .. Width - 1, boot : 0 .. 1,
               startedUs : Time]
  /\ sampleTracked \in BOOLEAN /\ sampleAgeOriginUs \in -Horizon .. Horizon
  /\ reading \in {NoReading} \cup
       [commOk : {TRUE}, fresh : BOOLEAN, at : Time, readAt : Time,
        startedAt : Time, new : BOOLEAN]
  /\ firstSeen \in Time /\ seenBefore \in Time

(* A window the Adjustometer no longer replaces stops being fresh MaxAge after  *)
(* the ECU first read it, however often it is published or read again           *)
(* ("Later publications may shorten that budget, but never renew the same       *)
(* sample").                                                                    *)
FrozenFeedbackExpires ==
  /\ TypeOK
  /\ reading.fresh => reading.readAt - firstSeen < MaxAge

(* What the reader says of the age of a measurement is right.  One it calls     *)
(* fresh really is no older than the maximum age and the time for which the     *)
(* reader was not looking when the window appeared (Adjustometer README:        *)
(* "Unsynchronized clocks cannot reveal the delay between publication and the   *)
(* first read").  And a window seen for the first time while it is younger than *)
(* that is never refused, unless the Adjustometer restarted: also not when its  *)
(* clock wraps, when frames were torn or when transfers failed in between.  The *)
(* time the read itself took counts twice: a frame published during it carries  *)
(* an age that overlaps it.                                                     *)
AgeIsRight ==
  /\ reading.fresh =>
       reading.readAt - reading.at < MaxAge + (firstSeen - seenBefore)
  /\ (reading.commOk /\ reading.new /\ ~reading.fresh) =>
       (reading.readAt - reading.at) + (reading.readAt - reading.startedAt) >= MaxAge
================================================================================
