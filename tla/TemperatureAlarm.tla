--------------------------- MODULE TemperatureAlarm ---------------------------
(***************************************************************************)
(* The temperature alarms of the instrument cluster: BuzzerStrategy asks   *)
(* for a melody at an edge and then once per repeat interval, and the one  *)
(* buzzer plays it unless another melody is playing.                       *)
(*                                                                         *)
(* A tick is half a period of processAlerts.  Every alarm asked for is     *)
(* remembered as sounded, also one the busy buzzer did not take.           *)
(***************************************************************************)
EXTENDS Naturals

CONSTANTS
  Period,   \* ticks between two calls of processAlerts
  Repeat,   \* BUZZER_*_REPEAT_INTERVAL_MS of each kind
  Length    \* ticks a melody takes

Kinds == {"coolant", "egt"}   \* coolant or oil; the exhaust gas

VARIABLES
  running, hot,   \* what core 0 holds of the engine and of the temperatures
  alarm,          \* the members of BuzzerStrategy, by kind
  melody, left,   \* what plays and for how long still
  alert,          \* ticks until processAlerts
  beeped,         \* startBeepDone
  silent          \* history: ticks of a running hot engine without a sound

vars == <<running, hot, alarm, melody, left, alert, beeped, silent>>

Older(age, limit) == IF age < limit THEN age + 1 ELSE limit

Reset == [k \in Kinds |-> [was |-> FALSE, since |-> 0]]
Longest == Repeat["coolant"] + 1   \* Repeat["egt"] is shorter

Init ==
  /\ running = FALSE
  /\ hot = {}
  /\ alarm = Reset
  /\ melody = "none" /\ left = 0
  /\ alert = Period
  /\ beeped = FALSE
  /\ silent = 0

---------------------------------------------------------------------------
(* Faulty variant: an alarm sounds once, at its edge. *)
FiresAtEdge(k) == k \in hot /\ ~alarm[k].was
(* The edge, and the same again when the interval is over. *)
Fires(k) == k \in hot /\ (alarm[k].was => alarm[k].since >= Repeat[k])

(* EGT overrides what coolant or oil asked for. *)
Asked ==
  IF ~running THEN "none"
  ELSE IF Fires("egt") THEN "long"
  ELSE IF Fires("coolant") THEN "middle"
  ELSE "none"

(* Buzzer::start takes no melody while one plays. *)
Start(m) ==
  IF m # "none" /\ melody = "none"
    THEN melody' = m /\ left' = Length[m]
    ELSE UNCHANGED <<melody, left>>

(* processAlerts, run by its timer. *)
ProcessAlerts ==
  /\ alert = 0
  /\ alert' = Period
  /\ alarm' = IF running
       THEN [k \in Kinds |->
              IF Fires(k) THEN [was |-> TRUE, since |-> 0]
              ELSE IF k \in hot THEN alarm[k] ELSE [was |-> FALSE, since |-> 0]]
       ELSE Reset
  /\ Start(Asked)
  /\ UNCHANGED <<running, hot, beeped, silent>>

(* Once the environment is started; the beep is not repeated either. *)
StartBeep ==
  /\ ~beeped
  /\ beeped' = TRUE
  /\ Start("short")
  /\ UNCHANGED <<running, hot, alarm, alert, silent>>

(* loopBuzzers after the last signal of a melody. *)
MelodyEnds ==
  /\ melody # "none" /\ left = 0
  /\ melody' = "none"
  /\ UNCHANGED <<running, hot, alarm, left, alert, beeped, silent>>

Changes ==
  /\ \/ running' = ~running /\ UNCHANGED hot
     \/ UNCHANGED running /\ \E k \in Kinds : hot' = (hot \ {k}) \cup ({k} \ hot)
  /\ silent' = IF running' /\ hot' # {} THEN silent ELSE 0
  /\ UNCHANGED <<alarm, melody, left, alert, beeped>>

Tick ==
  /\ alert > 0 /\ ~(melody # "none" /\ left = 0)
  /\ alert' = alert - 1
  /\ left' = IF left > 0 THEN left - 1 ELSE 0
  /\ alarm' = [k \in Kinds |-> IF alarm[k].was
                 THEN [alarm[k] EXCEPT !.since = Older(@, Repeat[k])] ELSE alarm[k]]
  /\ silent' = IF running /\ hot # {} /\ left = 0 THEN Older(silent, Longest) ELSE 0
  /\ UNCHANGED <<running, hot, melody, beeped>>

Next == ProcessAlerts \/ StartBeep \/ MelodyEnds \/ Changes \/ Tick

---------------------------------------------------------------------------
TypeOK ==
  /\ running \in BOOLEAN /\ hot \subseteq Kinds
  /\ \A k \in Kinds : alarm[k] \in [was : BOOLEAN, since : 0 .. Repeat[k]]
  /\ melody \in {"none", "short", "middle", "long"} /\ left \in Nat
  /\ alert \in 0 .. Period /\ beeped \in BOOLEAN /\ silent \in 0 .. Longest

(* While the engine runs too hot the buzzer is never silent for longer     *)
(* than the longer repeat interval, whatever alarms it did not take while  *)
(* it was busy and however the kinds of overheating replace each other.    *)
NoLongSilence == TypeOK /\ silent < Longest
=============================================================================
