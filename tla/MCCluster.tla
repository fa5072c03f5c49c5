------------------------------- MODULE MCCluster -------------------------------
(* The instrument cluster in one instance: the speed on its way from the ECU,   *)
(* the sender of that with more status frames, the charge lamp and the          *)
(* temperature alarms.  They share nothing here, so a behaviour runs one of     *)
(* them.                                                                        *)
EXTENDS Naturals

CONSTANTS
  Slots, Speeds, Spacing, Retry, Heartbeat,   \* of EcuSend
  MoreSlots,                                  \* its slots where it runs alone
  Ring, Timeout, Check,                       \* of ClusterLink
  Confirm, Over, Settle, DataTimeout, SpeedTimeout,   \* of ChargeLamp
  Period, Repeat, Length                      \* of TemperatureAlarm

ASSUME SenderAssumption ==
  /\ Slots \in Nat \ {0} /\ MoreSlots \in Nat \ {0}
  /\ Spacing \in Nat \ {0} /\ Retry \in Nat /\ Heartbeat \in Nat \ {0}
  /\ Speeds # {} /\ 0 \notin Speeds

(* The static assertion of can.cpp:5; a failed send is repeated within a         *)
(* heartbeat (canDefinitions.h:21-22), and a missing speed is cleared sooner     *)
(* than the check of the connection would (Clocks/config.h:252).                 *)
ASSUME LinkAssumption ==
  /\ Ring \in Nat \ {0}
  /\ Timeout \in Nat /\ Timeout >= 3 * Heartbeat
  /\ Retry <= Heartbeat
  /\ Check \in Nat /\ Check >= Timeout

(* A missing speed is cleared before it is too old for the lamp                  *)
(* (Clocks/config.h:252).                                                        *)
ASSUME LampAssumption ==
  /\ Confirm \in Nat /\ Over \in Nat /\ Settle \in Nat /\ DataTimeout \in Nat
  /\ SpeedTimeout \in Nat /\ SpeedTimeout <= DataTimeout

(* EGT alarms are repeated at least as often as the others (config.h:89-90);     *)
(* every melody has a sound.                                                     *)
ASSUME AlarmAssumption ==
  /\ Period \in Nat \ {0}
  /\ \A k \in {"coolant", "egt"} : Repeat[k] \in Nat \ {0} /\ Repeat[k] % Period = 0
  /\ Repeat["egt"] <= Repeat["coolant"]
  /\ \A m \in {"short", "middle", "long"} : Length[m] \in Nat \ {0}

VARIABLES
  engine, tx, pub, at, passed,                                  \* EcuSend
  wire, clk, power, quiet, had, missed,                         \* ClusterLink
  running, voltage, seen, lamp, light, judged, failed,          \* ChargeLamp
  turning, hot, alarm, melody, left, alert, beeped, silent,     \* TemperatureAlarm
  part          \* which of them this behaviour runs

Link == INSTANCE ClusterLink
Sender == INSTANCE EcuSend WITH Slots <- MoreSlots
Lamp == INSTANCE ChargeLamp
Alarm == INSTANCE TemperatureAlarm WITH running <- turning

sendVars == <<engine, tx, pub, at, passed>>
linkVars == <<wire, clk, power, quiet, had, missed>>
busVars == <<sendVars, linkVars>>
lampVars == <<running, voltage, seen, lamp, light, judged, failed>>
alarmVars == <<turning, hot, alarm, melody, left, alert, beeped, silent>>
mcVars == <<sendVars, linkVars, lampVars, alarmVars, part>>

(* A part that does not run keeps one initial state.                            *)
MCInit ==
  /\ part \in {"link", "send", "lamp", "alarm"}
  /\ IF part = "send" THEN Sender!SendInit ELSE Link!SendInit
  /\ part \in {"link", "send"} \/ engine = (CHOOSE v \in Speeds : TRUE)
  /\ Link!LinkInit
  /\ Lamp!Init /\ (part = "lamp" \/ (running /\ voltage = "low"))
  /\ Alarm!Init

SendSpeed == part = "link" /\ Link!Next /\ UNCHANGED <<lampVars, alarmVars, part>>
TakeTurns == part = "send" /\ Sender!SendNext /\ UNCHANGED <<linkVars, lampVars, alarmVars, part>>
JudgeCharge == part = "lamp" /\ Lamp!Next /\ UNCHANGED <<sendVars, linkVars, alarmVars, part>>
SoundAlarms == part = "alarm" /\ Alarm!Next /\ UNCHANGED <<sendVars, linkVars, lampVars, part>>

MCNext == SendSpeed \/ TakeTurns \/ JudgeCharge \/ SoundAlarms

(* The fairness of ClusterLink, for the behaviours that run it and only from    *)
(* where nothing is lost any more: ClusterSettles needs no other.               *)
CalmLink == part = "link" /\ quiet

MCSpec ==
  /\ MCInit /\ [][MCNext]_mcVars
  /\ WF_busVars(CalmLink /\ \E ok, arrives \in Link!Fates : Link!EcuPass(ok, arrives))
  /\ WF_busVars(CalmLink /\ Link!ClusterPass)
  /\ WF_busVars(CalmLink /\ Link!Tick)

SpeedIsRecent == part = "send" \/ Link!SpeedIsRecent
LossIsTolerated == Link!LossIsTolerated
ClusterSettles == Link!ClusterSettles
TurnsAreKept == part # "send" \/ Sender!TurnsAreKept
FailureShows == Lamp!FailureShows
NoLongSilence == Alarm!NoLongSilence

(* Ticks of a quarter of a second; the intervals are shortened.                  *)
RepeatTicks == [coolant |-> 8, egt |-> 6]
MelodyTicks == [short |-> 3, middle |-> 3, long |-> 5]
================================================================================
