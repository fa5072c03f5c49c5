----------------------------- MODULE ChargeLamp -----------------------------
(***************************************************************************)
(* The charge lamp of the instrument cluster (chargeLamp.cpp): lit until   *)
(* charging is confirmed, judged in every pass of core 0 by what the last  *)
(* frames of the ECU said, of which any number may be lost.                *)
(*                                                                         *)
(* Times are ages in ticks that stop at the largest value they are         *)
(* compared with; a frame carries what holds when it arrives.              *)
(***************************************************************************)
EXTENDS Naturals

CONSTANTS
  Confirm,      \* CHARGE_LAMP_CONFIRM_MS
  Over,         \* CHARGE_LAMP_OVERVOLTAGE_CONFIRM_MS
  Settle,       \* CHARGE_LAMP_START_SETTLE_MS
  DataTimeout,  \* CHARGE_LAMP_DATA_TIMEOUT_MS
  SpeedTimeout  \* RPM_CAN_TIMEOUT_MS

VARIABLES
  running, voltage,   \* the engine and what the alternator makes of it
  seen,               \* the last values decoded (canValues) and their ages
  lamp,               \* the members of ChargeLamp
  light,              \* what the last pass showed
  judged,             \* a pass has been made since time passed
  failed              \* history: how long a running engine is not charged

vars == <<running, voltage, seen, lamp, light, judged, failed>>

Voltages == {"low", "between", "charging", "over"}
Older(age, limit) == IF age < limit THEN age + 1 ELSE limit
Larger(a, b) == IF a > b THEN a ELSE b

(* A hold of n ticks is n + 1, no hold is zero.                            *)
NotHeld == 0
Held(hold, condition) == IF condition THEN Larger(hold, 1) ELSE NotHeld
Confirmed(hold, time) == hold > time
HeldOn(hold, time) == IF hold = NotHeld THEN NotHeld ELSE Older(hold, time + 1)

Unconfirmed == [started |-> NotHeld, charging |-> FALSE, low |-> NotHeld,
                ok |-> NotHeld, high |-> NotHeld]

Init ==
  /\ running \in BOOLEAN /\ voltage \in Voltages
  /\ seen = [running |-> FALSE, voltage |-> "low",
             speedAge |-> DataTimeout, voltageAge |-> DataTimeout]
  /\ lamp = Unconfirmed
  /\ light = "lit"
  /\ judged = FALSE
  /\ failed = 0

---------------------------------------------------------------------------
Decoded(arrived) ==
  [running |-> IF "speed" \in arrived THEN running ELSE seen.running,
   speedAge |-> IF "speed" \in arrived THEN 0 ELSE seen.speedAge,
   voltage |-> IF "voltage" \in arrived THEN voltage ELSE seen.voltage,
   voltageAge |-> IF "voltage" \in arrived THEN 0 ELSE seen.voltageAge]

(* canTickRpmTimeout: a speed that is not renewed is taken for zero.       *)
Expired(s) == IF s.speedAge >= SpeedTimeout THEN [s EXCEPT !.running = FALSE] ELSE s

(* canCheckConnection: nothing of the ECU came between two checks, and so  *)
(* for longer than a value counts; its values become zero, and no younger. *)
NotHeard(arrived) ==
  arrived = {} /\ seen.speedAge = DataTimeout /\ seen.voltageAge = DataTimeout
Cleared(s) == [s EXCEPT !.running = FALSE, !.voltage = "low"]

(* Faulty variant: a voltage once decoded counts for ever. *)
SpeedIsFresh(s) == s.speedAge < DataTimeout
(* canValueFresh *)
IsFresh(s) == s.speedAge < DataTimeout /\ s.voltageAge < DataTimeout

(* The voltage is judged once the engine has run for the settling time.    *)
Judge(s) ==
  LET started == Held(lamp.started, TRUE)
      low == Held(lamp.low, s.voltage = "low")
      ok == Held(lamp.ok, s.voltage \in {"charging", "over"})
      high == Held(lamp.high, s.voltage = "over")
      charging == \/ Confirmed(ok, Confirm)
                  \/ lamp.charging /\ ~Confirmed(low, Confirm)
  IN IF ~Confirmed(started, Settle)
       THEN lamp' = [lamp EXCEPT !.started = started] /\ light' = "lit"
       ELSE /\ lamp' = [started |-> started, charging |-> charging,
                        low |-> low, ok |-> ok, high |-> high]
            /\ light' = IF Confirmed(high, Over) THEN "blinking"
                        ELSE IF charging THEN "dark" ELSE "lit"

(* A pass of core 0: some frames arrive and are decoded, what was not      *)
(* renewed is cleared, updateChargeLamp follows.                           *)
Pass(arrived, lost) ==
  /\ lost => NotHeard(arrived)
  /\ LET known == Expired(Decoded(arrived))
     IN seen' = IF lost THEN Cleared(known) ELSE known
  /\ IF IsFresh(seen') /\ seen'.running
       THEN Judge(seen')
       ELSE lamp' = Unconfirmed /\ light' = "lit"
  /\ judged' = TRUE
  /\ UNCHANGED <<running, voltage, failed>>

(* The engine starts or stops, or the voltage changes.                     *)
Changes ==
  /\ \/ running' = ~running /\ UNCHANGED voltage
     \/ UNCHANGED running /\ voltage' \in Voltages \ {voltage}
  /\ failed' = 0
  /\ UNCHANGED <<seen, lamp, light, judged>>

Tick ==
  /\ judged
  /\ judged' = FALSE
  /\ seen' = [seen EXCEPT !.speedAge = Older(@, DataTimeout),
                          !.voltageAge = Older(@, DataTimeout)]
  /\ lamp' = [lamp EXCEPT !.started = HeldOn(@, Settle), !.low = HeldOn(@, Confirm),
                          !.ok = HeldOn(@, Confirm), !.high = HeldOn(@, Over)]
  /\ failed' = IF running /\ voltage = "low" THEN Older(failed, DataTimeout + Confirm + 1) ELSE 0
  /\ UNCHANGED <<running, voltage, light>>

Next == \/ \E arrived \in SUBSET {"speed", "voltage"}, lost \in BOOLEAN :
             Pass(arrived, lost)
        \/ Changes
        \/ Tick

---------------------------------------------------------------------------
TypeOK ==
  /\ running \in BOOLEAN /\ voltage \in Voltages /\ judged \in BOOLEAN
  /\ seen \in [running : BOOLEAN, voltage : Voltages,
               speedAge : 0 .. DataTimeout, voltageAge : 0 .. DataTimeout]
  /\ lamp \in [started : 0 .. Settle + 1, charging : BOOLEAN, low : 0 .. Confirm + 1,
               ok : 0 .. Confirm + 1, high : 0 .. Over + 1]
  /\ light \in {"lit", "dark", "blinking"}
  /\ failed \in 0 .. DataTimeout + Confirm + 1

(* An alternator that stopped charging a running engine is shown after the *)
(* age a value may have and the time of the confirmation, whichever frames *)
(* are lost: neither a voltage that is no longer renewed nor a             *)
(* confirmation begun again keeps the lamp dark (config.h:248-252).        *)
FailureShows ==
  TypeOK /\ (judged /\ failed >= DataTimeout + Confirm => light # "dark")
=============================================================================
