---------------------------- MODULE MCStorageRecovery ----------------------------
(* Stores that fail and heal, in one instance: the trouble code manager on its   *)
(* key-value store, the reports of the expander to the same manager, and the     *)
(* marker and the RTC of Fiesta_clock.  The first two extend DtcManager and      *)
(* share its state (in the expander's part the legacy area is empty); a          *)
(* behaviour runs one of the three.                                              *)
EXTENDS DtcRecovery

CONSTANTS
  MaxFaults, StoreOutcomes,   \* of ExpanderBus
  TornTimes                   \* of FiestaClock

ASSUME ExpanderAssumption ==
  N = 1 /\ MaxFaults \in Nat /\ TRUE \in StoreOutcomes /\ StoreOutcomes \subseteq BOOLEAN
ASSUME TornAssumption == TornTimes \subseteq {"utc", "local"}

VARIABLES
  state, outputs, mutex, op, asked, delivered, faults,               \* ExpanderBus
  rtc, marked, kvReady, marker, model, sync, edit, job, healed,      \* FiestaClock
  part          \* which of the three this behaviour runs

Expander == INSTANCE ExpanderBus
Clock == INSTANCE FiestaClock WITH flash <- marked

busVars == <<state, outputs, mutex, op, asked, delivered, faults>>
clockVars == <<rtc, marked, kvReady, marker, model, sync, edit, job, healed>>
mcVars == <<rvars, busVars, clockVars, part>>

(* A part that does not run keeps one initial state.  The flags of a legacy area *)
(* that is not valid are never read, so they are fixed.                          *)
NoFlags ==
  legacyFlags = [i \in LegacyIdx |-> [stored |-> FALSE, permanent |-> FALSE]]
MCInit ==
  /\ part \in {"codes", "expander", "clock"}
  /\ RInit
  /\ part # "codes" => ~legacyValid
  /\ legacyValid \/ NoFlags
  /\ part = "clock" => mirror = Erased(mirror) /\ ~mirror.schema
  /\ Expander!BusInit
  /\ Clock!Init
  /\ part # "clock" => rtc.right /\ rtc.power = "sound"

Recover == part = "codes" /\ RNext /\ UNCHANGED <<busVars, clockVars, part>>
Elsewhere == UNCHANGED <<healthy, clears, resets, clockVars, part>>
UseBus == part = "expander" /\ Expander!XNext /\ Elsewhere
KeepTime == part = "clock" /\ Clock!Next /\ UNCHANGED <<rvars, busVars, part>>

(* The fairness of each part binds only the behaviours that run it, and of what  *)
(* fails and heals only from then on: the properties need no other.              *)
CodesFairness ==
  /\ WF_rvars(part = "codes" /\ healthy /\ Working /\ UNCHANGED <<healthy, clears, resets>>)
  /\ WF_rvars(part = "codes" /\ healthy /\ Elapse /\ UNCHANGED <<healthy, clears, resets>>)
BusFairness ==
  LET Bus(action) == part = "expander" /\ action /\ Elsewhere
  IN \A c \in Expander!Core :
       /\ WF_mcVars(Bus(Expander!Modify(c)))
       /\ WF_mcVars(Bus(\E ok \in BOOLEAN : Expander!Send(c, ok)))
       /\ WF_mcVars(Bus(\E ok \in StoreOutcomes : Expander!Report(c, ok)))
ClockFairness ==
  /\ WF_clockVars(part = "clock" /\ healed /\ Clock!Pass)
  /\ SF_clockVars(part = "clock" /\ healed /\ Clock!CorrectionReleased)
  /\ SF_clockVars(part = "clock" /\ healed /\ Clock!RetryReleased)

MCNext == Recover \/ UseBus \/ KeepTime
MCSpec == MCInit /\ [][MCNext]_mcVars /\ CodesFairness /\ BusFairness /\ ClockFairness

AcknowledgedHolds == part # "expander" \/ Expander!AcknowledgedHolds
FaultGoesAway == part # "expander" \/ Expander!FaultGoesAway
MarkerMeansUtc == Clock!MarkerMeansUtc
TimeSettles == Clock!TimeSettles
================================================================================
