------------------------------ MODULE ExpanderBus ------------------------------
(* The PCF8574 output expander (sensors.c) between the two cores: core 0 drives *)
(* the relays, core 1 the VP37 enable pin when it stops the drive.  Each        *)
(* transaction runs under i2cBusMutex and is then reported to the trouble code  *)
(* manager, which is DtcManager with the one code DTC_PCF8574_COMM_FAIL.        *)
EXTENDS DtcManager

CONSTANTS
  MaxFaults,     \* bound on the failing transactions
  StoreOutcomes  \* how a batch of the store may end: TRUE when all of it is written

Core == {0, 1}
Pin == {"relay", "enable"}
Owner == [relay |-> 0, enable |-> 1]
Fault == 0           \* the registry index of DTC_PCF8574_COMM_FAIL

VARIABLES
  state,     \* s_sensorsState.pcf8574State: the pins that are set
  outputs,   \* the pins the expander drives
  mutex,     \* the core that holds i2cBusMutex, or none
  op,        \* what each core is doing, with its local copies
  asked,     \* what each pin's owner asked for last
  delivered, \* the pins whose last write was acknowledged
  faults     \* failed transactions so far

bus == <<state, outputs, mutex, asked, delivered, faults>>
xvars == <<vars, bus, op>>

None == 2
Idle == [at |-> "idle"]

With(set, pin, value) == IF value THEN set \cup {pin} ELSE set \ {pin}

--------------------------------------------------------------------------------
(* pcf8574_write and pcf8574_read                                               *)

(* Faulty variant: the latch is changed before the mutex is taken.              *)
EnterUnlocked(c) == mutex' = c
Enter(c) == mutex = None /\ mutex' = c

BeginWrite(c) ==
  /\ op[c] = Idle
  /\ Enter(c)
  /\ \E pin \in Pin, value \in BOOLEAN :
       /\ Owner[pin] = c
       /\ op' = [op EXCEPT ![c] = [at |-> "modify", pin |-> pin, value |-> value,
                                   read |-> state]]
       /\ asked' = [asked EXCEPT ![pin] = value]
       /\ delivered' = delivered \ {pin}
  /\ UNCHANGED <<vars, state, outputs, faults>>

(* The read-modify-write of the shadow latch.                                   *)
Modify(c) ==
  /\ op[c].at = "modify"
  /\ state' = With(op[c].read, op[c].pin, op[c].value)
  /\ op' = [op EXCEPT ![c].at = "send"]
  /\ UNCHANGED <<vars, outputs, mutex, asked, delivered, faults>>

Acknowledged(ok) ==
  /\ ok \/ faults < MaxFaults
  /\ faults' = IF ok THEN faults ELSE faults + 1

(* The byte is pushed; the expander takes all of it or does not answer.         *)
Send(c, ok) ==
  /\ op[c].at = "send"
  /\ Acknowledged(ok)
  /\ outputs' = IF ok THEN state ELSE outputs
  /\ delivered' = IF ok THEN delivered \cup {op[c].pin} ELSE delivered
  /\ mutex' = None
  /\ op' = [op EXCEPT ![c] = [at |-> "report", failed |-> ~ok]]
  /\ UNCHANGED <<vars, state, asked>>

(* A read brings back what the pins carry, and that becomes the latch.          *)
Read(c, ok) ==
  /\ op[c] = Idle
  /\ mutex = None
  /\ Acknowledged(ok)
  /\ state' = IF ok THEN outputs ELSE state
  /\ op' = [op EXCEPT ![c] = [at |-> "report", failed |-> ~ok]]
  /\ UNCHANGED <<vars, outputs, mutex, asked, delivered>>

(* Faulty variant: only failures are reported.                                  *)
ReportFailuresOnly(c, ok) ==
  /\ op[c].at = "report"
  /\ IF op[c].failed THEN SetActive(Fault, TRUE, ok) ELSE UNCHANGED vars
  /\ op' = [op EXCEPT ![c] = Idle]
  /\ UNCHANGED bus
(* The mutex is free again before the report: reports may arrive in another     *)
(* order than the transactions they are about.                                  *)
Report(c, ok) ==
  /\ op[c].at = "report"
  /\ SetActive(Fault, op[c].failed, ok)
  /\ op' = [op EXCEPT ![c] = Idle]
  /\ UNCHANGED bus

(* dtcManagerInit and dtcManagerPoll belong to core 0.                          *)
Storage ==
  /\ \/ FALSE \in StoreOutcomes /\ (InitStorageFails \/ PollOpenFails)
     \/ PollBegin \/ Elapse
     \/ \E ok \in StoreOutcomes :
          InitLoad(ok) \/ InitSchema(ok) \/ PollLoad(ok) \/ PollSchema(ok)
            \/ PollSave(ok)
  /\ UNCHANGED <<bus, op>>

BusInit ==
  /\ state = {} /\ outputs = {} /\ mutex = None
  /\ op = [c \in Core |-> Idle]
  /\ asked = [p \in Pin |-> FALSE] /\ delivered = Pin
  /\ faults = 0

XInit == Init /\ BusInit

Transaction(c) ==
  \/ BeginWrite(c) \/ Modify(c) \/ \E ok \in BOOLEAN : Send(c, ok) \/ Read(c, ok)

XNext ==
  \/ Storage
  \/ \E c \in Core : Transaction(c) \/ \E ok \in StoreOutcomes : Report(c, ok)

(* A transaction that was begun is finished and reported.  Nothing makes        *)
(* another one begin: the relays and the enable pin are written when what they  *)
(* should be changes, and a failed write is not repeated.                       *)
XSpec ==
  /\ XInit /\ [][XNext]_xvars
  /\ \A c \in Core :
       /\ WF_xvars(Modify(c)) /\ WF_xvars(\E ok \in BOOLEAN : Send(c, ok))
       /\ WF_xvars(\E ok \in StoreOutcomes : Report(c, ok))

--------------------------------------------------------------------------------
(* Properties                                                                   *)

(* Types, and the mutex is held by the one core inside a transaction.           *)
XTypeOK ==
  /\ TypeOK
  /\ state \subseteq Pin /\ outputs \subseteq Pin /\ delivered \subseteq Pin
  /\ mutex \in Core \cup {None}
  /\ faults \in 0 .. MaxFaults
  /\ asked \in [Pin -> BOOLEAN]
  /\ \A c \in Core :
       /\ op[c].at \in {"idle", "modify", "send", "report"}
       /\ mutex = c <=> op[c].at \in {"modify", "send"}

(* A write the expander acknowledged stays in force until its owner writes the  *)
(* pin again, whatever the other core writes or reads, acknowledged or not.     *)
AcknowledgedHolds == XTypeOK /\ \A p \in delivered : (p \in outputs) = asked[p]

(* One transaction of either core is enough when the expander answers again and *)
(* no older failure is still to be reported: it clears the code for good,       *)
(* although its report may come in any order with those of the other core.      *)
FailureOwed(c) == op[c].at = "report" /\ op[c].failed
FaultGoesAway ==
  (/\ faults = MaxFaults
   /\ \E c \in Core : op[c] # Idle
   /\ \A c \in Core : ~FailureOwed(c)) ~> [](~dtc[Fault].active)
================================================================================
