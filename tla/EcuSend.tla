------------------------------- MODULE EcuSend -------------------------------
(***************************************************************************)
(* The sender of the ECU on the CAN bus: the engine speed, sent at once    *)
(* when it changed and otherwise as a heartbeat, and the status frames,    *)
(* queued by their timers and sent one at a time between the others.       *)
(*                                                                         *)
(* The loop of core 0 publishes the speed, runs its timers, serves the     *)
(* status frames at several places and idles; core 1 measures the speed    *)
(* meanwhile.  Times are ages in ticks that stop at the largest value they *)
(* are compared with, or are zero while nothing asks for them.             *)
(***************************************************************************)
EXTENDS Naturals

CONSTANTS
  Slots,      \* the number of status frames (kPeriodicIds)
  Speeds,     \* engine speeds; zero is none of them
  Spacing,    \* least time between two transmissions before a status frame
  Retry,      \* CAN_RPM_RETRY_INTERVAL_MS
  Heartbeat   \* CAN_RPM_HEARTBEAT_INTERVAL_MS

VARIABLES
  engine,   \* the speed core 1 measured last (rpmValue)
  tx,       \* status frames pending, the next in turn, time since an attempt
  pub,      \* what the publisher of the speed remembers
  at,       \* where the loop of core 0 is
  passed    \* history: passed[s][r] counts the frames r sent while s waits

sender == <<tx, pub, at, passed>>
sendVars == <<engine, sender>>

Slot == 0 .. Slots - 1
Older(age, limit) == IF age < limit THEN age + 1 ELSE limit

NonePassed == [r \in Slot |-> 0]

(* resetTransmitState: a new start knows of no frame sent. *)
Silent == [pending |-> {}, next |-> 0, since |-> Spacing]
NeverSent == [sent |-> FALSE, speed |-> 0, sinceSent |-> 0, sinceTry |-> 0,
              retry |-> FALSE]

SendInit ==
  /\ engine \in Speeds
  /\ tx = Silent
  /\ pub = NeverSent
  /\ at = "publish"
  /\ passed = [s \in Slot |-> NonePassed]

---------------------------------------------------------------------------
(* Any attempt, successful or not, starts the pause before a status frame. *)
MayServe(pending) == pending # {} /\ tx.since >= Spacing

(* Faulty variant: the search starts at the first slot every time. *)
FirstPending(pending) == CHOOSE s \in pending : \A r \in pending : s <= r

Turn(s) == (s + Slots - tx.next) % Slots
InTurn(pending) == CHOOSE s \in pending : \A r \in pending : Turn(s) <= Turn(r)

(* The slots that are queued or have been, and status frame s went out. *)
Serve(pending) ==
  LET s == InTurn(pending)
  IN /\ tx' = [pending |-> pending \ {s}, next |-> (s + 1) % Slots, since |-> 0]
     /\ passed' = [r \in Slot |->
          IF r \in pending \ {s} THEN [passed[r] EXCEPT ![s] = Older(@, 2)]
                                 ELSE NonePassed]

(* canServicePeriodic with what is pending; emits says whether a status    *)
(* frame went out.                                                         *)
Service(pending, emits) ==
  IF MayServe(pending)
    THEN emits = TRUE /\ Serve(pending)
    ELSE /\ emits = FALSE
         /\ tx' = [tx EXCEPT !.pending = pending]
         /\ UNCHANGED passed

SpeedDue ==
  IF pub.retry THEN pub.sinceTry >= Retry
               ELSE ~pub.sent \/ pub.speed # engine \/ pub.sinceSent >= Heartbeat

(* The speed is sent; a failure is remembered and tried again. *)
SendSpeed(ok) ==
  /\ pub' = IF ok THEN [sent |-> TRUE, speed |-> engine, sinceSent |-> 0,
                        sinceTry |-> 0, retry |-> FALSE]
                  ELSE [pub EXCEPT !.sinceSent = 0, !.sinceTry = 0, !.retry = TRUE]

(* CAN_updaterecipients_02 ends with a service: right after a speed frame  *)
(* the pause has not passed, so it sends nothing then.                     *)
SendOrServe(ok, emits) ==
  \/ /\ SpeedDue
     /\ SendSpeed(ok) /\ emits = FALSE
     /\ tx' = [tx EXCEPT !.since = 0]
     /\ UNCHANGED passed
  \/ /\ ~SpeedDue
     /\ Service(tx.pending, emits)
     /\ UNCHANGED pub

Publish(ok, emits) ==
  /\ at = "publish"
  /\ at' = "work"
  /\ SendOrServe(ok, emits)
  /\ UNCHANGED engine

(* canQueuePeriodic, from a timer: a newer payload replaces an unsent one. *)
Queue(s, emits) ==
  /\ at = "work"
  /\ Service(tx.pending \cup {s}, emits)
  /\ UNCHANGED <<engine, pub, at>>

(* The services between the tasks of a pass, and its end. *)
Work(emits) ==
  /\ at = "work"
  /\ Service(tx.pending, emits)
  /\ UNCHANGED <<engine, pub, at>>

Idle(emits) ==
  /\ at = "work"
  /\ at' = "publish"
  /\ Service(tx.pending, emits)
  /\ UNCHANGED <<engine, pub>>

(* RPM_process on core 1 stores another speed. *)
Measure(v) ==
  /\ v # engine
  /\ engine' = v
  /\ UNCHANGED sender

(* A tick, in which the timers queued some status frames. *)
SenderAges(queued) ==
  /\ tx' = [tx EXCEPT !.since = Older(@, Spacing), !.pending = @ \cup queued]
  /\ pub' = IF pub.retry THEN [pub EXCEPT !.sinceTry = Older(@, Retry)]
                          ELSE [pub EXCEPT !.sinceSent = Older(@, Heartbeat)]

SendTick == SenderAges({}) /\ UNCHANGED <<engine, at, passed>>

SendNext ==
  \/ \E ok, emits \in BOOLEAN : Publish(ok, emits)
  \/ \E s \in Slot, emits \in BOOLEAN : Queue(s, emits)
  \/ \E emits \in BOOLEAN : Work(emits)
  \/ \E emits \in BOOLEAN : Idle(emits)
  \/ \E v \in Speeds : Measure(v)
  \/ SendTick

---------------------------------------------------------------------------
SenderTypeOK ==
  /\ engine \in Speeds
  /\ tx \in [pending : SUBSET Slot, next : Slot, since : 0 .. Spacing]
  /\ pub \in [sent : BOOLEAN, speed : Speeds \cup {0}, sinceSent : 0 .. Heartbeat,
              sinceTry : 0 .. Retry, retry : BOOLEAN]
  /\ at \in {"publish", "work"}

(* A status frame that waits is not overtaken twice by another one: the    *)
(* frames take turns although each is queued at a rate of its own.         *)
TurnsAreKept == SenderTypeOK /\ \A s, r \in Slot : passed[s][r] <= 1
=============================================================================
