----------------------------- MODULE ClusterLink -----------------------------
(***************************************************************************)
(* The instrument cluster on the bus of the ECU: what core 0 of Clocks     *)
(* holds of the frames the ECU sends, with their age, the time-out of the  *)
(* engine speed and the check of the connection.                           *)
(*                                                                         *)
(* EcuSend is the other end.  Between the two a frame may be lost, may be  *)
(* refused and come nevertheless, or find the receive buffers full; the    *)
(* ECU may lose its power and start anew.  A tick is long for both loops:  *)
(* what is due is done, and what has arrived is decoded, before it ends.   *)
(***************************************************************************)
EXTENDS EcuSend, Sequences, SequencesExt

CONSTANTS
  Ring,      \* frames the receive buffers of Clocks hold
  Timeout,   \* RPM_CAN_TIMEOUT_MS, at least three heartbeats (can.cpp:5)
  Check      \* CAN_CHECK_CONNECTION

VARIABLES
  wire,     \* frames in the receive buffers of Clocks
  clk,      \* what core 0 of Clocks holds
  power,    \* the ECU has power
  quiet,    \* nothing changes and nothing is lost any more
  had,      \* history: ticks since the engine had a speed that is shown
  missed    \* history: speed frames missed since the one shown, at most two

cluster == <<wire, clk>>
vars == <<sendVars, wire, clk, power, quiet, had, missed>>

Status == 0   \* a frame is the speed it carries, or this for any status frame

NoFrames == [rpm |-> 0, valid |-> FALSE, age |-> Timeout, status |-> FALSE,
             got |-> FALSE, connected |-> FALSE, was |-> FALSE, check |-> 0]

LinkInit ==
  /\ wire = <<>>
  /\ clk = NoFrames
  /\ power = TRUE
  /\ quiet = FALSE
  /\ had = [v \in Speeds |-> IF v = engine THEN 0 ELSE Timeout + 1]
  /\ missed = 2

Init == SendInit /\ LinkInit

---------------------------------------------------------------------------
(* The sender of the ECU on this bus: a frame that went out arrives, or    *)
(* does not.                                                               *)
Put(frame, arrives) ==
  IF arrives /\ Len(wire) < Ring THEN wire' = Append(wire, frame)
                                 ELSE UNCHANGED wire

Fates == IF quiet THEN {TRUE} ELSE BOOLEAN

(* A pass of the loop: within a tick the pause after a frame does not end, *)
(* so at most one frame goes out in it.                                    *)
EcuPass(ok, arrives) ==
  /\ power
  /\ \/ /\ SpeedDue
        /\ SendOrServe(ok, FALSE) /\ Put(engine, arrives)
        /\ missed' = IF wire' # wire /\ ~quiet THEN 0 ELSE Older(missed, 2)
     \/ /\ ~SpeedDue /\ ok
        /\ SendOrServe(ok, TRUE) /\ Put(Status, arrives)
        /\ UNCHANGED missed
  /\ UNCHANGED <<engine, at, clk, power, quiet, had>>

EngineTurns(v) ==
  /\ ~quiet
  /\ Measure(v)
  /\ had' = [had EXCEPT ![v] = 0]
  /\ UNCHANGED <<cluster, power, quiet, missed>>

(* Power is lost; with power again the ECU starts with its first frame.    *)
PowerLost ==
  /\ ~quiet /\ power
  /\ power' = FALSE
  /\ missed' = 2
  /\ tx' = Silent /\ pub' = NeverSent
  /\ passed' = [s \in Slot |-> NonePassed]
  /\ UNCHANGED <<engine, at, cluster, quiet, had>>

PowerBack ==
  /\ ~quiet /\ ~power
  /\ power' = TRUE
  /\ UNCHANGED <<sendVars, cluster, quiet, had, missed>>

---------------------------------------------------------------------------
(* canMainLoop: every frame is decoded, in order, so the last speed stays; *)
(* any of the ECU counts.                                                  *)
Decoded ==
  LET speeds == {i \in 1 .. Len(wire) : wire[i] # Status}
      seen == IF wire = <<>> THEN clk
              ELSE [clk EXCEPT !.got = TRUE, !.connected = TRUE,
                               !.status = @ \/ Status \in ToSet(wire)]
  IN IF speeds = {} THEN seen
     ELSE [seen EXCEPT !.rpm = wire[Max(speeds)], !.valid = TRUE, !.age = 0]

(* Faulty variant: only the check of the connection gives a speed up. *)
ExpiredNever(c) == c

(* Faulty variant: expired one heartbeat early. *)
ExpiredEarly(c) ==
  IF c.valid /\ c.age >= Timeout - Heartbeat
    THEN [c EXCEPT !.valid = FALSE, !.rpm = 0] ELSE c

(* canTickRpmTimeout *)
Expired(c) ==
  IF c.valid /\ c.age >= Timeout THEN [c EXCEPT !.valid = FALSE, !.rpm = 0] ELSE c

(* Faulty variant: the time of the check is not started again.             *)
CheckedOften(c) ==
  LET heard == [c EXCEPT !.connected = c.got, !.got = FALSE, !.was = c.got]
  IN IF c.check < Check THEN c
     ELSE IF c.was /\ ~c.got THEN [heard EXCEPT !.rpm = 0, !.valid = FALSE, !.status = FALSE]
     ELSE heard

(* canCheckConnection: an ECU not heard of since the last check is lost,   *)
(* and with it everything that came from it.                               *)
Checked(c) ==
  LET heard == [c EXCEPT !.connected = c.got, !.got = FALSE, !.was = c.got, !.check = 0]
  IN IF c.check < Check THEN c
     ELSE IF c.was /\ ~c.got THEN [heard EXCEPT !.rpm = 0, !.valid = FALSE, !.status = FALSE]
     ELSE heard

(* runCore0 of Clocks; the needles follow at the end of the pass. *)
ClusterPass ==
  /\ clk' = Checked(Expired(Decoded))
  /\ wire' = <<>>
  /\ had' = [v \in Speeds |-> IF quiet \/ v \in {engine, clk'.rpm} THEN had[v]
                                ELSE Timeout + 1]
  /\ missed' = IF clk'.valid THEN missed ELSE 2
  /\ UNCHANGED <<sendVars, power, quiet>>

(* Nothing is due that the loops would do within the tick.  The timers of  *)
(* the status frames run once a tick (CAN_UPDATE_RECIPIENTS).              *)
EcuIsDone == power => ~SpeedDue /\ ~MayServe(tx.pending)
ClusterIsDone == wire = <<>> /\ Checked(Expired(clk)) = clk

Tick ==
  /\ EcuIsDone /\ ClusterIsDone
  /\ IF power THEN SenderAges(Slot) ELSE UNCHANGED <<tx, pub>>
  /\ clk' = [clk EXCEPT !.age = Older(@, Timeout),
                         !.check = Older(@, Check)]
  /\ had' = [v \in Speeds |-> IF quiet \/ v = engine THEN 0
                                ELSE Older(had[v], Timeout + 1)]
  /\ UNCHANGED <<engine, at, passed, wire, power, quiet, missed>>

(* From here on nothing is lost, and the histories have nothing to tell.   *)
Calm ==
  /\ ~quiet
  /\ quiet' = TRUE
  /\ had' = [v \in Speeds |-> 0] /\ missed' = 2
  /\ UNCHANGED <<sendVars, cluster, power>>

Next ==
  \/ \E ok, arrives \in Fates : EcuPass(ok, arrives)
  \/ \E v \in Speeds : EngineTurns(v)
  \/ PowerLost \/ PowerBack
  \/ ClusterPass
  \/ Tick
  \/ Calm

(* Both loops and the timers of the ECU come around, and time passes.      *)
Spec ==
  /\ Init /\ [][Next]_vars
  /\ WF_vars(\E ok, arrives \in Fates : EcuPass(ok, arrives))
  /\ WF_vars(ClusterPass)
  /\ WF_vars(Tick)

---------------------------------------------------------------------------
LinkTypeOK ==
  /\ SenderTypeOK
  /\ wire \in BoundedSeq(Speeds \cup {0}, Ring)
  /\ clk \in [rpm : Speeds \cup {0}, valid : BOOLEAN, age : 0 .. Timeout,
              status : BOOLEAN, got : BOOLEAN, connected : BOOLEAN,
              was : BOOLEAN, check : 0 .. Check]
  /\ power \in BOOLEAN /\ quiet \in BOOLEAN
  /\ had \in [Speeds -> 0 .. Timeout + 1]
  /\ missed \in 0 .. 2

(* A speed the needle and the charge lamp take for valid is one the engine *)
(* had at most the time-out ago, whatever the bus lost, kept  *)
(* or repeated; without one the needle is at rest.                         *)
SpeedIsRecent ==
  /\ LinkTypeOK
  /\ IF clk.valid THEN clk.rpm \in Speeds /\ had[clk.rpm] <= Timeout
                  ELSE clk.rpm = 0

(* The speed is given up only after two speed frames in a row have been    *)
(* missed or the ECU has lost its power: one lost frame, or a send that    *)
(* had to be repeated, does not blank the gauge (can.cpp:5).               *)
LossIsTolerated == [][clk.valid /\ ~clk'.valid => missed = 2]_vars

(* Once nothing is lost any more the cluster ends up with what is true:    *)
(* the speed and the status of a running ECU, nothing of one without power *)
Truth ==
  IF power THEN clk.valid /\ clk.rpm = engine /\ clk.connected /\ clk.status
           ELSE ~clk.valid /\ clk.rpm = 0 /\ ~clk.connected /\ ~clk.status
ClusterSettles == quiet ~> []Truth
=============================================================================
