----------------------------- MODULE StatusFrames -----------------------------
(***************************************************************************)
(* The sender of the ECU (EcuSend) in the time of its loop: when a pass of *)
(* core 0 ends and the next begins, and when core 1 has a new speed to     *)
(* give.  No transmission fails here, so nothing is ever sent again.       *)
(*                                                                         *)
(* A tick is a millisecond.                                                *)
(***************************************************************************)
EXTENDS EcuSend

CONSTANTS
  Pause,     \* CORE_OPERATION_DELAY
  EdgeGap    \* time between two edges of the Hall sensor

VARIABLES
  rested,    \* how long the loop has paused since its last pass
  sinceEdge  \* time since the edge that gave the speed

frameVars == <<sendVars, rested, sinceEdge>>

FramesInit ==
  /\ SendInit
  /\ rested = Pause
  /\ sinceEdge = EdgeGap

---------------------------------------------------------------------------
(* A pass begins with the speed once the pause is over.                    *)
PassBegins ==
  /\ rested = Pause
  /\ \E emits \in BOOLEAN : Publish(TRUE, emits)
  /\ UNCHANGED <<rested, sinceEdge>>

PassGoesOn ==
  /\ \E emits \in BOOLEAN : Work(emits) \/ \E s \in Slot : Queue(s, emits)
  /\ UNCHANGED <<rested, sinceEdge>>

(* The last service, and hal_delay_ms.                                     *)
PassEnds ==
  /\ \E emits \in BOOLEAN : Idle(emits)
  /\ rested' = 0
  /\ UNCHANGED sinceEdge

(* Core 1 has another speed only after an edge it has not yet counted.     *)
EdgeCounted(v) ==
  /\ sinceEdge >= EdgeGap
  /\ Measure(v)
  /\ sinceEdge' = 0
  /\ UNCHANGED rested

(* The pause lasts no longer than it should.                               *)
Millisecond ==
  /\ at = "publish" => rested < Pause
  /\ SendTick
  /\ rested' = IF at = "publish" THEN rested + 1 ELSE rested
  /\ sinceEdge' = Older(sinceEdge, EdgeGap)

FramesNext ==
  \/ PassBegins \/ PassGoesOn \/ PassEnds
  \/ \E v \in Speeds : EdgeCounted(v)
  \/ Millisecond

(* The loop comes around (start.c:488-574) and time passes.                *)
FramesSpec ==
  /\ FramesInit /\ [][FramesNext]_frameVars
  /\ WF_frameVars(PassBegins) /\ WF_frameVars(PassEnds)
  /\ WF_frameVars(Millisecond)

---------------------------------------------------------------------------
(* start.c:568 services the queue once more "so status frames keep their   *)
(* rate"; test_can.cpp:605 is named for every rate with frequent RPM: a    *)
(* status frame that is queued goes out.                                   *)
StatusGoesOut == \A s \in Slot : (s \in tx.pending) ~> (s \notin tx.pending)
=============================================================================
