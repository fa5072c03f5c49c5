---------------------------------- MODULE MCVp37 ----------------------------------
(* The published snapshot and the drive of the VP37 in one instance; a behaviour *)
(* runs either the one or the other.  What a step publishes is any status in    *)
(* Vp37Snapshot, and nothing the readers do reaches the drive.                  *)
EXTENDS Vp37Snapshot, Vp37Values

VARIABLES
  phase, polls, samples, quantity, lastPWMval, enabled, target, desired,
  zeroRequested, commFailed, lostFor, controlStarted, due, busyFor,
  pidStarted, pidAge,
  driving       \* which of the two this behaviour runs

Drive == INSTANCE Vp37Drive WITH pc <- phase

driveVars == <<phase, polls, samples, quantity, lastPWMval, enabled, target, desired,
               zeroRequested, commFailed, lostFor, controlStarted, due, busyFor,
               pidStarted, pidAge>>

MCInit ==
  /\ Init /\ Drive!Init
  /\ driving \in BOOLEAN /\ (driving \/ enabled = FALSE)

Snapshot == ~driving /\ Next /\ UNCHANGED <<driveVars, driving>>
Steps == driving /\ Drive!Next /\ UNCHANGED <<vars, driving>>

(* A drive that has stopped, or whose start-up failed, stays so until a restart. *)
Rests == driving /\ phase \in Drive!Off /\ UNCHANGED <<vars, driveVars, driving>>

(* The fairness of each half binds only the behaviours that run it; a drive     *)
(* that is not run is disabled, so its own asks for nothing.                    *)
MCSpec ==
  /\ MCInit /\ [][Snapshot \/ Steps \/ Rests]_<<vars, driveVars, driving>>
  /\ WF_vars(~driving /\ Control) /\ WF_vars(~driving /\ Reading) /\ Drive!Fairness

PowerNeedsFeedback == Drive!PowerNeedsFeedback
ChannelFollowsMemory == Drive!ChannelFollowsMemory
DemandsAreCurbed == Drive!DemandsAreCurbed
RestReleases == Drive!RestReleases
================================================================================
