------------------------------ MODULE DtcRecovery ------------------------------
(* The trouble code manager on a storage that fails for a while and then heals, *)
(* with a bounded number of resets and of clears, to ask whether queued work    *)
(* is ever finished.  dtcManagerPoll runs in every pass of the loop of core 0   *)
(* (start.c), which is the fairness assumed of it.                              *)
EXTENDS DtcManager

CONSTANTS
  MaxClears,      \* bound on the calls of dtcManagerClearAll
  MaxResets       \* bound on the resets

ASSUME BoundsAssumption == MaxClears \in Nat /\ MaxResets \in Nat

VARIABLES
  healthy,        \* storage operations succeed from now on
  clears, resets  \* calls and resets so far

rvars == <<vars, healthy, clears, resets>>

RInit == Init /\ healthy = FALSE /\ clears = 0 /\ resets = 0

Heal ==
  /\ ~healthy
  /\ healthy' = TRUE
  /\ UNCHANGED <<vars, clears, resets>>

(* The jobs of dtcManagerInit and dtcManagerPoll.                               *)
Job(ok) ==
  \/ InitLoad(ok) \/ InitSchema(ok)
  \/ PollLoad(ok) \/ PollSchema(ok) \/ PollClear(ok) \/ PollSave(ok)

Working == PollBegin \/ Job(TRUE)

Failing == InitStorageFails \/ PollOpenFails \/ Job(FALSE)

Reporting(ok) ==
  \/ \E i \in Idx, on \in BOOLEAN : SetActive(i, on, ok)
  \/ \E i \in Idx, detail \in Details : SetActiveDetail(i, detail, ok)

Steady ==
  /\ UNCHANGED <<healthy, clears, resets>>
  /\ \/ Working
     \/ ~healthy /\ Failing
     \/ \E ok \in BOOLEAN : (~healthy \/ ok) /\ Reporting(ok)
     \/ Elapse
     \/ ForeignCommit

(* A clear that finds the storage closed is queued without being tried.         *)
Clearing ==
  /\ clears < MaxClears
  /\ clears' = clears + 1
  /\ \E ok \in BOOLEAN :
       /\ healthy /\ storageReady /\ ~schemaPending => ok
       /\ ClearAll(ok)
  /\ UNCHANGED <<healthy, resets>>

Resetting ==
  /\ resets < MaxResets
  /\ resets' = resets + 1
  /\ PowerLoss
  /\ UNCHANGED <<healthy, clears>>

RNext == Steady \/ Heal \/ Clearing \/ Resetting

(* The loop of core 0 keeps calling Poll, a started job runs to its end, and    *)
(* time passes.                                                                 *)
RSpec ==
  /\ RInit /\ [][RNext]_rvars
  /\ WF_rvars(healthy /\ Working /\ UNCHANGED <<healthy, clears, resets>>)
  /\ WF_rvars(Elapse /\ UNCHANGED <<healthy, clears, resets>>)

(* A fault present when the storage heals ends up in the flash, unless a clear  *)
(* or a reset takes it away first.                                              *)
ReportsBecomeDurable ==
  \A i \in Idx :
    healthy /\ i \in Visible ~> (i \notin Visible \/ i \in Recovered(flash))

(* Once the storage is healthy all queued work gets done: the storage is opened *)
(* and migrated, a queued clear reaches the flash, every report is durable.     *)
QueuedWorkDrains ==
  /\ healthy ~> (pc = "idle" /\ ~WorkLeft)
  /\ ReportsBecomeDurable
================================================================================
