------------------------------- MODULE FiestaClock -------------------------------
(* Time keeping of Fiesta_clock: the change of its RTC from local time to UTC   *)
(* (clockTime.c), the setting from GPS frames (rtcSync.c), the configurator     *)
(* (config.c) and the buttons (clockPart.c), with a restart between any two     *)
(* accesses of the RTC and the flash, either of which may fail at any access.   *)
(*                                                                              *)
(* A time is abstracted to whether it is right: within the tolerance of GPS.    *)
EXTENDS Integers

CONSTANT TornTimes   \* the kinds of time ("utc", "local") whose refused write may still change the RTC

VARIABLES
  rtc,          \* [holds : what its fields were written as, right, power]
  flash,        \* the marker as the flash holds it
  kvReady,      \* s_kvReady
  marker,       \* s_marker
  model,        \* s_rtc
  sync,         \* [frame, correctionHeld, retryHeld] of rtcSync.c
  edit,         \* [setMode, session, dirty]: clockSetMode, an SC session, s_stagingDirty
  job,          \* [pc, for, right, ok]: where the loop is and what it is writing
  healed        \* the RTC and the flash answer from now on, and nothing restarts

flashes == <<flash, kvReady, marker>>
vars == <<rtc, flashes, model, sync, edit, job, healed>>

Idle == [pc |-> "tick", for |-> "none", right |-> TRUE, ok |-> TRUE]
At(pc) == job.pc = pc
To(pc) == job' = [job EXCEPT !.pc = pc]

(* What an access reports; it cannot fail for ever once healed.                 *)
Answers == IF healed THEN {TRUE} ELSE BOOLEAN

--------------------------------------------------------------------------------
(* The RTC                                                                      *)

Fresh(kind, right) == [holds |-> {kind}, right |-> right, power |-> "sound"]
Mixed(kind) == [rtc EXCEPT !.holds = @ \cup {kind}, !.right = FALSE]

(* rtc_WriteEpoch that reports ok.  A write may take effect in whole, in part   *)
(* or not at all, whatever it reports: the clock reads UTC back for that.       *)
RtcWrite(kind, right, ok) ==
  \/ (ok \/ kind \in TornTimes) /\ rtc' = Fresh(kind, right)
  \/ (ok \/ kind \in TornTimes) /\ ~healed /\ rtc' = Mixed(kind)
  \/ ~healed /\ UNCHANGED rtc

(* clockTimeCheckWrite, if the RTC answers.  Wrong times are not told apart.    *)
ReadsBack(kind, right) == rtc = Fresh(kind, right)

--------------------------------------------------------------------------------
(* clockTime.c                                                                  *)

clockTimeIsUtc == marker = "STORED"
clockTimeSettled == model # "UTC" \/ clockTimeIsUtc
Trusted == clockTimeIsUtc /\ rtc.power = "sound"

ModelOf(m) == CASE m = "STORED" -> "UTC" [] m = "ABSENT" -> "LOCAL"
                [] OTHER -> "UTC_UNCHECKED"
InFlash == IF flash' THEN "STORED" ELSE "ABSENT"

(* clockTimeWriteUtc starts; the other writers call it.                         *)
StartWrite(for, right) == job' = [pc |-> "write", for |-> for, right |-> right, ok |-> TRUE]

WriteUtc ==
  /\ At("write")
  /\ \E ok \in Answers :
       /\ RtcWrite("utc", job.right, ok)
       /\ model' = IF ok \/ model # "LOCAL" THEN "UTC_UNCHECKED" ELSE "LOCAL"
       /\ job' = [job EXCEPT !.pc = IF ok THEN "check" ELSE "finish", !.ok = ok]
  /\ UNCHANGED <<flashes, sync, edit, healed>>

NotReadBack(ok) == ok   \* faulty variant
CheckPasses(ok) == ok /\ ReadsBack("utc", job.right)

CheckWrite ==
  /\ At("check")
  /\ \E answered \in Answers :
       LET ok == CheckPasses(answered) IN
         /\ model' = IF ok THEN "UTC" ELSE model
         /\ job' = [job EXCEPT !.pc = "finish", !.ok = ok]
  /\ UNCHANGED <<rtc, flashes, sync, edit, healed>>

(* Faulty variant: an unanswered marker counts as a missing one.                *)
NotStored(m) == m # "STORED"
MarkerMissing(m) == m = "ABSENT"

AfterFinish(ok, m) == IF ~ok /\ MarkerMissing(m) THEN "keep" ELSE "done"

clockTimeFinish ==
  /\ At("finish")
  /\ To(IF job.ok /\ ~clockTimeSettled THEN "store" ELSE AfterFinish(job.ok, marker))
  /\ UNCHANGED <<rtc, flashes, model, sync, edit, healed>>

(* clockTimeStoreUtcMarker: a set may fail with or without effect, and the      *)
(* answer of the flash decides.                                                 *)
OpenFails ==
  /\ At("store") /\ ~kvReady /\ ~healed
  /\ job' = [job EXCEPT !.pc = AfterFinish(FALSE, marker), !.ok = FALSE]
  /\ UNCHANGED <<rtc, flashes, model, sync, edit, healed>>

StoreUtcMarker ==
  /\ At("store")
  /\ kvReady' = TRUE
  /\ \E set, answered \in Answers :
       /\ flash' = (flash \/ set)
       /\ marker' = IF answered THEN InFlash ELSE "UNKNOWN"
  /\ LET ok == marker' = "STORED" IN
       job' = [job EXCEPT !.pc = AfterFinish(ok, marker'), !.ok = ok]
  /\ UNCHANGED <<rtc, model, sync, edit, healed>>

clockTimeKeepLocal ==
  /\ At("keep")
  /\ \E ok \in Answers :
       /\ RtcWrite("local", job.right, ok)
       /\ model' = IF ok THEN "LOCAL" ELSE model
  /\ To("done")
  /\ UNCHANGED <<flashes, sync, edit, healed>>

--------------------------------------------------------------------------------
(* One pass of app_task0: clockCanTick, configSessionTick, the buttons          *)

configSessionEditPending == edit.dirty /\ edit.session

(* A frame counts if it is valid, not from before a pause, and nobody edits.    *)
CanUseFrame == ~(edit.setMode \/ configSessionEditPending)

(* Faulty variant: only a frame settles.                                        *)
SettlesWithFrame(f) == f /\ ~sync.retryHeld /\ ~clockTimeSettled
Settles(f) == ~sync.retryHeld /\ ~clockTimeSettled

RtcAnswersDate(answered) == answered /\ rtc.power # "lost"

rtcSyncTick ==
  /\ At("tick")
  /\ \E f, answered \in BOOLEAN :
       /\ f => CanUseFrame
       /\ answered \in Answers
       /\ LET settle == Settles(f)
              fails == settle /\ ~RtcAnswersDate(answered)
          IN /\ sync' = [sync EXCEPT !.frame = f, !.retryHeld = @ \/ fails]
             /\ job' = [pc |-> IF settle /\ ~fails THEN "finish" ELSE "apply",
                        for |-> "settle", right |-> rtc.right, ok |-> TRUE]
  /\ UNCHANGED <<rtc, flashes, model, edit, healed>>

(* Faulty variant: a correction is held whatever the RTC is worth.              *)
HeldOff == rtc.right \/ sync.correctionHeld
NotNeeded == Trusted /\ (rtc.right \/ sync.correctionHeld)

rtcSyncApply ==
  /\ At("apply")
  /\ IF ~sync.frame \/ sync.retryHeld
     THEN To("config") /\ UNCHANGED sync
     ELSE \E answered \in Answers :
            IF ~answered THEN To("config") /\ sync' = [sync EXCEPT !.retryHeld = TRUE]
            ELSE /\ IF NotNeeded THEN To("config") ELSE StartWrite("gps", TRUE)
                 /\ UNCHANGED sync
  /\ UNCHANGED <<rtc, flashes, model, edit, healed>>

(* What the caller of the finished write or settling does with its status.      *)
Done ==
  /\ At("done")
  /\ sync' = IF ~job.ok /\ job.for \in {"settle", "gps"}
             THEN [sync EXCEPT !.retryHeld = TRUE]
             ELSE IF job.for = "gps" THEN [sync EXCEPT !.correctionHeld = TRUE] ELSE sync
  /\ edit' = IF job.ok /\ job.for = "commit" THEN [edit EXCEPT !.dirty = FALSE] ELSE edit
  /\ CASE job.for = "settle" -> To("apply")
       [] job.for = "gps" -> To("config")
       [] job.for = "commit" -> To("buttons")
       [] OTHER -> job' = Idle
  /\ UNCHANGED <<rtc, flashes, model, healed>>

(* One command of the configurator; a session opens or ends on its own too.     *)
Config ==
  /\ At("config")
  /\ \/ /\ \E open \in BOOLEAN : edit' = [edit EXCEPT !.session = open]
        /\ To("buttons")
     \/ /\ edit.session
        /\ \E dirty \in BOOLEAN : edit' = [edit EXCEPT !.dirty = dirty]  \* SET, REVERT
        /\ To("buttons")
     \/ /\ edit.session
        /\ \E right \in BOOLEAN : StartWrite("commit", right)
        /\ UNCHANGED edit
  /\ UNCHANGED <<rtc, flashes, model, sync, healed>>

(* One press: hour or minute outside the set mode stores a time at once, in it  *)
(* only the last press of the set button does.                                  *)
Buttons ==
  /\ At("buttons")
  /\ \/ job' = Idle /\ UNCHANGED edit
     \/ ~edit.setMode /\ edit' = [edit EXCEPT !.setMode = TRUE] /\ job' = Idle
     \/ /\ \E right \in BOOLEAN : StartWrite("buttons", right)
        /\ edit' = [edit EXCEPT !.setMode = FALSE]
  /\ UNCHANGED <<rtc, flashes, model, sync, healed>>

Pass ==
  \/ rtcSyncTick \/ rtcSyncApply \/ Done \/ Config \/ Buttons
  \/ WriteUtc \/ CheckWrite \/ clockTimeFinish \/ OpenFails \/ StoreUtcMarker
  \/ clockTimeKeepLocal

--------------------------------------------------------------------------------
(* What happens around the loop                                                 *)

CorrectionReleased ==   \* CFG_RTC_SYNC_CORRECTION_INTERVAL_MS has passed
  /\ At("tick") /\ sync.correctionHeld /\ sync' = [sync EXCEPT !.correctionHeld = FALSE]
  /\ UNCHANGED <<rtc, flashes, model, edit, job, healed>>

RetryReleased ==        \* CFG_RTC_SYNC_RETRY_MS has passed
  /\ At("tick") /\ sync.retryHeld /\ sync' = [sync EXCEPT !.retryHeld = FALSE]
  /\ UNCHANGED <<rtc, flashes, model, edit, job, healed>>

Drift ==
  /\ At("tick") /\ rtc.right /\ rtc' = [rtc EXCEPT !.right = FALSE]
  /\ UNCHANGED <<flashes, model, sync, edit, job, healed>>

NoSync == [frame |-> FALSE, correctionHeld |-> FALSE, retryHeld |-> FALSE]
NoEdit == [setMode |-> FALSE, session |-> FALSE, dirty |-> FALSE]

(* clockTimeInit, rtcSyncInit, configSessionInit                                *)
Start(open, answered) ==
  /\ kvReady' = open
  /\ marker' = IF open /\ answered THEN InFlash ELSE "UNKNOWN"
  /\ model' = ModelOf(marker')
  /\ sync' = NoSync /\ edit' = NoEdit /\ job' = Idle

(* The power goes and comes back; the battery of the RTC may have been weak or  *)
(* empty meanwhile.                                                             *)
Restart ==
  /\ ~healed /\ UNCHANGED <<flash, healed>>
  /\ \E open, answered \in BOOLEAN : Start(open, answered)
  /\ \/ UNCHANGED rtc
     \/ \E p \in {"weak", "lost"} : rtc' = [rtc EXCEPT !.power = p, !.right = FALSE]

Heal == ~healed /\ healed' = TRUE /\ UNCHANGED <<rtc, flashes, model, sync, edit, job>>

(* A clock as an older firmware, which kept local time, left it.                *)
Init ==
  /\ rtc \in [holds : {{"local"}}, right : BOOLEAN, power : {"sound", "lost"}]
  /\ flash = FALSE /\ kvReady = TRUE /\ marker = "ABSENT" /\ model = "LOCAL"
  /\ sync = NoSync /\ edit = NoEdit /\ job = Idle /\ healed = FALSE

Next == Pass \/ CorrectionReleased \/ RetryReleased \/ Drift \/ Restart \/ Heal

(* The loop passes for ever; a period that has passed shows at the next pass.   *)
Fairness == WF_vars(Pass) /\ SF_vars(CorrectionReleased) /\ SF_vars(RetryReleased)

Spec == Init /\ [][Next]_vars /\ Fairness

--------------------------------------------------------------------------------
(* Properties                                                                   *)

KTypeOK ==
  /\ rtc \in [holds : (SUBSET {"utc", "local"}) \ {{}}, right : BOOLEAN,
              power : {"sound", "weak", "lost"}]
  /\ flash \in BOOLEAN /\ kvReady \in BOOLEAN /\ healed \in BOOLEAN
  /\ marker \in {"ABSENT", "STORED", "UNKNOWN"}
  /\ model \in {"LOCAL", "UTC", "UTC_UNCHECKED"}
  /\ sync \in [frame : BOOLEAN, correctionHeld : BOOLEAN, retryHeld : BOOLEAN]
  /\ edit \in [setMode : BOOLEAN, session : BOOLEAN, dirty : BOOLEAN]
  /\ job \in [pc : {"tick", "write", "check", "finish", "store", "keep", "done",
                    "apply", "config", "buttons"},
              for : {"none", "settle", "gps", "commit", "buttons"},
              right : BOOLEAN, ok : BOOLEAN]

(* Once the flash holds the marker, known to the clock or not, the RTC holds no *)
(* part of a local time, so no restart and no late answer can make the clock    *)
(* send local time as trusted UTC.                                              *)
MarkerMeansUtc == KTypeOK /\ (flash => "local" \notin rtc.holds)

(* ARCHITECTURE.md: "The marker is stored only after the RTC reads back the new *)
(* UTC."                                                                        *)
MarkerAfterReadBack == [][(flash' # flash => "local" \notin rtc.holds)]_vars

(* A UTC that waits for its marker is confirmed, or put back as local time,     *)
(* without any frame, once the RTC and the flash answer again.                  *)
ChangeSettles == healed /\ ~clockTimeSettled ~> clockTimeSettled

(* As long as usable frames come, the clock ends up with a right, trusted UTC   *)
(* from any state, whatever failed before, also after a wrong manual setting.   *)
CorrectionComes == []<>sync.frame => (healed ~> (Trusted /\ rtc.right))

(* The time comes right once the RTC and the flash answer again (rtcSync.c):    *)
(* neither half waits for the other for ever.                                   *)
TimeSettles == ChangeSettles /\ CorrectionComes
================================================================================
