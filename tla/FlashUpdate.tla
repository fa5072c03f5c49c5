------------------------------ MODULE FlashUpdate ------------------------------
(* The firmware update of the serial configurator: the Flash tab                *)
(* (sc_flash_tab.c), the sequence its worker runs (sc_core_flash, sc_flash.c),  *)
(* and the module that enters its boot loader on request                        *)
(* (sc_command_handlers.c).  A build may replace the image and its manifest,    *)
(* one after the other, and a module may be power-cycled or put into its boot   *)
(* loader by hand, at any time.                                                 *)
EXTENDS FlashImages

VARIABLES
  firmware,   \* the build each module holds
  mode,       \* "app", "leaving" (for the boot loader) or "boot" (its drive is mounted)
  uf2,        \* the build of the image file of each module
  manifest,   \* the build its manifest describes
  detected,   \* modules found by the last detection
  detecting, locked,   \* detection_in_progress, flash_in_progress
  flow,       \* the worker: see Started
  disturbed,  \* something outside the tool interfered since the click
  before,     \* the firmware at the click
  count       \* rebuilds and hands so far, for the bounds

files == <<uf2, manifest>>
tab == <<detected, detecting, locked>>
history == <<disturbed, before>>
vars == <<firmware, mode, files, tab, flow, history, count>>

NoFlow == [pc |-> "idle", target |-> None, manifest |-> Broken, drive |-> None, result |-> "none"]
Started(m) == [NoFlow EXCEPT !.pc = "manifest", !.target = m]

At(pc) == flow.pc = pc
To(pc) == flow' = [flow EXCEPT !.pc = pc]
Ends(result) == flow' = [flow EXCEPT !.pc = "done", !.result = result]

--------------------------------------------------------------------------------
(* The tab                                                                      *)

(* sc_manifest_verify_artifact: the digest of the image is the manifest's.      *)
(* Faulty variant: a manifest that names the module is enough.                  *)
AnyArtifact(m, described) == TRUE
Verified(m, described) == uf2[m] = described

(* on_flash_clicked: the manifest is verified again before the worker starts.   *)
Click(m) ==
  /\ ~locked /\ ~detecting /\ m \in detected
  /\ Verified(m, manifest[m])
  /\ locked' = TRUE
  /\ flow' = Started(m)
  /\ disturbed' = (\E other \in Modules : mode[other] # "app")
  /\ before' = firmware
  /\ UNCHANGED <<firmware, mode, files, detected, detecting, count>>

(* flash_idle_apply: what a failed update found out is not taken into account,  *)
(* a successful one starts a detection.                                         *)
Complete ==
  /\ At("done")
  /\ locked' = FALSE
  /\ flow' = [flow EXCEPT !.pc = "idle"]
  /\ detecting' = (flow.result = "OK")
  /\ detected' = IF flow.result = "OK" THEN {} ELSE detected
  /\ UNCHANGED <<firmware, mode, files, history, count>>

StartDetection ==
  /\ ~locked /\ ~detecting
  /\ detecting' = TRUE
  /\ detected' = {}
  /\ UNCHANGED <<firmware, mode, files, locked, flow, history, count>>

(* A module may be missed; one in its boot loader always is.                    *)
FinishDetection ==
  /\ detecting
  /\ detecting' = FALSE
  /\ detected' \in SUBSET {m \in Modules : mode[m] = "app"}
  /\ UNCHANGED <<firmware, mode, files, locked, flow, history, count>>

--------------------------------------------------------------------------------
(* sc_core_flash, step by step                                                  *)

CheckManifest ==
  /\ At("manifest")
  /\ flow' = [flow EXCEPT !.pc = "artifact", !.manifest = manifest[flow.target]]
  /\ UNCHANGED <<firmware, mode, files, tab, history, count>>

CheckArtifact ==
  /\ At("artifact")
  /\ IF Verified(flow.target, flow.manifest) THEN To("authenticate")
                                             ELSE Ends("MANIFEST_ARTIFACT_MISMATCH")
  /\ UNCHANGED <<firmware, mode, files, tab, history, count>>

Authenticate ==
  /\ At("authenticate")
  /\ \/ mode[flow.target] = "app" /\ To("reboot")
     \/ Ends("AUTH_FAILED")
  /\ UNCHANGED <<firmware, mode, files, tab, history, count>>

(* handle_reboot and its acknowledgment, either of which may be lost; a session *)
(* begun meanwhile by another tab, which nothing locks, makes the module refuse.*)
Reboot ==
  /\ At("reboot")
  /\ \/ /\ mode[flow.target] = "app"
        /\ mode' = [mode EXCEPT ![flow.target] = "leaving"]
        /\ To("bootsel") \/ Ends("REBOOT_FAILED")
     \/ Ends("REBOOT_FAILED") /\ UNCHANGED mode
  /\ UNCHANGED <<firmware, files, tab, history, count>>

(* sc_flash_watch_for_bootsel takes whatever drive it finds first.              *)
DriveFound ==
  \E m \in Modules :
    /\ mode[m] = "boot"
    /\ flow' = [flow EXCEPT !.pc = "copy", !.drive = m]
(* Faulty variant: the wait has no deadline.                                    *)
WaitsForEver == DriveFound
DriveFoundOrNot == DriveFound \/ Ends("BOOTSEL_TIMEOUT")
FindDrive ==
  /\ At("bootsel")
  /\ DriveFoundOrNot
  /\ UNCHANGED <<firmware, mode, files, tab, history, count>>

(* sc_flash_copy_uf2 opens the image anew.  A copy may fail, and one that is     *)
(* reported as done may not have landed, since the results of fsync and fclose  *)
(* are not taken; only one that landed makes the boot ROM start it.             *)
Lands(m) ==
  /\ mode[m] = "boot"
  /\ firmware' = [firmware EXCEPT ![m] = uf2[flow.target]]
  /\ mode' = [mode EXCEPT ![m] = "app"]
Spoils(m) ==
  /\ firmware' = IF mode[m] = "boot" THEN [firmware EXCEPT ![m] = Broken] ELSE firmware
  /\ UNCHANGED mode

Copy ==
  /\ At("copy")
  /\ \/ Lands(flow.drive) /\ To("reenum")
     \/ Spoils(flow.drive) /\ (To("reenum") \/ Ends("COPY_FAILED"))
     \/ UNCHANGED <<firmware, mode>> /\ Ends("COPY_FAILED")
  /\ UNCHANGED <<files, tab, history, count>>

(* sc_flash_wait_reenumeration knows the target by its UID.                     *)
Returns ==
  /\ At("reenum")
  /\ \/ mode[flow.target] # "boot" /\ To("hello")
     \/ Ends("REENUM_TIMEOUT")
  /\ UNCHANGED <<firmware, mode, files, tab, history, count>>

Confirm ==
  /\ At("hello")
  /\ \/ /\ mode[flow.target] = "app"
        /\ Ends(IF SameVersion(firmware[flow.target], flow.manifest)
                  THEN "OK" ELSE "POST_FLASH_FW_MISMATCH")
     \/ Ends("POST_FLASH_HELLO_FAILED")
  /\ UNCHANGED <<firmware, mode, files, tab, history, count>>

Worker ==
  \/ CheckManifest \/ CheckArtifact \/ Authenticate \/ Reboot
  \/ FindDrive \/ Copy \/ Returns \/ Confirm

--------------------------------------------------------------------------------
(* The modules, the builds and the operator's hands                             *)

(* sc_command_service_process_deferred                                          *)
EnterBootloader(m) ==
  /\ mode[m] = "leaving"
  /\ mode' = [mode EXCEPT ![m] = "boot"]
  /\ UNCHANGED <<firmware, files, tab, flow, history, count>>

(* With the power back a module runs what it holds, if that can run.            *)
PowerCycle(m) ==
  /\ count.hands < MaxHands
  /\ count' = [count EXCEPT !.hands = @ + 1]
  /\ mode' = [mode EXCEPT ![m] = IF firmware[m] = Broken THEN "boot" ELSE "app"]
  /\ disturbed' = TRUE
  /\ UNCHANGED <<firmware, files, tab, flow, before>>

PressBootsel(m) ==
  /\ count.hands < MaxHands
  /\ count' = [count EXCEPT !.hands = @ + 1]
  /\ mode' = [mode EXCEPT ![m] = "boot"]
  /\ disturbed' = TRUE
  /\ UNCHANGED <<firmware, files, tab, flow, before>>

(* The image first, then the manifest made for it.                              *)
Rebuild(m) ==
  /\ \/ /\ count.rebuilds < MaxRebuilds
        /\ count' = [count EXCEPT !.rebuilds = @ + 1]
        /\ \E b \in Builds \ {uf2[m]} : uf2' = [uf2 EXCEPT ![m] = b]
        /\ UNCHANGED manifest
     \/ /\ manifest[m] # uf2[m]
        /\ manifest' = [manifest EXCEPT ![m] = uf2[m]]
        /\ UNCHANGED <<uf2, count>>
  /\ disturbed' = TRUE
  /\ UNCHANGED <<firmware, mode, tab, flow, before>>

Init ==
  /\ firmware \in [Modules -> Installed]
  /\ mode = [m \in Modules |-> "app"]
  /\ uf2 \in [Modules -> Builds] /\ manifest = uf2
  /\ detected = {} /\ detecting = FALSE /\ locked = FALSE
  /\ flow = NoFlow
  /\ disturbed = FALSE /\ before = firmware
  /\ count = [rebuilds |-> 0, hands |-> 0]

Tool == Worker \/ Complete \/ StartDetection \/ FinishDetection \/ \E m \in Modules : Click(m)
World ==
  \E m \in Modules : EnterBootloader(m) \/ PowerCycle(m) \/ PressBootsel(m) \/ Rebuild(m)
Next == Tool \/ World

(* The worker runs, every wait of it has a deadline, and the main loop takes    *)
(* its event.                                                                   *)
Fairness == WF_vars(Worker) /\ WF_vars(Complete) /\ WF_vars(FinishDetection)
Spec == Init /\ [][Next]_vars /\ Fairness

--------------------------------------------------------------------------------
FTypeOK ==
  /\ firmware \in [Modules -> Builds \cup Installed \cup {Broken}]
  /\ mode \in [Modules -> {"app", "leaving", "boot"}]
  /\ detected \subseteq Modules
  /\ locked <=> ~At("idle")
  /\ flow.target \in Modules \cup {None} /\ flow.drive \in Modules \cup {None}

(* An update that nothing outside the tool interfered with writes to no module  *)
(* but its target, and when it is reported as done the target runs exactly the  *)
(* image whose manifest was checked.                                            *)
UndisturbedIsExact ==
  /\ FTypeOK
  /\ locked /\ ~disturbed =>
       /\ \A m \in Modules \ {flow.target} : firmware[m] = before[m]
       /\ flow.result = "OK" => firmware[flow.target] = flow.manifest

(* Every update ends, and with it the lock of the tab.                          *)
UpdateEnds == locked ~> ~locked

(* What the interface says of the last step (sc_core.h:419): the greeting at    *)
(* the end confirms that the new firmware is running.                           *)
ConfirmedIsNew ==
  [][At("hello") /\ flow'.result = "OK" => firmware[flow.target] = flow.manifest]_vars
================================================================================
