------------------------------ MODULE FaultMemory ------------------------------
(* What the diagnostic trouble code manager of the ECU promises about the set  *)
(* of codes it remembers, whatever its storage does.  A code exists in up to   *)
(* three places: `visible` is what a tester is told, `durable` is what the     *)
(* next start would recover from the flash, `buffered` is what the key-value   *)
(* store holds in RAM and has not necessarily committed.  `clearing` says that *)
(* a clear was requested and has not reached the flash yet.                    *)

CONSTANT Codes          \* the trouble codes of the registry

VARIABLES visible, buffered, durable, clearing

fmVars == <<visible, buffered, durable, clearing>>

FmInit ==
  /\ visible = {}
  /\ durable \in SUBSET Codes
  /\ buffered = durable
  /\ clearing = FALSE

(* Records move between the copies; none is invented, and without a queued     *)
(* clear none that is durable is lost.                                         *)
Move ==
  /\ buffered' \subseteq buffered \cup visible'
  /\ durable' \subseteq durable \cup buffered \cup visible'
  /\ ~clearing => durable \subseteq durable'

(* A fault is reported; it is visible at once and durable when storage allows. *)
Report ==
  /\ \E c \in Codes : visible' = visible \cup {c}
  /\ clearing' = clearing
  /\ Move

(* Persisted codes are read back; only a start that no clear has overtaken     *)
(* may do that.                                                                *)
Recall ==
  /\ ~clearing
  /\ visible \subseteq visible'
  /\ visible' \subseteq visible \cup durable
  /\ UNCHANGED <<buffered, durable, clearing>>

(* Storage work in the background that leaves a queued clear queued.           *)
Store ==
  /\ visible' = visible
  /\ clearing' = clearing
  /\ Move

(* The storage work that completes a queued clear: what stays are codes        *)
(* reported after it.                                                          *)
FinishClear ==
  /\ clearing
  /\ clearing' = FALSE
  /\ visible' = visible
  /\ durable' \subseteq visible
  /\ buffered' = durable'

(* A tester clears the codes.  Nothing is visible any more; TRUE is returned   *)
(* only when nothing is durable either.                                        *)
Clear ==
  /\ visible' = {}
  /\ durable' \subseteq durable \cup buffered
  /\ buffered' \subseteq buffered
  /\ \/ clearing' = TRUE
     \/ clearing' = FALSE /\ durable' = {} /\ buffered' = {}

(* Power loss, or a reset by the watchdog.                                     *)
Restart ==
  /\ visible' = {}
  /\ durable' = durable
  /\ buffered' = durable
  /\ clearing' = FALSE

FmNext == Report \/ Recall \/ Store \/ FinishClear \/ Clear \/ Restart

FmSpec == FmInit /\ [][FmNext]_fmVars

================================================================================
