------------------------------- MODULE EcuParams -------------------------------
(* The writable parameters of the ECU (config.c) and the handlers that change   *)
(* them for the serial configurator (sc_command_handlers.c).  Two parameters    *)
(* stand for the pairs the cross-field validation relates: the temperature that *)
(* starts a fan and the one that stops it.                                      *)
EXTENDS Naturals

CONSTANTS
  StartRange, StopRange,   \* the range each descriptor allows
  Defaults,                \* <<start, stop>> of a module without a stored set
  Stored0,                 \* what the store may hold at first: <<start, stop>> pairs
  Absent                   \* nothing is stored, or nothing that decodes

Param == {"start", "stop"}
InRange == [start |-> StartRange, stop |-> StopRange]
Settings == [start : StartRange, stop : StopRange]
Pair(d) == [start |-> d[1], stop |-> d[2]]

ASSUME RangesAssumption == StartRange \subseteq Nat /\ StopRange \subseteq Nat
ASSUME DefaultsAssumption ==
  /\ Defaults \in StartRange \X StopRange
  /\ Defaults[2] < Defaults[1]
ASSUME StoreAssumption ==
  Absent \notin Settings /\ Stored0 \subseteq StartRange \X StopRange

VARIABLES
  active,      \* s_active: what the fans and the heater are run by
  staging,     \* s_staging: what SC_SET_PARAM changes
  stored,      \* the blob in the key-value store
  loadPending, \* s_loadPending
  promoting    \* a commit has written the blob and not yet changed s_active

params == <<active, staging, stored, loadPending, promoting>>

(* ecuParamsValidate: the hysteresis must not be empty.                         *)
Valid(s) == s.stop < s.start

(* A blob that does not decode or does not validate counts as none at all.      *)
Usable == stored # Absent /\ Valid(stored)

Live == IF Usable THEN stored ELSE Pair(Defaults)

--------------------------------------------------------------------------------
(* ecuParamsInit and ecuParamsPoll: ok says whether the store answered.         *)

StartParams(ok) ==
  /\ active' = IF ok THEN Live ELSE Pair(Defaults)
  /\ staging' = active'
  /\ loadPending' = ~ok
  /\ promoting' = FALSE
  /\ UNCHANGED stored

PollLoad(ok) ==
  /\ loadPending
  /\ ~promoting
  /\ active' = IF ok /\ Usable THEN stored ELSE active
  /\ staging' = IF ok THEN active' ELSE staging
  /\ loadPending' = ~ok
  /\ UNCHANGED <<stored, promoting>>

--------------------------------------------------------------------------------
(* The handlers.  Each is a pair: what it answers, and what it does.            *)

SetAnswer(p, v) ==
  IF loadPending THEN "not_ready" ELSE IF v \in InRange[p] THEN "param_set" ELSE "bad_request"
SetParam(p, v) ==
  /\ staging' = IF SetAnswer(p, v) = "param_set" THEN [staging EXCEPT ![p] = v] ELSE staging
  /\ UNCHANGED <<active, stored, loadPending, promoting>>

CommitAnswer(ok) ==
  IF loadPending THEN "not_ready" ELSE IF Valid(staging) /\ ok THEN "committed" ELSE "commit_failed"

(* Faulty variant: the set becomes active before it is known to be stored.      *)
PersistAfterPromotion(ok) ==
  /\ active' = IF loadPending \/ ~Valid(staging) THEN active ELSE staging
  /\ stored' = IF CommitAnswer(ok) = "committed" THEN staging ELSE stored
  /\ promoting' = (CommitAnswer(ok) = "committed")
  /\ UNCHANGED <<staging, loadPending>>
(* ecuParamsPersist writes first; a reset may come before the promotion.        *)
Persist(ok) ==
  /\ stored' = IF CommitAnswer(ok) = "committed" THEN staging ELSE stored
  /\ promoting' = (CommitAnswer(ok) = "committed")
  /\ UNCHANGED <<active, staging, loadPending>>

Promote ==
  /\ promoting
  /\ active' = staging
  /\ promoting' = FALSE
  /\ UNCHANGED <<staging, stored, loadPending>>

RevertAnswer == IF loadPending THEN "not_ready" ELSE "reverted"
Revert ==
  /\ staging' = IF loadPending THEN staging ELSE active
  /\ UNCHANGED <<active, stored, loadPending, promoting>>

--------------------------------------------------------------------------------
ParamsInit ==
  /\ stored \in {Absent} \cup {Pair(d) : d \in Stored0}
  /\ active = Live
  /\ staging = active
  /\ loadPending = FALSE
  /\ promoting = FALSE

ParamsTypeOK ==
  /\ active \in Settings
  /\ staging \in Settings
  /\ stored \in Settings \cup {Absent}
  /\ loadPending \in BOOLEAN
  /\ promoting \in BOOLEAN
  /\ promoting => ~loadPending /\ stored = staging

(* The module always runs by a set that passes the cross-field validation, and  *)
(* once the store could be read it is the set the next start would load: a      *)
(* commit that failed, was refused or was cut off by a reset leaves the two     *)
(* together.                                                                    *)
ActiveIsStored ==
  /\ Valid(active)
  /\ ~loadPending /\ ~promoting => active = Live
================================================================================
