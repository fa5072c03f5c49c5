----------------------------- MODULE MCConfigurator -----------------------------
(* The Values tab and the Flash tab of the serial configurator in one instance. *)
(* A behaviour runs either the one or the other: the tabs share nothing but the *)
(* connection to the modules.                                                   *)
EXTENDS Configurator, FlashImages

DefaultPair == <<3, 2>>
StoredPairs == {<<3, 1>>, <<2, 2>>}

VARIABLES
  firmware, mode, uf2, manifest, detected, detecting, locked, flow,
  disturbed, before, done,
  flashing      \* which of the two this behaviour runs

Flash == INSTANCE FlashUpdate WITH count <- done

flashVars == <<firmware, mode, uf2, manifest, detected, detecting, locked, flow,
               disturbed, before, done>>

(* Each module starts with an image of its own; the tab that does not run keeps *)
(* one initial state.  The parameters start from a stored set that validates or *)
(* from one that does not, which Usable treats like an absent one.              *)
Images == CHOOSE f \in [Modules -> Builds] : \A m, n \in Modules : f[m] = f[n] => m = n
MCInit ==
  /\ Init /\ Flash!Init
  /\ uf2 = Images
  /\ flashing \in BOOLEAN /\ (flashing <=> stored = Absent)

Values == ~flashing /\ Next /\ UNCHANGED <<flashVars, flashing>>
Update == flashing /\ Flash!Next /\ UNCHANGED <<cvars, flashing>>
MCSpec == MCInit /\ [][Values \/ Update]_<<cvars, flashVars, flashing>> /\ Flash!Fairness

UndisturbedIsExact == Flash!UndisturbedIsExact
UpdateEnds == Flash!UpdateEnds
================================================================================
