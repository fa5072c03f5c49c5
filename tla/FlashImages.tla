------------------------------ MODULE FlashImages ------------------------------
(* What the configurator updates: the modules on USB and the builds of their    *)
(* firmware.                                                                    *)
EXTENDS Naturals

CONSTANTS
  Modules,
  Builds,       \* the builds of a module's firmware, as numbers,
  PerVersion,   \* of which this many at most share a version
  Installed,    \* the builds the modules hold at first
  Broken,       \* what a copy that did not land leaves in a module
  MaxRebuilds, MaxHands   \* bounds on what happens outside the tool

None == "none"

ASSUME ImagesAssumption ==
  /\ Builds \subseteq Nat /\ Installed \subseteq Nat /\ PerVersion \in Nat \ {0}
  /\ Broken \notin Nat
  /\ None \notin Modules
  /\ MaxRebuilds \in Nat /\ MaxHands \in Nat

(* The version a module reports and a manifest states: HELLO and sc_core_flash  *)
(* compare no more of a build.                                                  *)
SameVersion(build, described) ==
  build # Broken /\ build \div PerVersion = described \div PerVersion
================================================================================
