----------------------------- MODULE MCAdjustometer -----------------------------
(* Both models of the Adjustometer in one instance.  What core 0 measures and   *)
(* how core 1 copies it do not influence each other, so a behaviour runs either *)
(* the one or the other.                                                        *)
EXTENDS Adjustometer

CONSTANT Windows

ASSUME WindowsAssumption == Windows \in Nat

VARIABLES
  sequence, toStore, word, adjustometerPulse, edgesStopped,
  pc, attempt, before, toLoad, sample, status, copied,
  measures      \* which of the two this behaviour runs

Copy == INSTANCE AdjustometerSample WITH captureHealthy <- copied

copyVars == <<sequence, toStore, word, adjustometerPulse, edgesStopped,
              pc, attempt, before, toLoad, sample, status, copied>>
mcVars == <<vars, copyVars, measures>>

MCInit ==
  /\ Init /\ Copy!Init
  /\ \/ measures = TRUE /\ edgesStopped = FALSE
     \/ measures = FALSE /\ captureStarted = FALSE

Measure == measures /\ Next /\ UNCHANGED <<copyVars, measures>>
CopySample == ~measures /\ Copy!Next /\ UNCHANGED <<vars, measures>>

MCSpec == MCInit /\ [][Measure \/ CopySample]_mcVars /\ Fairness

SampleIsOneWindow == Copy!SampleIsOneWindow
================================================================================
