------------------------------ MODULE MCBenchTests ------------------------------
(* The constants of the runs of BenchTests that a .cfg cannot write, and its    *)
(* fairness confined to where a test runs without supervision: UnsupervisedStops *)
(* needs no other, and the loops run for ever anyway.                           *)
EXTENDS BenchTests

TwoSteps == <<2, 1>>

Unsupervised == ScRuns /\ (quiet \/ ~open)

MCSpec ==
  /\ Init /\ [][Next]_vars
  /\ WF_vars(Unsupervised /\ Core1) /\ WF_vars(Unsupervised /\ Core0)
  /\ WF_vars(Unsupervised /\ HoldElapses) /\ WF_vars(Unsupervised /\ ~open /\ GoesQuiet)
================================================================================
