--------------------------- MODULE AdjustometerSample ---------------------------
(* getAdjustometerFeedback on core 1 of the Adjustometer while core 0 captures: *)
(* the sequence around processAdjustometerFrequency, and the signal-loss state, *)
(* which changes outside of it.  A stored word is known by the number of the    *)
(* window it comes from (a baseline that did not change counts as stored        *)
(* again); every window is away from the baseline.                              *)
EXTENDS Integers

CONSTANT Windows   \* bound of the model

Attempts == 3
Words == {"raw", "filtered", "baseline", "measured"}

VARIABLES
  sequence,          \* adjustometerSampleSequence
  toStore, word, adjustometerPulse,
  captureHealthy,
  edgesStopped,      \* the last edge is longer ago than the loss timeout
  pc, attempt, before, toLoad,
  sample,            \* the sample under construction, then *out
  status             \* what the last call returned

writer == <<sequence, toStore, word, adjustometerPulse, captureHealthy, edgesStopped>>
reader == <<pc, attempt, before, toLoad, sample, status>>
vars == <<writer, reader>>

Odd(n) == n % 2 = 1
Number == (sequence + 1) \div 2
SignalLost == ~captureHealthy \/ edgesStopped

--------------------------------------------------------------------------------
(* Core 0                                                                       *)

(* A block: its edge time is stored before the window is processed, if any is.  *)
Edge ==
  /\ ~Odd(sequence) /\ edgesStopped
  /\ edgesStopped' = FALSE
  /\ UNCHANGED <<sequence, toStore, word, adjustometerPulse, captureHealthy, reader>>

BeginWindow ==
  /\ ~Odd(sequence) /\ ~edgesStopped /\ sequence < 2 * Windows
  /\ sequence' = sequence + 1
  /\ captureHealthy' = TRUE
  /\ toStore' = Words \cup {"pulse"}
  /\ UNCHANGED <<word, adjustometerPulse, edgesStopped, reader>>

StoreWord ==
  /\ \E w \in toStore :
       /\ toStore' = toStore \ {w}
       /\ IF w = "pulse"
          THEN adjustometerPulse' = Number /\ UNCHANGED word
          ELSE word' = [word EXCEPT ![w] = Number] /\ UNCHANGED adjustometerPulse
  /\ UNCHANGED <<sequence, captureHealthy, edgesStopped, reader>>

EndWindow ==
  /\ Odd(sequence) /\ toStore = {}
  /\ sequence' = sequence + 1
  /\ UNCHANGED <<toStore, word, adjustometerPulse, captureHealthy, edgesStopped, reader>>

Discard ==
  /\ ~Odd(sequence) /\ captureHealthy
  /\ captureHealthy' = FALSE
  /\ UNCHANGED <<sequence, toStore, word, adjustometerPulse, edgesStopped, reader>>

EdgesStop ==
  /\ ~edgesStopped /\ edgesStopped' = TRUE
  /\ UNCHANGED <<sequence, toStore, word, adjustometerPulse, captureHealthy, reader>>

--------------------------------------------------------------------------------
(* Core 1                                                                       *)

NoSample == [number |-> 0, words |-> [w \in Words |-> 0], pulse |-> 0, lost |-> TRUE]

Call ==
  /\ pc = "idle" /\ pc' = "begin" /\ attempt' = 1
  /\ sample' = NoSample /\ status' = "none"
  /\ UNCHANGED <<writer, before, toLoad>>

AttemptsLeft == attempt < Attempts
Continue ==
  IF AttemptsLeft
  THEN pc' = "begin" /\ attempt' = attempt + 1 /\ UNCHANGED status
  ELSE pc' = "idle" /\ attempt' = 0 /\ status' = "EAGAIN"

BeginCopy ==
  /\ pc = "begin"
  /\ IF Odd(sequence) THEN Continue /\ UNCHANGED <<before, toLoad, sample>>
     ELSE /\ pc' = "copy" /\ before' = sequence /\ toLoad' = Words
          /\ sample' = [sample EXCEPT !.number = sequence \div 2]
          /\ UNCHANGED <<attempt, status>>
  /\ UNCHANGED writer

(* The relaxed loads may pass the acquiring ones after them, up to the fence.    *)
LoadWord ==
  /\ pc \in {"copy", "status", "end"}
  /\ \E w \in toLoad :
       /\ sample' = [sample EXCEPT !.words[w] = word[w]]
       /\ toLoad' = toLoad \ {w}
  /\ UNCHANGED <<writer, pc, attempt, before, status>>

(* getAdjustometerPulses looks for a lost signal, and so does                   *)
(* getAdjustometerStatus after it.                                              *)
LoadPulse ==
  /\ pc = "copy" /\ pc' = "status"
  /\ sample' = [sample EXCEPT !.pulse = IF SignalLost THEN 0 ELSE adjustometerPulse]
  /\ UNCHANGED <<writer, attempt, before, toLoad, status>>

LoadStatus ==
  /\ pc = "status" /\ pc' = "end"
  /\ sample' = [sample EXCEPT !.lost = SignalLost]
  /\ UNCHANGED <<writer, attempt, before, toLoad, status>>

StillAssumed == TRUE   \* faulty variant: the sequence is loaded once
StillTheSame == sequence = before

EndCopy ==
  /\ pc = "end" /\ toLoad = {}
  /\ IF StillTheSame
     THEN pc' = "idle" /\ attempt' = 0 /\ status' = "OK"
     ELSE Continue
  /\ UNCHANGED <<writer, before, toLoad, sample>>

Init ==
  /\ sequence = 0 /\ toStore = {} /\ word = [w \in Words |-> 0]
  /\ adjustometerPulse = 0 /\ captureHealthy = FALSE /\ edgesStopped \in BOOLEAN
  /\ pc = "idle" /\ attempt = 0 /\ before = 0 /\ toLoad = {}
  /\ sample = NoSample /\ status = "none"

Next ==
  \/ Edge \/ BeginWindow \/ StoreWord \/ EndWindow \/ Discard \/ EdgesStop
  \/ Call \/ BeginCopy \/ LoadWord \/ LoadPulse \/ LoadStatus \/ EndCopy

Spec == Init /\ [][Next]_vars

--------------------------------------------------------------------------------
(* Properties                                                                   *)

TypeOK ==
  /\ sequence \in 0 .. 2 * Windows /\ toStore \subseteq Words \cup {"pulse"}
  /\ word \in [Words -> 0 .. Windows] /\ adjustometerPulse \in 0 .. Windows
  /\ captureHealthy \in BOOLEAN /\ edgesStopped \in BOOLEAN
  /\ pc \in {"idle", "begin", "copy", "status", "end"} /\ attempt \in 0 .. Attempts
  /\ before \in 0 .. 2 * Windows /\ toLoad \subseteq Words
  /\ sample \in [number : 0 .. Windows, words : [Words -> 0 .. Windows],
                 pulse : 0 .. Windows, lost : BOOLEAN]
  /\ status \in {"none", "OK", "EAGAIN"}

(* The frequencies, the baseline and the time of a sample belong to the window  *)
(* it is numbered by, and its pulse to that window or to a lost signal.         *)
SampleIsOneWindow ==
  /\ TypeOK
  /\ status = "OK" =>
       /\ sample.words = [w \in Words |-> sample.number]
       /\ sample.pulse \in {0, sample.number}
================================================================================
