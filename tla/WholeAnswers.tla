------------------------------ MODULE WholeAnswers ------------------------------
(* What the diagnostics over CAN promise a tester: every answer it takes for    *)
(* complete is one whole answer, part by part, to one of its requests, and no   *)
(* answer arrives after the answer to a later request, or twice.                *)
EXTENDS Naturals, Sequences

CONSTANT Frames   \* consecutive frames of a long answer

VARIABLES
  asked,     \* the kind of each request so far
  received   \* the parts of the answer the tester took last

Parts(kind) == IF kind = "long" THEN Frames + 1 ELSE 1
Answer(r) == [i \in 1..Parts(asked[r]) |-> [of |-> r, part |-> i]]
Last == IF received = <<>> THEN 0 ELSE received[1].of

Init == asked = <<>> /\ received = <<>>

Ask ==
  /\ \E kind \in {"short", "long"} : asked' = Append(asked, kind)
  /\ UNCHANGED received

Deliver ==
  /\ \E r \in Last + 1..Len(asked) : received' = Answer(r)
  /\ UNCHANGED asked

Spec == Init /\ [][Ask \/ Deliver]_<<asked, received>>
================================================================================
