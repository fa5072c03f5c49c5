------------------------------ MODULE ObdTransport ------------------------------
(* Diagnostic answers over CAN (ISO-TP): the sender of obd-2.c, one pass of     *)
(* obdLoop at a time, its receive buffers, and a tester that may answer late,   *)
(* ask the sender to wait, refuse, give up, or ask again at any moment.  Sends  *)
(* fail at will, also when the frame went out.  A frame stands for the bytes it *)
(* carries: the first one for part 1 of an answer, the n-th consecutive one for *)
(* part n + 1.                                                                  *)
EXTENDS Integers, Sequences, FiniteSetsExt

CONSTANTS
  Frames,       \* consecutive frames of a long answer
  Wrap,         \* the index counts modulo this; 16 in the code
  Buffers,      \* receive buffers of the CAN controller
  Blocks,       \* block sizes a tester may ask for; 0 is no limit
  MaxRequests,  \* bounds on what the tester does; the code honours WAITs
  MaxWaits      \* without limit, each with a new time-out (obd-2.c:435)

ASSUME ObdAssumption ==
  /\ Frames \in Nat \ {0} /\ Wrap \in Nat \ {0, 1} /\ Buffers \in Nat \ {0}
  /\ Blocks \subseteq Nat /\ MaxRequests \in Nat /\ MaxWaits \in Nat

VARIABLES
  tp,      \* s_obdState.isoTpState
  rx,      \* the frames received and not yet read
  tester,  \* what the tester waits for and has assembled
  asked,   \* the kinds of its requests, numbered in order
  waits    \* times it asked the sender to wait

vars == <<tp, rx, tester, asked, waits>>

Unlimited == -1

TransferType ==
  [state : {"idle", "wait", "send"},
   of : 0..MaxRequests,              \* the request answered
   offset : 2..Frames + 2,           \* the next part
   index : 0..Wrap - 1,
   blockSize : {0} \cup Blocks, blockSent : Nat,
   stMin : BOOLEAN,                  \* frames must be apart
   resting : BOOLEAN,                \* and the last one was sent too recently
   late : BOOLEAN]                   \* the time-out of the state has passed

Request(r) == [type |-> "request", of |-> r]
FlowControl(type, size, apart) == [type |-> type, size |-> size, apart |-> apart]
Single(r) == [type |-> "single", of |-> r, part |-> 1]
First(r) == [type |-> "first", of |-> r, part |-> 1]
Consecutive(t) == [type |-> "next", of |-> t.of, part |-> t.offset, index |-> t.index]

--------------------------------------------------------------------------------
(* The tester                                                                   *)

Quit(t) ==
  [t EXCEPT !.awaits = 0, !.parts = <<>>, !.next = 0, !.left = 0, !.owes = FALSE]

Less(n) == IF n \in {0, Unlimited} THEN n ELSE n - 1
More(n, size) == IF Unlimited \in {n, size} THEN Unlimited ELSE n + size

(* It knows an answer to another service from the one it awaits, but not one    *)
(* of two answers of the same service from the other.                           *)
Awaited(t, f) == t.awaits # 0 /\ asked[f.of] = asked[t.awaits]

Part(f) == [of |-> f.of, part |-> f.part]

Take(t, f) ==
  LET parts == Append(t.parts, Part(f))
  IN IF Len(parts) = Frames + 1
       THEN Quit([t EXCEPT !.received = parts])
       ELSE [t EXCEPT !.parts = parts, !.next = (@ + 1) % Wrap, !.left = Less(@),
                      !.granted = Less(@), !.owes = @ \/ t.left = 1]

(* What it makes of a frame.  A consecutive frame out of order ends the         *)
(* reception, a first frame begins another one.                                 *)
Hear(t, f) ==
  CASE f.type = "single" /\ Awaited(t, f) -> Quit([t EXCEPT !.received = <<Part(f)>>])
    [] f.type = "first" /\ Awaited(t, f) ->
         [t EXCEPT !.parts = <<Part(f)>>, !.next = 1, !.left = 0, !.owes = TRUE]
    [] f.type = "next" /\ t.parts # <<>> -> IF f.index = t.next THEN Take(t, f) ELSE Quit(t)
    [] OTHER -> t

Arrives(f) == rx' = IF Len(rx) < Buffers THEN Append(rx, f) ELSE rx

Ask(kind) ==
  /\ tester.awaits = 0 /\ Len(asked) < MaxRequests
  /\ asked' = Append(asked, kind)
  /\ tester' = [tester EXCEPT !.awaits = Len(asked')]
  /\ Arrives(Request(Len(asked')))
  /\ UNCHANGED <<tp, waits>>

Continue(size, apart) ==
  /\ tester.owes
  /\ tester' = [tester EXCEPT !.owes = FALSE, !.left = More(0, size), !.granted = More(@, size)]
  /\ Arrives(FlowControl("continue", IF size = Unlimited THEN 0 ELSE size, apart))
  /\ UNCHANGED <<tp, asked, waits>>

Wait ==
  /\ tester.owes /\ waits < MaxWaits
  /\ waits' = waits + 1
  /\ Arrives(FlowControl("wait", 0, FALSE))
  /\ UNCHANGED <<tp, tester, asked>>

Overflow ==
  /\ tester.owes
  /\ tester' = Quit(tester)
  /\ Arrives(FlowControl("abort", 0, FALSE))
  /\ UNCHANGED <<tp, asked, waits>>

GiveUp ==
  /\ tester.awaits # 0
  /\ tester' = Quit(tester)
  /\ UNCHANGED <<tp, rx, asked, waits>>

--------------------------------------------------------------------------------
(* The sender.  Each part of a pass maps what it finds, s, to the possible      *)
(* outcomes.                                                                    *)

(* hal_can_send: it succeeds, it fails, or it fails and the frame goes out.     *)
Sends(s, f) ==
  {[s |-> [s EXCEPT !.tester = Hear(@, f)], ok |-> TRUE],
   [s |-> [s EXCEPT !.tester = Hear(@, f)], ok |-> FALSE],
   [s |-> s, ok |-> FALSE]}

Begun(t, r) ==
  [state |-> "wait", of |-> r, offset |-> 2, index |-> 1, blockSize |-> 0,
   blockSent |-> 0, stMin |-> FALSE, resting |-> FALSE, late |-> FALSE]

(* obdReqWithDlc and obdTransportSendPayload                                    *)
Reply(s, r) ==
  IF asked[r] = "short" THEN {x.s : x \in Sends(s, Single(r))}
  ELSE {IF x.ok THEN [x.s EXCEPT !.tp = Begun(@, r)] ELSE x.s : x \in Sends(s, First(r))}

(* The rest of obdLoop: with nothing under way, one frame is read, unless the   *)
(* read fails.                                                                  *)
Receive(s) ==
  IF s.tp.state # "idle" \/ s.rx = <<>> THEN {s}
  ELSE LET f == Head(s.rx)
           read == [s EXCEPT !.rx = Tail(@)]
       IN {s} \cup IF f.type = "request" THEN Reply(read, f.of) ELSE {read}

Stopped(t) == [t EXCEPT !.state = "idle"]

(* The drain stops at a flow control; what comes before it is lost.  A failing  *)
(* read, or a frame that arrives later, ends the drain after n frames.          *)
IsControl(f) == f.type \in {"continue", "wait", "abort"}

Granted(t, f) ==
  [t EXCEPT !.state = "send", !.blockSize = f.size, !.blockSent = 0, !.stMin = f.apart,
            !.resting = FALSE, !.late = FALSE]

Obey(t, f) ==
  CASE f.type = "continue" -> Granted(t, f)
    [] f.type = "wait" -> [t EXCEPT !.late = FALSE]
    [] OTHER -> Stopped(t)

Drained(s, n) ==
  LET controls == {i \in 1..n : IsControl(s.rx[i])}
      stop == IF controls = {} THEN n ELSE Min(controls)
      read == [s EXCEPT !.rx = SubSeq(@, stop + 1, Len(@))]
  IN IF controls = {} THEN read ELSE [read EXCEPT !.tp = Obey(@, s.rx[stop])]

(* Faulty variant: a flow control window is waited for without an end.          *)
WaitForEver(s) == {Drained(s, n) : n \in 0..Len(s.rx)}
AwaitControl(s) ==
  IF s.tp.late THEN {[s EXCEPT !.tp = Stopped(@)]}
  ELSE {Drained(s, n) : n \in 0..Len(s.rx)}

(* Faulty variant: one frame more than the block.                               *)
BlockDoneLate(t) == t.blockSize # 0 /\ t.blockSent > t.blockSize
BlockDone(t) == t.blockSize # 0 /\ t.blockSent >= t.blockSize

(* After a consecutive frame that was sent.                                     *)
Advanced(t) ==
  LET a == [t EXCEPT !.offset = @ + 1, !.index = (@ + 1) % Wrap, !.resting = t.stMin,
                     !.late = FALSE, !.blockSent = IF t.blockSize = 0 THEN @ ELSE @ + 1]
  IN CASE a.offset > Frames + 1 -> Stopped(a)
       [] a.offset <= Frames + 1 /\ BlockDone(a) -> [a EXCEPT !.state = "wait", !.blockSent = 0]
       [] OTHER -> a

(* Faulty variant: the index counts the attempt, not the frame.                 *)
AfterFailureCounting(t) == IF t.late THEN Stopped(t) ELSE [t EXCEPT !.index = (@ + 1) % Wrap]
AfterFailure(t) == IF t.late THEN Stopped(t) ELSE t

SendConsecutive(s) ==
  IF s.tp.resting THEN {s}
  ELSE {[x.s EXCEPT !.tp = IF x.ok THEN Advanced(@) ELSE AfterFailure(@)] :
          x \in Sends(s, Consecutive(s.tp))}

(* iso_tp_process                                                               *)
Process(s) ==
  CASE s.tp.state = "idle" -> {s}
    [] s.tp.state = "wait" -> AwaitControl(s)
    [] s.tp.state = "send" -> SendConsecutive(s)

Pass ==
  /\ \E s \in Process([tp |-> tp, rx |-> rx, tester |-> tester]) : \E d \in Receive(s) :
       tp' = d.tp /\ rx' = d.rx /\ tester' = d.tester
  /\ UNCHANGED <<asked, waits>>

(* ISO_TP_FC_TIMEOUT_MS or ISO_TP_TX_RETRY_TIMEOUT_MS since the last progress,  *)
(* and the separation of the frames.                                            *)
TimeOut ==
  /\ tp.state # "idle" /\ ~tp.late
  /\ tp' = [tp EXCEPT !.late = TRUE]
  /\ UNCHANGED <<rx, tester, asked, waits>>

Rested ==
  /\ tp.resting
  /\ tp' = [tp EXCEPT !.resting = FALSE]
  /\ UNCHANGED <<rx, tester, asked, waits>>

--------------------------------------------------------------------------------
Init ==
  /\ tp = [state |-> "idle", of |-> 0, offset |-> 2, index |-> 0, blockSize |-> 0,
           blockSent |-> 0, stMin |-> FALSE, resting |-> FALSE, late |-> FALSE]
  /\ rx = <<>> /\ asked = <<>> /\ waits = 0
  /\ tester = [awaits |-> 0, parts |-> <<>>, next |-> 0, left |-> 0, owes |-> FALSE,
               granted |-> 0, received |-> <<>>]

Next ==
  \/ \E kind \in {"short", "long"} : Ask(kind)
  \/ \E size \in {IF b = 0 THEN Unlimited ELSE b : b \in Blocks}, apart \in BOOLEAN : Continue(size, apart)
  \/ Wait \/ Overflow \/ GiveUp
  \/ Pass \/ TimeOut \/ Rested

(* obdLoop is called in every pass of core 0, and time passes.                  *)
Fairness == WF_vars(Pass) /\ WF_vars(TimeOut) /\ WF_vars(Rested)

Spec == Init /\ [][Next]_vars /\ Fairness

--------------------------------------------------------------------------------
(* The transfer, the receive buffers and the tester have their types, and the   *)
(* index always belongs to the part that is sent next.                          *)
OTypeOK ==
  /\ tp \in TransferType
  /\ tp.state # "idle" => tp.offset <= Frames + 1 /\ tp.index = (tp.offset - 1) % Wrap
  /\ Len(rx) <= Buffers
  /\ Len(tester.parts) <= Frames /\ tester.awaits \in 0..Len(asked)

(* Through lost flow control, repeated frames, requests that overtake an        *)
(* unfinished answer and abandoned transfers, an answer the tester takes for    *)
(* complete is one whole answer, and answers keep the order of the requests.    *)
Delivery == INSTANCE WholeAnswers WITH received <- tester.received
AnswersAreWhole == Delivery!Spec

(* The tester never takes more frames than its flow controls allowed so far:    *)
(* one that comes late may be obeyed for a later answer, but only once.         *)
WithinGrant ==
  []OTypeOK /\
  [][/\ tester.parts # <<>>
     /\ Len(tester'.parts) > Len(tester.parts) \/ tester'.received # tester.received
     => tester.granted # 0]_vars

(* An answer under way ends, when the tester asks for patience finitely often:  *)
(* sent, refused, or timed out; the requests it blocks meanwhile are not        *)
(* blocked for ever.                                                            *)
TransferEnds == tp.state # "idle" ~> tp.state = "idle"
================================================================================
