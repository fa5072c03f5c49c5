------------------------------ MODULE Configurator ------------------------------
(* The Values tab of the serial configurator (sc_values_tab.c, sc_core.c) and   *)
(* its framed, retrying transport (sc_transport.c) against one ECU: the         *)
(* session the module keeps (JaszczurHAL, used through sc_command_handlers.c)   *)
(* and its parameters (EcuParams).  The serial link delivers in order but may   *)
(* lose a frame; the module may answer late and may be reset at any moment.     *)
EXTENDS EcuParams, Sequences

CONSTANTS
  MaxSeq,       \* the sequence numbers are 1..MaxSeq, 0xFFFF in the program
  HelloAttempts, Attempts,          \* SC_TRANSPORT_HELLO_ATTEMPTS, ..._SC_ATTEMPTS
  MaxDrawn,     \* the session ids and challenges are 1..MaxDrawn, 0 is none
  MaxClicks, MaxEdits,              \* bounds on what the operator does,
  MaxFaults     \* and on late answers, resets and failing accesses to the store

(* A command is sent again at most once: a third frame would carry the number   *)
(* of the second, and its answer could be taken for that of the next command.   *)
ASSUME AttemptsAssumption == Attempts <= 2

ASSUME BoundsAssumption ==
  /\ MaxSeq \in Nat \ {0} /\ MaxDrawn \in Nat \ {0}
  /\ HelloAttempts \in Nat \ {0} /\ Attempts \in Nat \ {0}
  /\ {MaxClicks, MaxEdits, MaxFaults} \subseteq Nat

VARIABLES
  rows,     \* the rows of the tab: the parameters that could be read
  edited,   \* the value each row's spinner shows
  applied,  \* row->applied_value
  op,       \* the call in progress
  result,   \* how the last click ended
  port,     \* the cached port: 0 when closed, else the next sequence number
  stale,    \* the cached port belongs to a module that was reset since
  toModule, toHost,          \* frames under way, oldest first
  session, authed, challenge,\* of the module; 0 is none
  accepted, \* rows whose value was answered PARAM_SET and not undone since
  count     \* what happened so far, for the bounds

host == <<rows, edited, applied, op, result>>
link == <<port, stale, toModule, toHost>>
auth == <<session, authed, challenge>>
cvars == <<params, host, link, auth, accepted, count>>

Idle == [kind |-> "idle"]
Used(what) == count' = [count EXCEPT ![what] = @ + 1]
FaultHappens == count.faults < MaxFaults /\ Used("faults")

(* A row is dirty when its spinner differs from the value applied last.         *)
Dirty == {p \in rows : edited[p] # applied[p]}

FirstOf(s) == IF "start" \in s THEN "start" ELSE "stop"

--------------------------------------------------------------------------------
(* What the operator does while no call is in progress: the calls run in the    *)
(* main thread, clicks wait.                                                    *)

Call(kind, todo) ==
  [kind |-> kind, step |-> IF kind = "bye" THEN "bye" ELSE "hello", todo |-> todo,
   phase |-> "command", attempt |-> 1, seq |-> 0, session |-> 0, challenge |-> 0]

Click(kind, todo) ==
  /\ op = Idle
  /\ count.clicks < MaxClicks
  /\ Used("clicks")
  /\ op' = Call(kind, todo)
  /\ result' = "none"
  /\ UNCHANGED <<params, rows, edited, applied, link, auth, accepted>>

Connected == rows # {}

Edit(p, v) ==
  /\ op = Idle
  /\ p \in rows
  /\ v # edited[p]
  /\ count.edits < MaxEdits
  /\ Used("edits")
  /\ edited' = [edited EXCEPT ![p] = v]
  /\ UNCHANGED <<params, rows, applied, op, result, link, auth, accepted>>

Operator ==
  \/ ~Connected /\ Click("detect", Param)
  \/ Connected /\ Click("bye", {})
  \/ Dirty # {} /\ Click("apply", Dirty)
  \/ Connected /\ Click("commit", {})
  \/ Connected /\ Click("revert", {})
  \/ \E p \in Param : \E v \in InRange[p] : Edit(p, v)

--------------------------------------------------------------------------------
(* The transport: one attempt at one exchange                                   *)

Waiting == op # Idle /\ op.seq # 0
NextSeq(s) == IF s = MaxSeq THEN 1 ELSE s + 1

Frame(seq, body) == [seq |-> seq, body |-> body]

Command ==
  IF op.phase = "rehello" THEN [name |-> "hello"]
  ELSE CASE op.step = "prove" ->
              [name |-> "prove", session |-> op.session, challenge |-> op.challenge]
         [] op.step = "set" ->
              [name |-> "set", p |-> FirstOf(op.todo), v |-> edited[FirstOf(op.todo)]]
         [] op.step = "read" -> [name |-> "read", p |-> FirstOf(op.todo)]
         [] OTHER -> [name |-> op.step]

(* Until a SET or a REVERT is answered its outcome is open.                     *)
Undone(c) == CASE c.name = "set" -> {c.p} [] c.name = "revert" -> Param [] OTHER -> {}

(* acquire_cached_port opens the port anew with sequence number 1; input that   *)
(* has arrived is flushed, what is still on its way is not.                     *)
Send(flushed) ==
  LET seq == IF port = 0 THEN 1 ELSE port
  IN /\ op # Idle /\ op.seq = 0
     /\ port = 0 \/ ~stale
     /\ port' = NextSeq(seq)
     /\ stale' = FALSE
     /\ toHost' = SubSeq(toHost, flushed + 1, Len(toHost))
     /\ toModule' = Append(toModule, Frame(seq, Command))
     /\ op' = [op EXCEPT !.seq = seq]
     /\ accepted' = accepted \ Undone(Command)
     /\ UNCHANGED <<params, rows, edited, applied, result, auth, count>>

AttemptsOf(step) == IF step = "hello" THEN HelloAttempts ELSE Attempts

(* The call ends without what was asked for.                                    *)
Failed ==
  /\ IF op.step = "read" /\ op.todo # {FirstOf(op.todo)}
       THEN op' = [op EXCEPT !.todo = @ \ {FirstOf(op.todo)}, !.seq = 0, !.attempt = 1,
                             !.phase = "command"]
       ELSE op' = Idle
  /\ result' = "failed"
  /\ rows' = IF op.step = "bye" THEN {} ELSE rows
  /\ accepted' = accepted \cap rows'
  /\ UNCHANGED <<edited, applied>>

AttemptFails ==
  /\ port' = 0
  /\ stale' = FALSE
  /\ IF op.attempt < AttemptsOf(op.step)
       THEN /\ op' = [op EXCEPT !.attempt = @ + 1, !.seq = 0, !.phase = "command"]
            /\ UNCHANGED <<rows, edited, applied, result, accepted>>
       ELSE Failed

(* The deadline passes with nothing under way any more, or with the answer late.*)
Timeout ==
  /\ Waiting
  /\ IF toModule = <<>> /\ toHost = <<>> /\ ~promoting
       THEN UNCHANGED count
       ELSE FaultHappens
  /\ AttemptFails
  /\ UNCHANGED <<params, toModule, toHost, auth>>

(* Writing to a port whose module was reset fails at once.                      *)
StalePort ==
  /\ op # Idle /\ op.seq = 0 /\ port # 0 /\ stale
  /\ AttemptFails
  /\ UNCHANGED <<params, toModule, toHost, auth, count>>

(* An answer lost while nobody waits is one that the next Send flushes.         *)
Lose ==
  /\ \/ toModule # <<>> /\ ~promoting /\ toModule' = Tail(toModule) /\ UNCHANGED toHost
     \/ Waiting /\ toHost # <<>> /\ toHost' = Tail(toHost) /\ UNCHANGED toModule
  /\ UNCHANGED <<params, host, port, stale, auth, accepted, count>>

(* read_framed_response_with_deadline drops the frames of other exchanges.      *)
SkipReply ==
  /\ Waiting
  /\ toHost # <<>>
  /\ Head(toHost).seq # op.seq
  /\ toHost' = Tail(toHost)
  /\ UNCHANGED <<params, host, port, stale, toModule, auth, accepted, count>>

--------------------------------------------------------------------------------
(* What sc_core and the tab make of an answer                                   *)

Proceed(step, todo) ==
  [op EXCEPT !.step = step, !.todo = todo, !.seq = 0, !.attempt = 1, !.phase = "command"]

Done(how) == op' = Idle /\ result' = how

Act == [apply |-> "set", commit |-> "commit", revert |-> "revert"]

HelloAnswered(r) ==
  /\ op.step = "hello"
  /\ op' = IF op.kind = "detect" THEN Proceed("read", op.todo)
           ELSE [Proceed("begin", op.todo) EXCEPT !.session = r.session]
  /\ UNCHANGED <<rows, edited, applied, result, accepted>>

BeginAnswered(r) ==
  /\ op.step = "begin"
  /\ op' = [Proceed("prove", op.todo) EXCEPT !.challenge = r.challenge]
  /\ UNCHANGED <<rows, edited, applied, result, accepted>>

ProveAnswered ==
  /\ op.step = "prove"
  /\ op' = [Proceed(Act[op.kind], op.todo) EXCEPT !.session = 0, !.challenge = 0]
  /\ UNCHANGED <<rows, edited, applied, result, accepted>>

SetAnswered ==
  /\ op.step = "set"
  /\ LET p == FirstOf(op.todo)
     IN /\ applied' = [applied EXCEPT ![p] = edited[p]]
        /\ accepted' = accepted \cup {p}
        /\ IF op.todo = {p} THEN Done("staged")
           ELSE op' = Proceed("set", op.todo \ {p}) /\ UNCHANGED result
  /\ UNCHANGED <<rows, edited>>

CommitAnswered ==
  /\ op.step = "commit"
  /\ Done("committed")
  /\ UNCHANGED <<rows, edited, applied, accepted>>

RevertAnswered ==
  /\ op.step = "revert"
  /\ edited' = applied
  /\ accepted' = {}
  /\ Done("reverted")
  /\ UNCHANGED <<rows, applied>>

(* A row is named by the answer and starts from the active value; a parameter   *)
(* whose read fails gets no row.                                                *)
ReadAnswered(r) ==
  /\ op.step = "read"
  /\ rows' = rows \cup {r.p}
  /\ edited' = [edited EXCEPT ![r.p] = r.value]
  /\ applied' = [applied EXCEPT ![r.p] = r.value]
  /\ accepted' = accepted \ {r.p}
  /\ IF op.todo = {FirstOf(op.todo)} THEN Done("detected")
     ELSE op' = Proceed("read", op.todo \ {FirstOf(op.todo)}) /\ UNCHANGED result

ByeAnswered ==
  /\ op.step = "bye"
  /\ rows' = {} /\ accepted' = {}
  /\ Done("disconnected")
  /\ UNCHANGED <<edited, applied>>

Understood(r) ==
  \/ HelloAnswered(r) \/ BeginAnswered(r) \/ ProveAnswered \/ SetAnswered
  \/ CommitAnswered \/ RevertAnswered \/ ReadAnswered(r) \/ ByeAnswered

(* An answer is recognised by its prefix.                                       *)
Expected ==
  [hello |-> "hello_ok", begin |-> "challenge", prove |-> "auth_ok", set |-> "param_set",
   commit |-> "committed", revert |-> "reverted", read |-> "value"]

(* Faulty variants: any answer to SC_SET_PARAM counts as success; a commit that *)
(* was refused is taken for one that was made.                                  *)
RecognisedUnlessSet(r) == op.step \in {"bye", "set"} \/ r.name = Expected[op.step]
RecognisedOrRefused(r) ==
  op.step = "bye" \/ r.name \in {Expected[op.step]} \cup (IF op.step = "commit" THEN {"commit_failed"} ELSE {})
Recognised(r) == op.step = "bye" \/ r.name = Expected[op.step]

(* A module that forgot the session is greeted again on the same port and the   *)
(* command is repeated; any answer to the repetition is final.                  *)
Forgotten(r) == op.phase = "command" /\ op.step # "hello" /\ r.name = "hello_required"
Greeted(r) == op.phase = "rehello" /\ r.name = "hello_ok"

Reply(r) ==
  CASE Forgotten(r) \/ Greeted(r) ->
         /\ op' = [op EXCEPT !.phase = IF @ = "command" THEN "rehello" ELSE "repeat", !.seq = 0]
         /\ UNCHANGED <<rows, edited, applied, result, accepted, port, stale>>
    [] op.phase = "rehello" /\ ~Greeted(r) -> AttemptFails
    [] OTHER -> (IF Recognised(r) THEN Understood(r) ELSE Failed) /\ UNCHANGED <<port, stale>>

Receive ==
  /\ Waiting
  /\ toHost # <<>>
  /\ Head(toHost).seq = op.seq
  /\ toHost' = Tail(toHost)
  /\ Reply(Head(toHost).body)
  /\ UNCHANGED <<params, toModule, auth, count>>
--------------------------------------------------------------------------------
(* The module: hal_serial_session and hal_serial_commands (external) take one   *)
(* frame at a time; a handler answers and returns before the next is looked at. *)

(* Session ids and challenges are random: a new one is none that is still known *)
(* to the module, to the host or to a frame under way.                          *)
Carried(r) ==
  {0} \cup {r[f] : f \in {"session", "challenge"} \cap DOMAIN r}
CarriedBy(frames) == UNION {Carried(frames[i].body) : i \in DOMAIN frames}
Known ==
  {session, challenge} \cup Carried(op) \cup CarriedBy(toModule) \cup CarriedBy(toHost)
Fresh == CHOOSE n \in 1..MaxDrawn : n \notin Known
(* MaxDrawn is a bound: nothing is drawn once all of them are known.            *)
Drawable(c) == c.name \in {"hello", "begin"} => \E n \in 1..MaxDrawn : n \notin Known

Writes == {"set", "commit", "revert"}

NoSession(c) == session = 0 /\ c.name \notin {"hello", "bye"}
Refused(c) == c.name \in Writes /\ ~authed
Proved(c) == challenge # 0 /\ c.challenge = challenge /\ c.session = session

Answer(c, ok) ==
  IF NoSession(c) THEN [name |-> "hello_required"]
  ELSE IF Refused(c) THEN [name |-> "not_authorized"]
  ELSE CASE c.name = "hello" -> [name |-> "hello_ok", session |-> session']
         [] c.name = "begin" -> [name |-> "challenge", challenge |-> challenge']
         [] c.name = "prove" -> [name |-> IF Proved(c) THEN "auth_ok" ELSE "auth_failed"]
         [] c.name = "bye" -> [name |-> "bye_ok"]
         [] c.name = "read" -> [name |-> "value", p |-> c.p, value |-> active[c.p]]
         [] c.name = "set" -> [name |-> SetAnswer(c.p, c.v)]
         [] c.name = "commit" -> [name |-> CommitAnswer(ok)]
         [] c.name = "revert" -> [name |-> RevertAnswer]

(* A HELLO starts a new session, a challenge works once, a BYE ends the session.*)
Session(c) ==
  IF NoSession(c) THEN UNCHANGED auth
  ELSE CASE c.name = "hello" ->
              session' = Fresh /\ authed' = FALSE /\ challenge' = 0
         [] c.name = "begin" -> challenge' = Fresh /\ UNCHANGED <<session, authed>>
         [] c.name = "prove" -> authed' = Proved(c) /\ challenge' = 0 /\ UNCHANGED session
         [] c.name = "bye" -> session' = 0 /\ authed' = FALSE /\ challenge' = 0
         [] OTHER -> UNCHANGED auth

Parameters(c, ok) ==
  IF NoSession(c) \/ Refused(c) THEN UNCHANGED params
  ELSE CASE c.name = "set" -> SetParam(c.p, c.v)
         [] c.name = "commit" -> Persist(ok)
         [] c.name = "revert" -> Revert
         [] OTHER -> UNCHANGED params

Reachable(ok) ==
  IF ok THEN UNCHANGED count ELSE FaultHappens

(* Only a commit reaches the store; it is answered when the set is active.      *)
Handle(ok) ==
  /\ ~promoting
  /\ toModule # <<>>
  /\ LET c == Head(toModule).body
     IN /\ ok \/ c.name = "commit"
        /\ Drawable(c)
        /\ Reachable(ok)
        /\ Session(c)
        /\ Parameters(c, ok)
        /\ IF promoting'
             THEN UNCHANGED <<toModule, toHost>>
             ELSE /\ toModule' = Tail(toModule)
                  /\ toHost' = Append(toHost, [Head(toModule) EXCEPT !.body = Answer(c, ok)])
  /\ UNCHANGED <<host, port, stale, accepted>>

FinishCommit ==
  /\ Promote
  /\ toModule' = Tail(toModule)
  /\ toHost' = Append(toHost, [Head(toModule) EXCEPT !.body = [name |-> "committed"]])
  /\ UNCHANGED <<host, port, stale, auth, accepted, count>>

Poll(ok) ==
  /\ PollLoad(ok)
  /\ Reachable(ok)
  /\ UNCHANGED <<host, link, auth, accepted>>

(* A reset: what was under way is lost, and the port of the host with it.       *)
Restart(ok) ==
  /\ FaultHappens
  /\ StartParams(ok)
  /\ session' = 0 /\ authed' = FALSE /\ challenge' = 0
  /\ toModule' = <<>> /\ toHost' = <<>>
  /\ stale' = (port # 0)
  /\ accepted' = {}
  /\ UNCHANGED <<host, port>>

--------------------------------------------------------------------------------
Init ==
  /\ ParamsInit
  /\ rows = {}
  /\ edited = Pair(Defaults) /\ applied = Pair(Defaults)
  /\ op = Idle /\ result = "none"
  /\ port = 0 /\ stale = FALSE
  /\ toModule = <<>> /\ toHost = <<>>
  /\ session = 0 /\ authed = FALSE /\ challenge = 0
  /\ accepted = {}
  /\ count = [clicks |-> 0, edits |-> 0, faults |-> 0]

Host == Receive \/ SkipReply \/ Timeout \/ StalePort \/ \E n \in 0..Len(toHost) : Send(n)
Module == \E ok \in BOOLEAN : Handle(ok) \/ Poll(ok)

Next ==
  \/ Operator \/ Host \/ Module \/ FinishCommit \/ Lose
  \/ \E ok \in BOOLEAN : Restart(ok)

Spec == Init /\ [][Next]_cvars

(* As long as the number does not come back to 1 while the port stays open.     *)
UnwrappedSpec == Init /\ [][Next /\ port' # 1]_cvars

--------------------------------------------------------------------------------
CTypeOK ==
  /\ ParamsTypeOK
  /\ rows \subseteq Param /\ accepted \subseteq rows
  /\ edited \in Settings /\ applied \in Settings
  /\ port \in 0..MaxSeq
  /\ Len(toModule) + Len(toHost) <= MaxFaults + 1
  /\ authed => session # 0 /\ challenge = 0
  /\ op = Idle \/ op.step \in DOMAIN Expected \cup {"bye"}

(* What the tab reports as done has been done by the module, whatever was lost, *)
(* late or repeated on the way.  A row that was answered PARAM_SET and that     *)
(* nothing undid since (a reset, a revert, a fresh read) is staged with exactly *)
(* that value: no late SC_SET_PARAM of an earlier attempt changes it, and no    *)
(* answer to something else was taken for it.  After a commit that succeeded,   *)
(* every value accepted before it is active and stored.                         *)
ReportedIsDone ==
  /\ CTypeOK
  /\ \A p \in accepted : staging[p] = applied[p]
  /\ result = "committed" =>
       \A p \in accepted : Usable /\ stored[p] = applied[p] /\ active[p] = applied[p]
================================================================================
