------------------------------- MODULE BenchTests -------------------------------
(* The bench tests of the ECU (tests.c, tests_helpers.c, tests_workers.c).      *)
(* Core 1 starts, steps, supervises and stops them, one tick of tickTests at a  *)
(* time.  Core 0 brings the requests of the configurator's session and of the   *)
(* console, runs the fixtures that touch the storage, and prints the            *)
(* announcements a step of the staircase waits for.  The two share one queued   *)
(* request, one queued line, a flag, and words under sequence locks.            *)
EXTENDS Naturals, Sequences, FiniteSetsExt

CONSTANTS
  Attempts,     \* ECU_SEQLOCK_READ_ATTEMPTS
  Setpoints,    \* the demands of the staircase, in order
  Named,        \* the tests asked for by name; the others come in sequences
  Driver,       \* what the driver's pedal may ask for
  MaxCommands   \* bound on requests and lines

ASSUME TestsAssumption ==
  /\ Named \subseteq {"kv", "cyclic", "top"}
  /\ Attempts \in Nat \ {0} /\ Setpoints \in Seq(Nat) /\ Setpoints # <<>>
  /\ Driver \subseteq Nat /\ MaxCommands \in Nat

(* testsSuite: a fixture, a test that moves the actuator until it ends, and one *)
(* that announces its steps; the others are variants of these.                  *)
Suite == <<"kv", "cyclic", "top">>
Test == {Suite[i] : i \in DOMAIN Suite}
None == "none"
Fixture == {"kv"}
Drives == {"cyclic", "top"}
Sequenced == {"kv", "cyclic", "top"}
ScSupported == {"cyclic", "top"}

Nothing == [kind |-> "none"]

VARIABLES
  (* core 1 *)
  pc1,        \* the part of tickTests it comes to next
  run,        \* the runner: see RunType
  writing,    \* within ecuSeqlockWriteBegin .. End of the fixture
  (* shared *)
  scRequest,  \* s_scRequest, s_scRequestTest, and the session that asked
  line,       \* s_command
  ended,      \* s_scSessionEnded
  quiet,      \* the last contact is ECU_SC_TESTS_KEEPALIVE_MS ago
  fixture,    \* s_fixtureLock.sequence and s_fixtureEntry
  completed,  \* s_fixtureCompleted
  printed,    \* s_stepEventPrintedSeq
  (* core 0 *)
  pc0,
  got,        \* what it has read, or the request it is about to queue
  open,       \* the session is active
  ran, runs,  \* the publication whose fixture ran last, and how many ran
  shown,      \* the announcement printed last
  commands    \* requests and lines so far

core1 == <<pc1, run, writing>>
shared == <<scRequest, line, ended, quiet, fixture, completed, printed>>
core0 == <<pc0, got, open, ran, runs, shown, commands>>
vars == <<core1, shared, core0>>

--------------------------------------------------------------------------------
(* The runner, as operations on its record                                      *)

Demand == {0, 1} \cup Driver \cup {Setpoints[i] : i \in DOMAIN Setpoints}

(* A request belongs to the session it came in, which may have ended since.     *)
Asked == {"console", "session", "ended session"}

RunType ==
  [active : Test \cup {None},           \* s_active
   source : {"console", "sc"},          \* s_activeSource
   asked : Asked,                       \* who asked for it
   sequence : BOOLEAN, scOnly : BOOLEAN, index : Nat,   \* s_sequence...
   demand : Demand,                     \* what the drive was last asked for
   applied : Demand,                    \* s_appliedDemand
   holding : {"no", "yes", "long"},     \* s_holdingDemand, and for 50 ms
   step : DOMAIN Setpoints,             \* of the staircase
   event : [sequence : Nat, value : Demand],  \* the announcement recorded last
   publish : Seq(Fixture \cup {None}),  \* entries it still has to publish
   requested : Nat,                     \* fixtures started so far
   result : {"none", "stopped", "done", "ok", "session_end", "host_lost", "engine_running"}]

InSequence(t, scOnly) == t \in Sequenced /\ (scOnly => t \in ScSupported)

Announce(r, i) ==
  [r EXCEPT !.step = i, !.event = [sequence |-> @.sequence + 1, value |-> Setpoints[i]]]

(* activate: the demand in force is the reference of the first step.            *)
Activate(r, t, source, asked) ==
  LET a == [r EXCEPT !.active = t, !.source = source, !.asked = asked,
                     !.applied = r.demand, !.holding = "no"]
  IN CASE t = "top" -> Announce(a, 1)
       [] t \in Fixture -> [a EXCEPT !.publish = Append(@, t), !.requested = @ + 1]
       [] OTHER -> a

(* deactivate: a test that drove the actuator leaves it at zero.                *)
Deactivate(r, result) ==
  LET d == [r EXCEPT !.active = None, !.asked = "console", !.step = 1, !.result = result,
                     !.publish = Append(@, None)]
  IN CASE r.active = None -> r
       [] r.active \in Drives -> [d EXCEPT !.demand = 0, !.applied = 0, !.holding = "no"]
       [] OTHER -> d

(* Where a sequence stood when it ended is not looked at again.                 *)
EndSequence(r) == [r EXCEPT !.sequence = FALSE, !.scOnly = FALSE, !.index = 0]

AdvanceSequence(r, source, asked) ==
  LET left == {i \in r.index..Len(Suite) : InSequence(Suite[i], r.scOnly)}
  IN IF left = {} THEN EndSequence(r)
     ELSE Activate([r EXCEPT !.index = Min(left) + 1], Suite[Min(left)], source, asked)

BeginSequence(r, scOnly, source, asked) ==
  LET d == Deactivate(r, "stopped")
  IN AdvanceSequence([d EXCEPT !.index = 1, !.sequence = TRUE, !.scOnly = scOnly], source, asked)

BeginTest(r, t, source, asked) ==
  LET d == IF r.active = t THEN r ELSE Deactivate(r, "stopped")
  IN Activate(EndSequence(d), t, source, asked)

StopAll(r, result) == EndSequence(Deactivate(r, result))

SkipOne(r) ==
  LET d == Deactivate(r, "stopped")
  IN IF r.sequence THEN AdvanceSequence(d, r.source, r.asked) ELSE d

(* applyScRequest and dispatch                                                  *)
Obey(r, c, source) ==
  CASE c.kind = "run" -> BeginTest(r, c.test, source, c.asked)
    [] c.kind = "all" -> BeginSequence(r, source = "sc", source, c.asked)
    [] c.kind = "stop" -> StopAll(r, "stopped")
    [] c.kind = "skip" -> SkipOne(r)
    [] OTHER -> r

--------------------------------------------------------------------------------
(* Core 1: a tick                                                               *)

(* recordFixture brackets the store of the entry with the sequence.             *)
PublishFixture ==
  /\ run.publish # <<>>
  /\ \/ ~writing /\ writing' = TRUE
        /\ fixture' = [fixture EXCEPT !.sequence = @ + 1]
        /\ UNCHANGED run
     \/ writing /\ fixture.entry # Head(run.publish)
        /\ fixture' = [fixture EXCEPT !.entry = Head(run.publish)]
        /\ UNCHANGED <<writing, run>>
     \/ writing /\ fixture.entry = Head(run.publish)
        /\ fixture' = [fixture EXCEPT !.sequence = @ + 1]
        /\ writing' = FALSE
        /\ run' = [run EXCEPT !.publish = Tail(@)]
  /\ UNCHANGED <<pc1, scRequest, line, ended, quiet, completed, printed, core0>>

At1(here, next) == pc1 = here /\ run.publish = <<>> /\ pc1' = next

TakeRequest ==
  /\ At1("request", "line")
  /\ run' = Obey(run, scRequest, "sc")
  /\ scRequest' = Nothing
  /\ UNCHANGED <<writing, line, ended, quiet, fixture, completed, printed, core0>>

TakeLine ==
  /\ At1("line", "supervise")
  /\ run' = Obey(run, line, "console")
  /\ line' = Nothing
  /\ UNCHANGED <<writing, scRequest, ended, quiet, fixture, completed, printed, core0>>

ScRuns == run.active # None /\ run.source = "sc"

(* superviseScTest: the flag is loaded and then exchanged, the contact is read  *)
(* last; engineRuns is the interlock.                                           *)
(* Faulty variant: a host that went quiet is not noticed.                       *)
ReasonIgnoringContact(engineRuns) ==
  IF ended THEN "session_end" ELSE IF engineRuns THEN "engine_running" ELSE "none"
Reason(engineRuns) ==
  CASE ended -> "session_end"
    [] ~ended /\ quiet -> "host_lost"
    [] OTHER -> IF engineRuns THEN "engine_running" ELSE "none"

Supervise(engineRuns) ==
  /\ At1("supervise", "step")
  /\ IF ScRuns
       THEN /\ ended' = FALSE
            /\ run' = IF Reason(engineRuns) = "none" THEN run ELSE StopAll(run, Reason(engineRuns))
       ELSE UNCHANGED <<ended, run>>
  /\ UNCHANGED <<writing, scRequest, line, quiet, fixture, completed, printed, core0>>

EventPending(r) == r.event.sequence # printed

(* holdDemandUntilAnnounced                                                     *)
Hold(r, d) ==
  IF d = r.applied THEN [r EXCEPT !.holding = "no"]
  ELSE IF ~EventPending(r) \/ r.holding = "long"
    THEN [r EXCEPT !.holding = "no", !.applied = d]
    ELSE [r EXCEPT !.holding = IF @ = "no" THEN "yes" ELSE @]

Drive(r, d) == LET h == Hold(r, d) IN [h EXCEPT !.demand = h.applied]

(* The fixture that runs on core 0 has not answered its last publication yet.   *)
(* Faulty variant: any completion is taken for the one awaited.                 *)
FixtureRunsAnyCompletion == run.active \in Fixture /\ completed = 0
FixtureRuns == run.active \in Fixture /\ completed # fixture.sequence

Finish(r, result) ==
  LET d == Deactivate(r, result)
  IN IF r.sequence THEN AdvanceSequence(d, r.source, r.asked) ELSE d

(* One step of the test: what it asks for and whether it ends.                  *)
StepTop ==
  \/ run' = Drive(run, Setpoints[run.step])
  \/ /\ run.step < Len(Setpoints)
     /\ run' = Drive(Announce(run, run.step + 1), Setpoints[run.step + 1])
  \/ /\ run.step = Len(Setpoints)
     /\ run' = Finish(Drive(run, 0), "done")

StepTest ==
  CASE run.active = "top" -> StepTop
    [] run.active \in Fixture -> run' = Finish(run, "ok")
    [] OTHER ->
         \/ \E d \in {0, 1} : run' = Drive(run, d)
         \/ run' = Finish(Drive(run, 0), "done")

(* Without a test that drives the actuator the application asks for the demand. *)
Step ==
  /\ At1("step", "request")
  /\ IF run.active = None \/ FixtureRuns
       THEN \E d \in Driver : run' = [run EXCEPT !.demand = d]
       ELSE StepTest
  /\ UNCHANGED <<writing, scRequest, line, ended, quiet, fixture, completed, printed, core0>>

HoldElapses ==
  /\ run.holding = "yes"
  /\ run' = [run EXCEPT !.holding = "long"]
  /\ UNCHANGED <<pc1, writing, shared, core0>>

--------------------------------------------------------------------------------
(* Core 0: the session and the console, then the fixture, then announcements    *)

Command(tests, asked) ==
  {[kind |-> "run", test |-> t, asked |-> asked] : t \in tests}
    \cup {[kind |-> k, asked |-> asked] : k \in {"all", "stop", "skip"}}
Request == Command(Named \cap ScSupported, "session")
Line == Command(Named, "console")

At0(here, next) == pc0 = here /\ pc0' = next

Queue(c) ==
  /\ scRequest' = IF scRequest = Nothing THEN c ELSE scRequest
  /\ UNCHANGED <<line, fixture, completed, printed>>

(* configSessionTick takes at most one command here.                            *)
Opens ==
  /\ At0("session", "fixture")
  /\ ~open
  /\ open' = TRUE
  /\ UNCHANGED <<core1, shared, got, ran, runs, shown, commands>>

Orphan(c) ==
  IF "asked" \in DOMAIN c /\ c.asked = "session" THEN [c EXCEPT !.asked = "ended session"] ELSE c

Closes ==
  /\ At0("session", "fixture")
  /\ open
  /\ open' = FALSE
  /\ ended' = TRUE
  /\ run' = Orphan(run) /\ scRequest' = Orphan(scRequest)
  /\ UNCHANGED <<pc1, writing, line, quiet, fixture, completed, printed,
                 got, ran, runs, shown, commands>>

Polls ==
  /\ At0("session", "fixture")
  /\ open
  /\ quiet' = FALSE
  /\ UNCHANGED <<core1, scRequest, line, ended, fixture, completed, printed,
                 got, open, ran, runs, shown, commands>>

(* scStop, scSkip, and the first part of scRun.                                 *)
Asks(c) ==
  /\ pc0 = "session"
  /\ open /\ commands < MaxCommands
  /\ commands' = commands + 1
  /\ quiet' = FALSE
  /\ IF c.kind \in {"stop", "skip"}
       THEN pc0' = "fixture" /\ Queue(c) /\ UNCHANGED <<got, ended>>
       ELSE /\ pc0' = "clear" /\ got' = c
            /\ UNCHANGED <<scRequest, line, ended, fixture, completed, printed>>
  /\ UNCHANGED <<core1, open, ran, runs, shown>>

(* scRun forgets the end of an earlier session before it queues the request.    *)
(* Faulty variant: it does not.                                                 *)
ClearEndedNot ==
  /\ At0("clear", "queue")
  /\ UNCHANGED <<core1, shared, got, open, ran, runs, shown, commands>>
ClearEnded ==
  /\ At0("clear", "queue")
  /\ ended' = FALSE
  /\ UNCHANGED <<core1, scRequest, line, quiet, fixture, completed, printed,
                 got, open, ran, runs, shown, commands>>

QueueRun ==
  /\ At0("queue", "fixture")
  /\ Queue(got)
  /\ got' = Nothing
  /\ UNCHANGED <<core1, ended, quiet, open, ran, runs, shown, commands>>

Types(c) ==
  /\ At0("session", "fixture")
  /\ commands < MaxCommands
  /\ commands' = commands + 1
  /\ line' = IF line = Nothing THEN c ELSE line
  /\ UNCHANGED <<core1, scRequest, ended, quiet, fixture, completed, printed,
                 got, open, ran, runs, shown>>

Idles ==
  /\ At0("session", "fixture")
  /\ UNCHANGED <<core1, shared, got, open, ran, runs, shown, commands>>

(* runPendingFixture: the sequence, then the entry and the check of the         *)
(* sequence, then the fixture itself.                                           *)
ReadSequence ==
  /\ At0("fixture", "check")
  /\ got' = [kind |-> "read", attempt |-> 1, sequence |-> fixture.sequence]
  /\ UNCHANGED <<core1, shared, open, ran, runs, shown, commands>>

(* Faulty variant: the copy is accepted whatever was written meanwhile.         *)
ConsistentAlways(sequence) == TRUE
Consistent(sequence) == sequence % 2 = 0 /\ fixture.sequence = sequence

Claims == fixture.entry # None /\ got.sequence # completed

ReadAgain ==
  /\ pc0 = "check" /\ ~Consistent(got.sequence)
  /\ IF got.attempt < Attempts
       THEN /\ got' = [got EXCEPT !.attempt = @ + 1, !.sequence = fixture.sequence]
            /\ UNCHANGED pc0
       ELSE got' = Nothing /\ pc0' = "event"
  /\ UNCHANGED <<core1, shared, open, ran, runs, shown, commands>>

NothingToRun ==
  /\ At0("check", "event")
  /\ Consistent(got.sequence) /\ ~Claims
  /\ got' = Nothing
  /\ UNCHANGED <<core1, shared, open, ran, runs, shown, commands>>

StartFixture ==
  /\ At0("check", "running")
  /\ Consistent(got.sequence) /\ Claims
  /\ ran' = got.sequence
  /\ runs' = runs + 1
  /\ UNCHANGED <<core1, shared, got, open, shown, commands>>

CompleteFixture ==
  /\ At0("running", "event")
  /\ completed' = got.sequence
  /\ got' = Nothing
  /\ UNCHANGED <<core1, scRequest, line, ended, quiet, fixture, printed,
                 open, ran, runs, shown, commands>>

(* testsWorkersPrintStepEvent: the copy under its lock counts as one read.      *)
PrintEvent ==
  /\ pc0 = "event"
  /\ IF EventPending(run)
       THEN pc0' = "printed" /\ shown' = run.event
       ELSE pc0' = "session" /\ UNCHANGED shown
  /\ UNCHANGED <<core1, shared, got, open, ran, runs, commands>>

(* Faulty variant: what was recorded meanwhile counts as printed too.           *)
AckLatestEvent ==
  /\ At0("printed", "session")
  /\ printed' = run.event.sequence
  /\ UNCHANGED <<core1, scRequest, line, ended, quiet, fixture, completed,
                 got, open, ran, runs, shown, commands>>
AckEvent ==
  /\ At0("printed", "session")
  /\ printed' = shown.sequence
  /\ UNCHANGED <<core1, scRequest, line, ended, quiet, fixture, completed,
                 got, open, ran, runs, shown, commands>>

(* Nothing was heard of the configurator for the keepalive time, which matters  *)
(* only with a test of its own.                                                 *)
GoesQuiet ==
  /\ ~quiet
  /\ ScRuns \/ scRequest # Nothing \/ pc0 \in {"clear", "queue"}
  /\ quiet' = TRUE
  /\ UNCHANGED <<core1, scRequest, line, ended, fixture, completed, printed, core0>>

--------------------------------------------------------------------------------
Init ==
  /\ pc1 = "request" /\ writing = FALSE
  /\ run = [active |-> None, source |-> "console", asked |-> "console", sequence |-> FALSE,
            scOnly |-> FALSE, index |-> 0, demand |-> 0, applied |-> 0, holding |-> "no",
            step |-> 1, event |-> [sequence |-> 0, value |-> 0], publish |-> <<>>,
            requested |-> 0, result |-> "none"]
  /\ scRequest = Nothing /\ line = Nothing /\ ended = FALSE /\ quiet = TRUE
  /\ fixture = [sequence |-> 0, entry |-> None] /\ completed = 0 /\ printed = 0
  /\ pc0 = "session" /\ got = Nothing /\ open = FALSE
  /\ ran = 0 /\ runs = 0 /\ shown = run.event /\ commands = 0

Core1 ==
  \/ PublishFixture \/ TakeRequest \/ TakeLine \/ Step
  \/ \E engineRuns \in BOOLEAN : Supervise(engineRuns)

Core0 ==
  \/ Opens \/ Closes \/ Polls \/ Idles \/ ClearEnded \/ QueueRun
  \/ \E c \in Request : Asks(c)
  \/ \E c \in Line : Types(c)
  \/ ReadSequence \/ ReadAgain \/ NothingToRun \/ StartFixture \/ CompleteFixture
  \/ PrintEvent \/ AckEvent

Next == Core1 \/ Core0 \/ HoldElapses \/ GoesQuiet

(* The loops of both cores run for ever; time passes, and with it the keepalive *)
(* when there is no session that could renew it.                                *)
Fairness ==
  /\ WF_vars(Core1) /\ WF_vars(Core0)
  /\ WF_vars(HoldElapses) /\ WF_vars(~open /\ GoesQuiet)

Spec == Init /\ [][Next]_vars /\ Fairness

--------------------------------------------------------------------------------
TTypeOK ==
  /\ pc1 \in {"request", "line", "supervise", "step"} /\ run \in RunType
  /\ run.sequence => run.active # None
  /\ fixture.sequence % 2 = IF writing THEN 1 ELSE 0
  /\ printed <= run.event.sequence
  /\ pc0 \in {"session", "clear", "queue", "fixture", "check", "running", "event", "printed"}

(* A fixture is run at most once for each time it was asked for, whatever was   *)
(* published while core 0 was reading.                                          *)
FixtureRunsOnce == TTypeOK /\ runs <= run.requested

Stops == run.publish = <<>> /\ run'.publish # <<>> /\ Head(run'.publish) = None

(* A test ends by its own reason: a fixture that ends by itself has been run    *)
(* for its own publication, not for one that was stopped before, and a test is  *)
(* stopped for the end of a session only if its own session ended.              *)
ResultsAreOwn ==
  [][Stops =>
      /\ run.active \in Fixture /\ run'.result = "ok" => ran = fixture.sequence
      /\ run'.result = "session_end" => run.asked = "ended session"]_vars

(* The staircase moves the actuator to a setpoint only after the announcement   *)
(* of that setpoint was printed, or after it had waited for 50 ms.              *)
MoveIsAnnounced ==
  [][run'.active = "top" /\ run.active = "top" /\ run'.demand # run.demand
       => shown.value = run'.demand \/ run.holding = "long"]_vars

(* A configurator test does not go on while its host is silent or its session   *)
(* is closed.                                                                   *)
UnsupervisedStops == ScRuns /\ (quiet \/ ~open) ~> ~ScRuns \/ (open /\ ~quiet)
================================================================================
