# Verification project for the Fiesta electronics

TLA+ models, model-checking runs and machine-checked proofs for the firmware of
this repository: the engine control unit (ECU) with its VP37 injection pump drive,
its trouble codes, parameters, diagnostics and bench tests, the Adjustometer that
measures the pump's quantity actuator, the instrument cluster (Clocks), the clock
(Fiesta clock), and the desktop configurator with its firmware update.

Every definition is translated from the source. `PROJECT.json` names, for each
definition, the file and the lines it stands for; for each run its module, its
configuration and the properties it checks; and for each hazard the line where it
bites and the properties that would catch it.

Run a model with `tlc -config <file>.cfg <module>.tla`, check proofs with
`tlapm <module>Proofs.tla`.

## 1. Inventory

The system is a set of microcontroller modules on one CAN bus.

| Component | State it keeps | Operations | Talks to |
|---|---|---|---|
| Trouble code manager (`ECU/dtcManager.c`) | registry of codes in RAM, pending flags, queued clear, storage and schema state, retry timer; records in the key-value store and in a legacy EEPROM area | init, poll, set active (with or without failure type), clear all, queries | every sensor and actuator that reports a fault, the diagnostics, the store shared with the parameters |
| Persistence provider (`ECU/ecuPersistence.c`) | open or not | open, execute a deferred batch | HAL key-value store |
| Output expander and I2C bus (`ECU/sensors.c`) | shadow latch, bus mutex | write a pin, read back, report | relays (core 0), pump enable pin (core 1), trouble codes |
| VP37 drive (`common/vp37/vp37.c`, `vp37_feedback.c`) | calibration, demand, ramp, last PWM, link state, control grid | init, process, set demand, stop, probe | feedback reader, expander, PWM channel, snapshot |
| VP37 feedback reader (`vp37_adjustometer.c`) | last sample, its origin, legacy path | read | Adjustometer registers over I2C |
| VP37 snapshot (`vp37_snapshot.c`, `ECU/vp37_adapter.c`) | sequence and published words, last copied count | publish, copy, wait, copy into the globals | core 1 writes, core 0 reads |
| VP37 controllers (`vp37_control.c`, `vp37_current*.c`, `vp37_compensation.c`, `vp37_maps.c`) | integrator, hold, dither, current limit latch | one step each | drive |
| VP37 tuning, telemetry | tuning values handed between the cores, trace lines | console commands | drive, console |
| ECU loops (`ECU/start.c`) | core 1 status, take-over of the drive, watchdog | start-up, loop of each core | everything on the ECU |
| ECU parameters, configuration session (`ECU/config.c`, `common/scDefinitions`) | active, staged and stored parameters, pending load, session | set, commit, revert, load, retry, tick | store, configurator, tests |
| ECU clock (`ECU/rtcTime.c`, `seqlock.h`) | last time from CAN, its age | receive, read | trouble codes (dates), other core |
| Engine speed (`ECU/rpm.c`) | ring of periods filled by an interrupt | capture, average, time out | actuators, drive |
| Actuators (`engine_operation.c`, `glowPlugs.c`, `engineFan.c`, `engineHeater.c`, `heatedWindshield.c`, `turbo.c`, `engineFuel.c`) | engine state, countdowns, hysteresis | process | expander, parameters |
| CAN interface (`ECU/can.c`) | frame timers, unknown-frame counters | send, receive | Clocks, Fiesta clock |
| Diagnostics (`obd-2.c`, `obd_j1979.c`, `obd_ford_diag.c`) | multi-frame answer under way, session | poll, request, flow control | tester, trouble codes |
| Bench tests (`tests*.c`) | test registry, requests, step events | claim, run, publish | console, other core, drive |
| Adjustometer measurement (`Adjustometer/sensors.c`) | capture ring, baseline, zero hold, sample sequence | capture, converge, verify, hold, lose, sample | core 1, registers |
| Adjustometer loops (`Adjustometer/start.c`) | register frame | publish | ECU over I2C |
| Clocks (`Clocks/*.cpp`) | received values and their ages, charge and oil lamps, buzzer | receive, tick, draw | CAN |
| Fiesta clock (`Fiesta_clock/*`) | RTC marker, correction timer, display | set, sync, draw | CAN, RTC |
| Serial configurator (`SerialConfigurator/src`) | detected modules, session, flash sequence | discover, authenticate, read, set, commit, flash | ECU, Clocks and others over USB serial |
| VP37 test bench, log viewer, scripts | - | - | - |

### What is hard about it

* **Storage.** The ECU keeps codes and parameters in one key-value store. Opening
  it may fail, a batch may be interrupted after any record, the power may go at
  any point, and everything is retried from a rate-limited poll. A record that
  one client failed to commit is committed by the next commit of another client.
* **Two cores.** Control and telemetry run on core 1, everything else on core 0.
  Snapshots are passed without locks, by sequence numbers and fences over relaxed
  words; the I2C bus is shared behind a mutex; reports are made after the mutex
  has been released.
* **Stale measurements.** The pump actuator is driven on a position measured by
  another processor, whose clock is not synchronised and which may restart, stop
  measuring or repeat an old frame.
* **Late steps.** The control step on core 1 competes with other tasks; timeouts,
  release, ramp and stop must hold however late it is.
* **Long sequences.** Start-up, calibration, probing, stopping and the restart of a
  verification after a lost signal are sequences no unit test walks in all orders.
* **A serial link that loses frames.** The configurator repeats a command whose
  answer did not come, the module may have executed it, may answer late, and may
  have been reset meanwhile.
* **Tests across two cores.** A bench test is asked for on core 0, run on core 1,
  may hand a part back to core 0, and is announced there before it moves anything.
* **A bus without acknowledgment.** CAN frames are lost, repeated by the controller
  after a send was reported as failed, and dropped by full buffers; everything on
  the cluster has to age, and nothing may be given up for one lost frame.
* **A clock that is two devices.** The RTC holds the time and the flash holds the
  marker that says in which zone; either write may fail, or be reported as failed
  and have happened, and the power may go between the two.
* **Files that change while they are used.** A build may replace an image or its
  manifest between the check of the digest and the copy.

### What makes each component correct

* Trouble codes: storage trouble, a migration or a reset never invents or loses a
  code; an entry not marked pending is durable exactly as shown; queued work ends.
* Expander: an acknowledged write stays in force; a fault that went away does not
  stay active.
* Drive: no power on old feedback, no step that throws the actuator, release at
  rest, a stop is final, the loop's memory of the channel is the channel.
* Feedback: a frozen or old sample expires, a young new one is not refused.
* Snapshot: a copy is one whole publication and a recent one.
* Adjustometer: a verified baseline, a window of current blocks, no spike through
  the zero hold, a baseline at last, and samples of one window on the other core.
* Parameters: the set the module runs by is the set it would start with, or the
  defaults while none is stored.
* Configurator: what the Values tab reports as read, set or committed is what the
  module did in that session, however often a command was sent and whenever its
  answer came.
* Firmware update: an update that nobody disturbed installs the build the operator
  saw, on the module the operator chose, and every update ends.
* Diagnostics: a tester takes only whole answers for complete, none twice and none
  after a later one; no more frames than it granted; every transfer ends.
* Bench tests: a fixture runs at most once and its result belongs to the test that
  asked for it; a session that goes silent stops its test; the actuator moves only
  after its announcement was printed or had waited 50 ms.
* Fiesta clock: a stored marker means that the RTC holds UTC; once the devices
  answer, the change to UTC and the correction from GPS both come to an end.
* Cluster: a speed shown is one the engine had within the time-out; one lost frame
  does not blank it; once the bus is quiet the cluster shows what is true. A failed
  alternator lights its lamp, a hot engine is not silent for long.

## 2. Modules

| Module | Models | Role |
|---|---|---|
| `FaultMemory` | what the trouble code manager promises about the set of codes | abstract specification |
| `DtcManager` | `ECU/dtcManager.c`, its storage seen through `ecuPersistence.c` | detailed specification, implements `FaultMemory` |
| `DtcRecovery` | `DtcManager` with a storage that heals and a bounded number of clears and resets | composition for liveness |
| `ExpanderBus` | `pcf8574_write`, `pcf8574_read` of `ECU/sensors.c` on two cores, composed with `DtcManager` | composition |
| `FiestaClock` | `clockTime.c`, `rtcSync.c`, and of `config.c` and `clockPart.c` what sets the time | component |
| `MCStorageRecovery` | `DtcRecovery`, `ExpanderBus` and `FiestaClock`, one of them per behaviour | instance |
| `FeedbackReader` | `VP37_readAdjustometer` and the publication in `Adjustometer/start.c` | component pair |
| `Vp37Values` | positions, commands and time bounds of the drive | values |
| `Vp37Drive` | `common/vp37/vp37.c`, `vp37_feedback.c` | component |
| `Vp37Snapshot` | `vp37_snapshot.c`, `ECU/vp37_adapter.c` | component pair |
| `MCVp37` | `Vp37Drive` and `Vp37Snapshot`, one of them per behaviour | instance |
| `Adjustometer` | core 0 of `Adjustometer/sensors.c` | component |
| `AdjustometerSample` | `getAdjustometerFeedback` on core 1 against core 0 | component pair |
| `MCAdjustometer` | `Adjustometer` and `AdjustometerSample`, one of them per behaviour | instance |
| `EcuParams` | `ECU/config.c` and the parameter commands of `sc_command_handlers.c` | component |
| `Configurator` | `sc_values_tab.c`, `sc_core.c`, `sc_transport.c` over a link that loses frames, against `EcuParams` | composition |
| `FlashImages`, `FlashUpdate` | `sc_flash_tab.c`, the update of `sc_core.c`, `sc_flash.c`, against modules, drives and builds | component |
| `MCConfigurator` | `Configurator` and `FlashUpdate`, one of them per behaviour | instance |
| `BenchTests`, `MCBenchTests` | `tests.c`, `tests_helpers.c`, `tests_workers.c` on both cores | component, values |
| `WholeAnswers` | what the diagnostics promise a tester | abstract specification |
| `ObdTransport` | the ISO-TP sender of `obd-2.c` and a tester | detailed specification, implements `WholeAnswers` |
| `EcuSend` | the CAN sender of `ECU/can.c` and the passes of `start.c` that serve it | component |
| `StatusFrames` | `EcuSend` with the pause of the loop and the edges of the Hall sensor in milliseconds | instance |
| `ClusterLink` | `Clocks/can.cpp` with `EcuSend` at the other end of a lossy bus | composition |
| `ChargeLamp` | `Clocks/chargeLamp.cpp` | component |
| `TemperatureAlarm` | `Clocks/buzzerStrategy.cpp`, `buzzer.cpp` | component |
| `MCCluster` | `EcuSend`, `ClusterLink`, `ChargeLamp` and `TemperatureAlarm`, one of them per behaviour | instance |
| `StorageRecoveryProofs`, `BenchTestsProofs`, `FeedbackReaderProofs`, `Vp37Proofs`, `AdjustometerProofs`, `ConfiguratorProofs`, `ClusterProofs`, `ObdTransportProofs` | theorems about the modules they are named for (`StorageRecovery`: about `DtcManager` and `MCStorageRecovery`, `Cluster`: about `MCCluster`, `Vp37`: about `MCVp37`) | proofs |

Every bound is a CONSTANT of the module it bounds. The `MC` modules put components
that share nothing into one instance: `part` (chosen by `Init`) says which of them
a behaviour runs, the others keep one initial state, and each property speaks of
its own part. That loses no behaviour of a component and adds none. Definitions
described as faulty variants stand just before the definition they are variants
of: each is a plausible slip in that code, and replaces it when a property is
tested for being able to fail.

### DtcManager and FaultMemory

`dtcManagerMutex` makes every entry point atomic towards the others. An entry
point is therefore one action, except that `dtcManagerInit` and `dtcManagerPoll`
stop before each storage batch, where `pc` says which one comes next, so that a
reset can strike in between. The storage is `mirror` (the records the HAL store
holds in RAM) and `flash` (what a reset preserves). A batch that succeeds makes
both equal its target. A batch that fails leaves any part of its records in the
mirror and any part of those in the flash, markers last (`Torn`); a reset during
a batch is that followed by `PowerLoss`. `ForeignCommit` is `config.c` saving its
own blob, which takes along whatever the mirror holds. A record that is absent
is not told from one that holds zero, as the reading code does not either.

`FaultMemory` speaks of sets of codes only: visible, buffered, durable, and
whether a clear is queued. `KeepsPromise` is the refinement, with the codes a
healthy start would recover (from the legacy area or from the store, as the
markers say) as the durable ones.

### ExpanderBus

Each core runs a transaction: take the bus mutex, change the shadow latch, send
it, release, then report success or failure to the trouble code manager. The
latch is read and written back as two steps, so that the mutex matters. The
report is an action of its own since the mutex is already free. Without the
mutex (the faulty variant) an acknowledged write is undone by the other core.

### FeedbackReader

Time is the ECU's clock in ticks and may pass between any two steps. The
Adjustometer's clock is the same one with an unknown phase, counted modulo
`Width`; a restart sets it and the window numbers to zero. The reader is
`VP37_readAdjustometer`: transfers that fail or are torn, then the decision.
`firstSeen` and `seenBefore` are history variables that only the properties read.
The window number does not wrap in the model (31 bits at about a thousand windows
per second); the stamp does. The register path for firmware without the frame is
not modelled.

### Vp37Drive

`pc` is where start-up, the step or the probe stands. Positions are steps from the
calibrated bottom, quantity commands are small numbers, of which the sweep's is
told from all others. The console resets the tuning between any two steps
(`ResetTuning`): the loop then remembers no command, `lastPWMval` is -1, while the
channel goes on carrying the last one, and no probe is allowed until a step has
released the drive again. The ramp of a step reaches as far as `Slew`, the full rate
per tick, carries it over the time between the beginnings of the last good step and
of this one (`pidLastUs`, a period when there is none): the longer the gap of lost
readings, the longer the step, as in the code. A rise may be slower (`upper`, braking),
a descent is not. What the controllers compute is any command, so what holds
here holds whatever they do. A reading is lost, refused or good; bus voltage and
status checks are refusals. Time is kept as ages that stop at the largest value
anything compares with. `Late` bounds how late core 1 starts a step and `ReadTime`
how long a step takes: nothing in the code bounds them, and the bound in
`PowerNeedsFeedback` is stated in their terms. During the probe the command is
driven on readings the probe itself takes, and the property leaves that out.

### Vp37Snapshot

Every word is stored and loaded on its own and in any order, which is what relaxed
accesses between fences allow. A publication is known by its number; a word by
the publication that stored it. A read loads the sequence, the words, and the
sequence again, at most `Attempts` times. The sequence wraps modulo `Width` past
zero and one, which stay reserved. A copy during which `Overlap` or more
publications begin is excluded: on hardware it takes 2^31 - 1 of them to bring the
same sequence back, which is the assumption of the theorem below. Telemetry words
are one word `values`.

### Adjustometer and AdjustometerSample

The filters are abstracted: a window yields any frequency of `Hz`. The capture of
four blocks, the discard on a loss, the retry, the convergence with its tracked
estimate, the verification and the zero hold follow the code. The time of a window
is the time it is processed, and the limit of 64 blocks per call is left out.
`unbroken`, `windowAge`, `calmAge` and `signRun` are history variables.
`AdjustometerSample` models the sample core 1 copies: the words between two loads
of the sequence, and the two looks at the signal-loss state, which changes outside
of it.

### EcuParams and Configurator

Two parameters stand for each pair the cross-field validation relates. A commit is
two steps, the blob and the promotion, between which the module may be reset. The
configurator works on one exchange at a time: a frame with a sequence number, an
attempt that times out, the same command again, a port that is closed and opened
and then counts from one again. The link is a queue in each direction that may lose
a frame; a late answer stays in its queue. A reset of the module forgets its session
and its staged values. The challenge and the session id are drawn anew and never
repeat within `MaxDrawn`; once all of these are known, nothing is asked that would draw
another. `accepted` is a history variable.

### FlashImages and FlashUpdate

A build is a number, its version is what `PerVersion` leaves of it, so that two
builds of one version exist. The worker of `sc_core_flash` is a sequence of steps,
each of which may fail; a module is in its application, on its way to the boot
loader, or shows a drive. `disturbed` records that a build replaced a file, or a
hand touched a module, since the click, and `before` what each module held then.

### BenchTests

One tick of `tickTests` on core 1 and one pass of core 0 are each several steps at
the places where they look at what they share. The registry is a fixture, a test
driven by setpoints, and the staircase with its announcements; the other tests are
variants of these. The fixture entry is copied under a sequence lock that the reader
gives up after `Attempts`; the two cores share one request and one line.

### WholeAnswers and ObdTransport

A frame stands for the bytes it carries, so that an answer is its frames in order.
The tester may grant any block of `Blocks` (zero: all), ask for patience, refuse,
give up and ask again while an older flow control is still in the receive buffers.
A send that is reported as failed may have gone out. The refinement maps the frames
the tester has assembled to a complete answer only when it takes them for one.

### FiestaClock

A time is right or not; what matters is in which zone the RTC holds it, whether the
marker says so, and who writes next: the change at start-up, a GPS frame, the
configurator or the buttons. Every access may fail, before or after it had its
effect: `TornTimes` names the kinds of time of which a refused write may have
reached the RTC. A restart may come between any two accesses.

### EcuSend, StatusFrames, ClusterLink, ChargeLamp, TemperatureAlarm

`EcuSend` is a loop of core 0: publish the speed, run the timers, service the queue
of status frames wherever the code does. In `ClusterLink` a tick is long for both
loops, so what is due is done and what arrived is decoded before it ends; a frame
that went out arrives or does not. `quiet` says that nothing changes and nothing is
lost from now on; `had` and `missed` are history variables. `StatusFrames` counts
milliseconds instead: the loop pauses for one of them after a pass, and a new speed
takes a new edge. `ChargeLamp` sees any subset of the frames in a pass; a speed that
is not renewed becomes zero (`Expired`), and so do all values once a check of the
connection finds that nothing came (`Cleared`); its times are shortened (`Settle` is
none).
`TemperatureAlarm` has coolant (which stands for oil too) and exhaust gas, and the
one buzzer that takes no melody while one plays.

## 3. Runs

| Run | Question | Bounds, and why they are enough |
|---|---|---|
| `dtc_codes` | Which codes are remembered, through every storage fault and reset | two entries, one of them in the legacy area: every batch can be torn between the two, and both sources of codes are there. Dates and failure types play no part in it, so there is one of each |
| `storage_recovery` | Three stores that fail and heal (`part`): does queued work end and is "not pending" durable; are acknowledged expander writes in force and does a fault go away; does the marker mean UTC and is the time right at last | codes: one entry, two dates, one failure type, one clear, one reset, each of which may come before or after the healing. Expander: two cores, one pin each, two failing transactions, so that one report may overtake another on either core. Clock: UTC writes may be torn, restarts anywhere until it is healed |
| `fiesta_torn` | Is the marker stored only after UTC was read back, when also local time may be torn | violated, see section 6 |
| `vp37` | The drive, and the snapshot it publishes (`part`) | a stroke of three steps, a slew of one a tick, so that a first period cannot cross the stroke and a gap can, cutoff three ticks, steps up to three ticks late, so that a whole period is missed and the grid restarts; four publications on a sequence that wraps after two, two attempts |
| `feedback_reader` | Freshness and age | six instants, maximum age two, a clock that wraps at eleven and starts at zero or near its end, one restart, two attempts: a sample can be published repeatedly, expire and be replaced |
| `adjustometer` | Capture, baseline, zero hold, and samples across the cores (`part`) | frequencies 1, 3, 4 and 8 with drift limit 3: inside, at and beyond each threshold; windows of four blocks as in the code; two windows and three attempts for the sample |
| `configurator` | The Values tab, and the firmware update (`part`) | ranges in which one pair is invalid, a stored set that is valid and one that is not, sequence numbers that wrap after twelve (three clicks reach that on one open port; what a wrap can do earlier is in section 6), the attempts of the code, three clicks, one edit, two faults (a late answer, a reset, a failing store): one fault may spoil an exchange and another its repetition. Two modules, two builds of one version, one rebuild, one hand |
| `flash_confirm` | Is a confirmed update the build the manifest describes | violated, see section 6 |
| `bench_tests` | Requests, fixtures, announcements and supervision over both cores | two attempts of the seqlock, a staircase of two demands, one test asked for by name and the whole sequence, two requests or lines: the second may replace, stop or follow the first anywhere |
| `obd_answer` | Does the transport implement `WholeAnswers` | answers of three frames with a sequence that wraps after two, two receive buffers, blocks of one, two and all, three requests, one WAIT: an answer given up, its flow control met by the next answer, and one after that |
| `cluster` | The speed over the bus, the turns of the status frames, the charge lamp, the alarms (`part`) | a heartbeat of two ticks with a time-out of three heartbeats as in the code, a check that comes later than the time-out, two speeds, two receive buffers; three status frames where turns are at stake; a lamp that confirms in three ticks with data that expires in two and a speed in one; alarms at every second tick, repeated after eight and six, with melodies that overlap both |
| `status_starves` | Does a queued status frame go out | violated, see section 6 |

Deadlock is checked where the system always has a next step. It is switched off in
`feedback_reader`, where time ends at the horizon, and `configurator`, where the
operator's clicks are bounded. In `vp37` the instance says itself that a drive that
has stopped stays so.

### The properties

* `OpenShowsDurable`: once the storage is open, every durable code is shown.
  `SettledIsDurable`: an entry that is not pending would be read back as it is.
  `KeepsPromise`: the refinement. `QueuedWorkDrains`: a queued clear, a migration and
  a report become durable.
* `AcknowledgedHolds`. `FaultGoesAway`: once the expander answers and no older failure
  is still to be reported, one transaction of either core clears the code for good.
  It does not say that one comes: see section 6.
* `MarkerMeansUtc`; `TimeSettles`: the change to UTC ends, and a wrong time does not
  outlive usable GPS frames.
* `FrozenFeedbackExpires`: however often a sample is published again, it stops
  being fresh. `AgeIsRight`: the true age of what the loop acts on is below the
  maximum age plus the time the reader did not look, and a new young sample is not
  refused, also not when the Adjustometer's clock wraps.
* `PowerNeedsFeedback`; `ChannelFollowsMemory`: the loop's memory is the channel or
  empty; `DemandsAreCurbed`: the first demand ramps, none outruns the slew over the time
  since the last good step, and none after a stop drives; `RestReleases`.
* `WholeCopies`; `OutcomesAreTrue`: what each result of a read or a wait means, and
  that the global values are of one copy; `StopIsPublished`.
* `EstimateNearCandidate`, `WindowIsCurrent`, `VerifiedInOnePiece`, `SpikesHeld`,
  `BaselineComes`; `SampleIsOneWindow`.
* `ActiveIsStored`: what the module runs by is what it would start with.
  `ReportedIsDone`: a reported outcome is the module's. `UndisturbedIsExact`: an
  update nothing interfered with installed the image whose manifest was checked on
  its target, and changed no other module. `UpdateEnds`.
* `FixtureRunsOnce`; `ResultsAreOwn`: a test takes neither the result nor the end of
  session of an earlier one; `UnsupervisedStops`; `MoveIsAnnounced`.
* `AnswersAreWhole`: the refinement. `WithinGrant`; `TransferEnds`, for finitely many
  WAITs: `obd-2.c:435` honours each one with a new time-out and has no limit, so a
  tester that asks for patience for ever keeps a transfer open for ever.
* `SpeedIsRecent`, `LossIsTolerated`, `ClusterSettles`; `TurnsAreKept`;
  `FailureShows`; `NoLongSilence`.

The type invariant of a module, `TypeOK` or its like, is the first conjunct of one of
its invariants, except in `DtcManager` and `Vp37Snapshot`, where it is a theorem.

## 4. Fairness

* `DtcRecovery`: the loop of core 0 calls `dtcManagerPoll` in every pass
  (`start.c:488-502`), so a due retry is made and a started job ends; time passes.
  Nothing is assumed of the storage except that it heals at some point, which is
  the premise of the properties, and nothing of reports, clears or resets.
* `ExpanderBus`: a transaction that was begun is finished and reported. Nothing is
  assumed to begin one.
* `FiestaClock`: the loop comes around; the periods for which a correction and a
  retry are held end (strong fairness, since each failure starts them anew). The
  premise of `TimeSettles` is that the RTC and the flash answer from some point on,
  that restarts stop, and that usable frames come.
* `Vp37Drive`: the loop of core 1 comes around to its step (`start.c:660-712`), and
  time passes. `RestReleases` needs no more.
* `Vp37Snapshot`: both cores come around their loops.
* `Adjustometer`: the loop drains the capture while it is set up, time passes, and
  a setting up that is tried again and again succeeds at last (strong fairness of
  `Retry(TRUE)`): on a board whose timer can never be set up there is no baseline.
* `FlashUpdate`: the worker's step returns, its deadlines pass, and the main loop
  takes the event it left. Any step may fail.
* `BenchTests`: both loops come around for ever, a hold elapses, and the keepalive
  of a closed session runs out. Nothing is assumed of the host.
* `ObdTransport`: `obdLoop` is called, time-outs and separation times pass. Sends
  and reads may fail for ever, and the tester may do nothing.
* `ClusterLink`: both loops and the timers come around and time passes, only from where
  nothing is lost any more, which is enough. `StatusFrames`: passes begin and end and
  time passes; no transmission fails.
* `Configurator`: none.

In the `MC` instances each assumption is about the behaviours of its part.

## 5. Proofs

TLC checks small instances; these theorems hold for every value of the constants
that the named assumptions admit.

`StorageRecoveryProofs`, the trouble codes (from `RegistryAssumption` and `DataAssumption`: the registry has
N entries, the legacy area knows the first L <= N of them, zero is among the dates
and the failure types):

* `TypeCorrect`: `Spec => []TypeOK`.
* `DurableIsShown`: `Spec => []OpenShowsDurable`.
* `ImplementsFaultMemory`: `Spec => KeepsPromise`.

The inductive invariant is `IInv`: the types; `Control`, what each value of `pc`
implies; `Markers`, that the markers of the store are only ever added, the mirror's
before the flash's, and that the two are equal while the storage is closed; and
`Contained`, that without a queued clear the codes of the flash are within those of
the mirror, and those within the visible ones. `Contained` alone is not inductive:
which codes a store holds depends on its markers (`UseLegacy`), so a torn batch
could switch from one source to the other without `Markers`. The lemma about `Torn`
says that an interrupted batch remembers no code that neither side knows and drops
none that both know. Every step of `Next` is then shown to be a step of
`FaultMemory` or to leave its variables alone.

`Vp37Proofs`, the snapshot (from `SnapshotAssumption`: the sequence is counted modulo an
even number, fewer publications than a turn of it overlap one copy):

* `TypeCorrect`: `Spec => []TypeOK`.
* `CopiesAreWhole`: `Spec => []WholeCopies`.
* `ResultsMean`: `Spec => []OutcomesAreTrue`, what each result of a read or wait
  means.

The inductive invariant relates the words to the publication under way
(`WriterInv`) and the sequence a copy began with to the present one: it has moved by
two for every publication begun since, at most one wrap away (`Turned`). Without the
bound on overlap this is false.

`NotPendingIsDurable` shows `Spec => []SettledIsDurable`. Its
invariant `Durable` adds what a record of the store holds of an entry (`Holds`): in a
settled store both copies hold every entry that is not pending, and before a legacy
area is read, or while a clear is queued, every entry that is not pending is blank,
without a date and without a failure type. `Holds` survives a torn batch whose target
holds it too (`TornHolds`), which is why a record is only ever rewritten by itself.

`StorageRecoveryProofs`, the whole instance (from `ExpanderAssumption`: one code for the faults of the
expander, the store may heal; and `RegistryAssumption`):

* `PartsRunManager`: `MCSpec => Spec`. Reports of the two cores, jobs of core 0 and
  clears of the tester are the manager's entry points, so `SettledThroughout` follows.
* `WritesHold`: `MCSpec => []AcknowledgedHolds`, from `Locked` (who is within a
  transaction holds the mutex), `Faithful` (the latch read is the latch until it is
  written) and `InForce` (the outputs carry the latch and what was acknowledged).
* `MarkerIsTrue`: `MCSpec => []MarkerMeansUtc`, under the hypothesis that a refused
  write of local time has not reached the RTC. The hypothesis is not the code's: the
  run `fiesta_torn` shows what happens without it. The invariant says that what
  the clock believes of its marker is true (`KnowsMarker`), that the marker, and a
  state in RAM that takes the RTC for UTC, both exclude a local time (`NoLocal`), and
  that the marker is stored only in such a state (`Places`).

`FeedbackReaderProofs` (from `ReaderAssumption`: at least one attempt and a maximum
age of at least one, and less than half a turn of the clock up to the horizon):

* `FrozenExpires`: `Spec => []FrozenFeedbackExpires`; `AgesAreRight`:
  `Spec => []AgeIsRight`.

The bound on the horizon is what `VP37_readAdjustometer` decides by when it compares two
stamps of a clock that wraps; on hardware half a turn is over half an hour. The
invariant orders frames by window and publication (`Ordered`, `Reads`), bounds the
origin of the budget by the first read of its window (`Budget`), and ties every stamp
to the run of the clock it was taken from (`Stamps`). `Stamps` is needed because a
restart may set the clock to a value it has shown before.

`Vp37Proofs`, the drive (from `DriveAssumption`: the stroke, the slew, the period, the cutoff
and the calibration window are positive, commands are not zero):

* `PowerIsFed`: `MCSpec => []PowerNeedsFeedback`; `MemoryIsTrue`:
  `MCSpec => []ChannelFollowsMemory`, with the resets of the tuning between the steps;
  `DemandsAreSafe`: `MCSpec => DemandsAreCurbed`.

`PowerNeedsFeedback` bounds the age only at the end of a step, so the invariant
(`PowerIsRecent`) bounds it together with the time until the step that runs, or the
next one, is over, differently before a loss, until the cutoff, and after it. It
rests on the grid (`OnGrid`): once a good step was made there is a deadline, and the
step that runs began after it and within a period of the next; and on `PowerIsStarted`:
nothing is driven before a good step. The proof corrected
the type of `due`, which a late and long step takes lower than the first version said
and the constants of the run never showed.

`AdjustometerProofs` (from `AdjustometerAssumption` and `WindowsAssumption`):

* `EstimateStaysNear`, `NoOldWindow`: the invariants `EstimateNearCandidate` and
  `WindowIsCurrent`; `VerificationIsWhole`, `HoldNeedsARun`: the action properties
  `VerifiedInOnePiece` and `SpikesHeld`; all by `MeasureInv`, which relates the blocks
  in the capture to those without a gap (`Whole`), the estimate to its candidate
  (`Near`), and the count of windows on one side to the run that really was (`Runs`).
* `CopyIsConsistent`: `MCSpec => []SampleIsOneWindow`, by `CopyInv`: which words the
  writer may have stored, and which a reader that will be accepted has loaded.

`ConfiguratorProofs` (from the assumptions of `EcuParams` and `Configurator`):

* `UpdateIsExact`: `Flash!Spec => []UndisturbedIsExact`, by `FInv`: while nothing
  interferes the files stay the ones that were verified and no module but the target
  leaves its application (`OnlyTheTarget`), so that the one drive found is the target's
  and only a copy that landed lets it start again (`TargetFollows`).
* `ActiveIsDurable`: `Spec => []ActiveIsStored`, by `PInv`, which adds that a set
  between its write and its promotion is valid and has its request at the head of the
  link, that a module which could not read its store runs by the defaults, and that a
  request to set names a parameter. The link is any sequence of frames, the operator and the faults any.
* `DoneIsTrue`: `UnwrappedSpec => []ReportedIsDone`, by `ExchangeInvariant`, for any
  number of clicks, edits and faults and any length of both queues. `RInv` adds `PInv`
  and the types of the frames (`LinkTyped`) to `Exchange`: a challenge is in one place
  only, an answer, the hand of the tool or a request (`Tokens`); it is drawn while
  nobody is authenticated (`Begins`), and once it was met everything older is off the
  link (`Proving`); a module that forgot the session refuses every write of the step
  (`Writing`); the frame with the awaited number is the last write under way
  (`Numbered`); a success under way says what is true (`Meant`); and no frame under way
  undoes what was accepted (`Kept`). That frames may be lost or skipped at the front is
  one lemma for each part (`Suffix`, `ExchangeLess`). Two hypotheses: a command is sent
  at most twice (`AttemptsAssumption`, `config.h:68`; a third frame on the reopened port
  would carry the number of the second), and the number does not come back to 1 while
  the port stays open, which takes 65,535 exchanges and is the case of section 6.

`ClusterProofs` (from the assumptions of `MCCluster`, each quoted there from the code:
the static assertion on the time-out, a repetition within a heartbeat, a check no
sooner than the time-out, EGT alarms at least as often as the others, intervals that
are multiples of the period they are looked at):

* `StatusTakesTurns`: `TurnsAreKept`. The frame that overtook stands behind the one it
  overtook in the round (`Overtaken`).
* `ShownSpeedIsRecent`, `OneLossIsTolerated`: `SpeedIsRecent` and the action property
  `LossIsTolerated`. `LinkInv` bounds what a frame under way or a value shown can be
  (`Shown`, `Recent`), and how long ago the last attempt was, by the number of frames
  missed since the value that is shown (`Heard`, `Owed`): only with the loops, the
  heartbeat, the repetition and the receive buffer in one inequality is it inductive.
* `ChargeFailureShows`: `FailureShows`. `LampInv` follows the confirmation through the
  age of the voltage, its expiry and the time to settle.
* `HotEngineIsHeard`: `NoLongSilence`. `AlarmInv`: an alarm the buzzer took for
  sounded is due again before the silence is too long, or a melody plays (`Punctual`,
  `Sounding`).

`ObdTransportProofs` (from `ObdAssumption`: a long answer has consecutive frames, the
index is counted modulo two at least, there is a receive buffer):

* `WholeAnswersImplemented`: `Spec => AnswersAreWhole`, the refinement of
  `WholeAnswers`: a pass of `obdLoop` delivers one whole answer or is a stutter, a
  request maps to a request.
* `GrantIsKept`: `Spec => WithinGrant`, with `TransferTypeCorrect` for its first part.

A pass is two steps in one, what goes on and what is read, so the invariant is a
predicate of a triple (`Good`: transfer, receive buffers, tester), shown for each part
of the pass. `InStep` ties what the tester has assembled to the transfer: the same
answer, at most the one part ahead whose send was reported as failed, which the index
then refuses, even when it is counted modulo two. `Waiting` orders the
requests in the buffers behind the answer under way. `Allowed` bounds what is left of
the block and the sizes of all flow controls that wait by what was granted; that sum is
over a sequence, so it is stated by a function of the place it counts from (`Sums`)
instead of by recursion.

`BenchTestsProofs` (from `TestsAssumption`: the staircase has a step, each step a
setpoint, the copy of an entry is tried at least once):

* `FixturesRunOnce`: `[]FixtureRunsOnce`; `EndsAreOwn`: `ResultsAreOwn`;
  `MovesAreAnnounced`: `MoveIsAnnounced`; all from `Init /\ [][Next]_vars` by
  `TestsInvariant`.

A pass of the runner is a composition of operations on one record, each with a lemma
that says what it publishes, announces and leaves alone (`Sound`, `EndsWith`,
`OwnedBy`, `TopStays`); a pass that ends one test and begins the next publishes twice.
`Counted` sums what is to be published, published and not claimed, and run, against
what was asked for: the sequence lock keeps a claim of a torn or withdrawn entry out of
it, and the claim keeps the same sequence from being run twice. `Announced` says that
core 0 acknowledges what it has printed and no later event. `Owned` follows the end of
a session from the flag of core 0 to the owner of the run and of the request that
waits.

Theorems about an `MC` specification speak of all its parts; each part has its own
conjunct of the invariant, and a part that does not run keeps its initial state.

Only model-checked:

* the liveness properties, which are out of the prover's reach under fairness:
  `QueuedWorkDrains`, `FaultGoesAway`, `TimeSettles`, `RestReleases`,
  `StopIsPublished`, `BaselineComes`, `UpdateEnds`, `UnsupervisedStops`,
  `TransferEnds`, `ClusterSettles`;
* `ReportedIsDone` across a wrap of the sequence number, on the small instance only.

Every other invariant and action property of a passing run is a theorem.

## 6. Where code and text disagree

* **`fiesta_torn`.** A write of local time that is reported as failed may have reached
  the RTC. `clockTimeKeepLocal` (`clockTime.c:196-210`) then leaves the state at
  "UTC, marker missing", and half a minute later the marker is stored over local time
  without reading anything back; the clock sends local time as trusted until a GPS
  frame corrects it. `ARCHITECTURE.md:289`: "The marker is stored only after the RTC
  reads back the new UTC."; line 302: "Every write is read back and checked."
* **`flash_confirm`.** The digest of an image is verified once (`sc_core.c:2028`), the
  file is opened again for the copy (`sc_flash.c:1163`), and the greeting at the end
  compares the version only (`sc_core.c:2161`): an image rebuilt meanwhile under the
  same version is installed and reported as done. `sc_core.h:419` says the greeting
  confirms the new firmware, `PROTOCOL.md:259-260` that the checksum is checked right
  before the reboot.
* **`status_starves`.** Every transmission of the speed starts the 2 ms pause before a
  status frame (`can.c:128`, 212), and a speed that differs from the one sent is sent in
  the next pass (`can.c:293-303`). The speed is measured anew at each new edge of the Hall
  sensor (`rpm.c:203`): with 32 edges to a revolution there is one in each millisecond
  above 1875 rpm, and a pass with its pause (`CORE_OPERATION_DELAY`, 1 ms) may be barely
  longer than that. While the measured speed differs from pass to pass and passes begin
  less than 2 ms apart, no status frame goes out; no transmission fails in this run.
  `start.c:568-570` services the queue once more "so status frames keep their rate", and
  `test_can.cpp:605` is named for that; its test changes the speed less often. The run
  shows that nothing bounds the wait, not how likely a long one is: a pass of 2 ms, or two
  equal measurements in a row, let a frame through. The intervals are the code's: 2 ms,
  the retry after 10, the heartbeat after 100.

### Seen while modelling, without a run

Trouble codes and expander:

* A write of a relay that failed is not repeated and nothing else makes a transaction
  come: relays are written when what they should be changes (`engineFan.c:82-84`,
  `engineHeater.c:44-53`, `heatedWindshield.c:116`, `glowPlugs.c:130-143`). Until the next
  change the relay stays as it was and DTC_PCF8574_COMM_FAIL stays active, although the
  expander answers again.
* The storage does not open at start-up and a remembered fault is reported again: the
  blank entry is dated anew and later written over the earlier date
  (`dtcManager.c:766`; `dtcManager.h:90` speaks of the first occurrence).
* A load that fails half-way and is retried sets `active` to false for a fault that
  was reported in between without becoming pending (`dtcManager.c:418`).
* A clear requested more than once a second while the storage is closed restarts the
  retry interval each time (`dtcManager.c:900`).
* Core 1 stops the pump through the expander and its report may write the flash
  (`sensors.c:603`; the ECU's README keeps flash writes on core 0).
* A write without acknowledgment leaves its intent in the shadow latch; the next
  `pcf8574_read` replaces it by what the device holds (`sensors.c:619`).
* A reader of `seqlock.h` gives up after four torn copies (line 30); the time then
  reads as unknown although it is valid.

Adjustometer and drive:

* A sample taken on core 1 may say pulse 0 because the signal was lost and not say
  that it was lost (`Adjustometer/sensors.c:691`); the frame for the ECU is built by
  core 0 and not affected.
* The level a fresh history of the current scan starts from is taken from one
  unconfirmed frame (`vp37_current.c`), while an edge counts only "once the new level
  holds" (`vp37_current.h:58-62`).

Diagnostics:

* A request that is no flow control is read and dropped while an answer waits for its
  flow control (`obd-2.c:445`); a flow control in time is not looked at when the loop
  comes more than the time-out late (`obd-2.c:395`).

Bench tests, parameters and configurator:

* `PROTOCOL.md:211-212` stops a configurator's test when its session ends, but the end
  is a flag that is cleared when the next configurator test starts
  (`tests_helpers.c:1672`, 1493); a test whose request was queued before the end and
  taken after it runs on until the keepalive is over.
* Revert restores the spinners from the values applied last (`sc_values_tab.c:410`),
  among them values that were applied and not committed, which the module has just
  given up.
* A port opened anew counts from one again (`sc_transport.c:582`), so that a late reply
  from before may carry the awaited number; only its text tells them apart. The text
  does not help once the number has wrapped from 0xFFFF to 1 (`sc_transport.c:594-606`):
  when the first attempt of a command carries 1 and its answer is late, the second, on
  the port opened anew, carries 1 as well. The late answer is taken for the second's, and
  that of the second is still to come when the next command is late too and is sent again
  as number 1. `PROTOCOL.md:29-31` and 280 let a late reply be skipped by its number. TLC
  shows a value reported as set that is not when the number wraps after four
  (`MaxSeq = 4`, `MaxEdits = 2`).
* A module reset between Apply and Commit answers the commit with OK although its
  staged values are gone; a greeting within a session drops the authentication.
* A lost acknowledgment of the reboot request is reported as a failed reboot while the
  module sits in its boot loader; a later update of another module then finds its
  drive. A module also stays there after the drive was not found in time, a failed
  update leaves the list of detected modules stale, and the Values tab is not locked
  during an update (`sc_flash_tab.c:1095`).

Fiesta clock:

* A time written as UTC that was torn while the marker is already stored stays trusted
  until it is corrected.
* An invalid date of the RTC while the change is unsettled holds the retry back before
  any frame comes (`rtcSync.c:92`); the set mode never ends by itself.
* A read that fails leaves an old `rtcDateTime`, which a press of a button then stores
  (`clockPart.c:219`, 284); staged settings survive the session that staged them.
* A crash between the write of UTC and its marker is read as local time at the next
  start.

Cluster:

* An EGT alarm is swallowed for as long as a flapping coolant alarm keeps the buzzer
  busy at its instants: it is remembered as sounded (`buzzer.cpp:106`,
  `buzzerStrategy.cpp:56`). `NoLongSilence` holds, since the buzzer then sounds.
* `Clocks/config.h:20` speaks of three missing heartbeats; two suffice when the frame
  before them came late in its pass.

## 7. Plan

What is done of the first plan: parameters and configurator, the ISO-TP transport, the
Fiesta clock, the cluster, the bench tests, the firmware update, and the proofs of
section 5. Next, with what each adds:

1. What `ReportedIsDone` still promises when the sequence number wraps on an open port,
   as a weaker property and a theorem without that hypothesis.
2. `CurrentScan` and `CurrentMatch`: the blocks of the current measurement, their edges
   and pulses (`vp37_current.c`), and the match of a pulse to the command that was
   latched for it (`vp37_current_control.c`). Property: the command a pulse is judged
   by is the one that drove it.
3. `EcuClock`: the time received over CAN, its age and its sequence lock (`rtcTime.c`,
   `seqlock.h`), with `FiestaClock` at the other end.
4. `DriveHandover`: start-up of core 1 and the take-over of the drive (`start.c`).
5. `ExhaustLink` and the oil module: what Clocks and the ECU receive from them.
6. Actuators with `ExpanderBus`: engine states, countdowns, hysteresis.
7. `EngineSpeed`: the interrupt ring with its time-out.

Components that interact are checked in one composed run where their state spaces
allow it, and shallower properties give way to deeper ones.

## 8. Not modelled, and why

The floating-point control laws, analogue conversions, maps and filters are data for
these models: what they compute is left open. Drawing (gauges, displays), formatting
of telemetry, replies and logs, translations, the log viewer and the scripts keep no
state the rest depends on; they are a large part of the repository's lines. The
services of the diagnostics and the GPS map are look-ups. `FiestaClock` leaves out the
conversion between UTC, CET and CEST and the range of years, `Configurator` the
read-only commands and the text of the replies. The HAL (flash, I2C, CAN, multicore
start, the session of the serial protocol) is not in this repository and appears as
what its callers may meet: success, failure, delay. The other components of section 1
wait for their place in the plan; `PROJECT.json` states for each what is covered and
what is not.
