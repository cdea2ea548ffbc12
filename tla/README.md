# A TLA+ development of the BLACKSTART cyber range

BLACKSTART simulates a water tank under a level controller, an engineering
backstop that no supervisory command can override, and a scenario engine that
disturbs both. `docs/formal-assurance-roadmap.md` lists properties worth
formalising (P1 to P5) and warns that a proof about a model says nothing about
the Python unless the correspondence between them is kept. This directory holds
the model, the checks, the proofs, and that correspondence: `PROJECT.json` maps
every definition to the lines it translates.

Contents: [inventory](#inventory) · [modules](#modules-and-their-correspondence-to-the-code) ·
[runs](#runs) · [fairness](#fairness) · [proofs](#proofs) ·
[findings](#findings) · [not modelled](#what-is-not-modelled) · [plan](#plan)

## Inventory

### The simulation kernel

| Part | State it keeps | Operations | Correct when |
| --- | --- | --- | --- |
| Process (`core/physics/process.py`, `core/models.py`) | tank and source level, motor, valve, flows, spill | `slew_valve`, `step` | level within the tank, volume conserved in every step, valve travels no further than commanded |
| Instruments (`core/physics/sensors.py`) | last report, bias and freeze faults | `read`, `read_independent_element` | faults reach the transmitter only; the independent element tells the truth up to its noise |
| Level controller (`controller/control_logic.py`) | belief that the pump runs, last start and stop, reserve protection | `scan`, `notify_pump_denied` | once stopped the pump stays off for its minimum time, denials included; no denial goes unnoticed, and without the backstop belief and motor agree |
| PLC scanner (`controller/plc_sim.py`) | held request, time of the next scan | `execute` | outputs change at scans only |
| Backstop (`controller/backstop.py`) | effective setpoint, latched trip, last permissive, last stop | `constrain_setpoint`, `evaluate_permissive` | BS-01 to BS-05 protect INV-001 and INV-003 whatever is requested, and never lock the plant out for good |
| Runner (`scenario_engine/orchestration.py`) | the clock, the schedule, event log and trace | `run` | fixed order of phases; every effect applied once and reverted |
| Effects, schema (`scenario_engine/effects.py`, `schema.py`) | what each schedule entry saved for itself | `activate`, `tick`, `deactivate` | an event holds while active and leaves nothing behind |
| Invariant engine (`core/invariants/`) | per invariant: breach timer, totals, intervals, peaks | `evaluate`, `finalise` | violations are the breaches that persisted; the reported aggregates agree with the record |
| Consequence classifier (`core/consequence/classifier.py`) | three timers, dwell times, transitions, maximum | `classify`, `summary` | the class is the one of the taxonomy; C5 is hard to reach; the summary is a function of the trace |

In a timestep the runner applies the effects, reads the instruments, constrains
the setpoint, lets the scanner execute the controller, lets the backstop decide
on the pump, tells the controller of a denial, actuates, records (invariants,
classes, trace) and integrates the physics. Everything is sequential. What is
hard here is time: a held request that is a scan old, two anti-cycle timers
with different limits restarted by different events, a latched trip, noise on
a reading that is one step ahead of the physics.

### The services

The controller service (`services/controller/app.py`) runs the same kernel from
an asyncio loop, while the framework runs `POST /setpoint` handlers in its
thread pool: real threads sharing the backstop, the request and the snapshot
without a lock. HMI, historian, broker (`idmz`) and enterprise view form a chain
of pollers (`services/common.py`), each caching the last good sample of the one
before it. Polls are lost, time out and are refused, services restart with
nothing in hand, and the controller restarts its clock; the views must not go
back, must catch up, and must say when they are stale.

### Evidence and analysis

| Part | State it keeps | Operations | Correct when |
| --- | --- | --- | --- |
| Record of an experiment (`orchestration.py`, `telemetry/`, `analysis/metrics.py`) | event list, remembered signals, trace rows | emit on a change, sample the trend, `compute_metrics` | the events tell the whole run; a recovery is sustained |
| Second opinion (`analysis/verification.py`) | none | recount from `process.csv` | agrees with the metrics of the same run |
| Evidence package (`evidence/package.py`, `verify.py`) | twelve artifacts and a manifest per experiment | `write_evidence`, `verify_evidence`, `reproduce_experiment` | what verifies is what a second run would write; nothing that verifies is written over |
| Commands and release (`cli/main.py`, `experiment/flagship.py`) | the packages of a command, the files of a release | `experiment run`, `compare`, `flagship`, `evidence verify` | what a release manifest signs is one command's whole work |

The commands are processes that share a directory. Each writes its artifacts
one after the other, recalculates its results in the middle, and ends with a
manifest; it may be killed anywhere, two may write one package, and a package
may be damaged at rest. `analysis/compare.py`, `plots.py`, `core/graph` and
`scripts` are sequential and derive results from what the parts above produced.

`PROJECT.json` lists every component with its status, and the hazards of the
code, each at its line, with the properties that would catch it.

## Modules and their correspondence to the code

| Module | Models | Remarks |
| --- | --- | --- |
| `Clock` | shared arithmetic | ages that saturate, see below |
| `ProcessConfig` | configuration read by more than one part | |
| `SetpointConstraint` | `constrain_setpoint` (BS-01, BS-02) | shared by `ScanLoop` (sequential) and `SetpointService` (as steps) |
| `EngineeringBackstop` | `evaluate_permissive` (BS-03 to BS-05), disabled variant included | |
| `LevelController` | `LevelController` and `PlcScanner` | |
| `WaterProcess` | `WaterProcessModel` | |
| `Instruments` | `SensorModel` | |
| `ScanLoop` | `ExperimentRunner.run`: composes the five above | three actions per timestep: `Command`, `Interlock`, `Integrate` |
| `PumpProtection` | abstract: what a motor protection promises | refined by `ScanLoop` twice, for the motor and for the command |
| `ScenarioEffects` | `_apply_scenario_effects`, the effect registry, the order rules of the schema | one action per schedule entry |
| `SetpointService` | `LiveProcess` and the POST handler as threads | one action per access to shared state |
| `CommandRate` | the observation of INV-004: jumps of the setpoint, starts in the trailing hour | extended by `InvariantMonitor` |
| `InvariantMonitor` | `Invariant.evaluate`, `finalise` on the observations of `water.py` | one invariant stands for all: they share nothing |
| `ConsequenceClassifier` | `classify`, `_record`, `summary` | |
| `ServiceChain` | `UpstreamPoller`, `archive`, `/view`, `/query`, `/summary`, the dashboard's status | any part of the chain, chosen by `Hops` |
| `ExperimentRecord` | the events, the trace, `compute_metrics`, and `verify_results` on the exported rows | extends `ConsequenceClassifier`: a step of the record is a step of the classifier |
| `EvidenceStore` | abstract: what an evidence root promises to a reader | |
| `EvidencePackage` | `write_evidence`, `verify_evidence`, the commands that write, the release | implements `EvidenceStore` |
| `<module>Proofs` | theorems about `ScanLoop`, `ScenarioEffects`, `SetpointService`, `InvariantMonitor`, `ConsequenceClassifier`, `ServiceChain`, `ExperimentRecord` and `EvidencePackage` | `ExperimentRecordProofs` extends `ConsequenceClassifierProofs` as the record extends the classifier |
| `MC*` | constants for TLC | |

Abstractions, and why they lose nothing the properties speak of:

* **Time.** The code compares differences of absolute times with limits. A
  variable such as `sinceStop` is that difference in timesteps, saturated at
  the limit. No comparison can tell a saturated age from a greater one, and the
  initial values of the code (one limit in the past, or `None`) are saturated.
* **Levels and flows** are integers in one unit; a flow is the change of level
  it makes in a timestep. The pump curve and Torricelli's law are tables of
  which only the range and the zeros are assumed, so a result holds for every
  curve with those. Rounding of floating-point arithmetic is not modelled.
* **Noise** is a bounded choice. The code draws it from a Gaussian, which has
  no bound; `ElementNoise` is the error a result tolerates, and the shipped
  numbers leave much room: trip 4.20 m, one step of inflow at most 0.0083 m,
  safe limit 4.50 m, so that the safety of the level survives an error of
  0.29 m of an element with a standard deviation of 0.01 m.
* **Scenario effects in `ScanLoop`** are an arbitrary environment: at every
  timestep any request, bias, freeze, source level and demand of the constants.
  The schedule itself, which is far more regular, is `ScenarioEffects`.
* **Recording** (event log, trace rows, counters of rule activations) reads the
  state and changes none that is read back. The monitor and the classifier are
  therefore modules of their own over arbitrary histories of observations, and
  what holds there holds for the histories the loop produces.
* **`SetpointService`** splits `constrain_setpoint` at its reads and writes of
  the effective setpoint: `Measure`, `Travel`, `Commit`. Reads of values no
  other thread writes are not split. `Publish` is the snapshot at the end of
  `_step`; its three reads of request, effective setpoint and origin are one
  step.

* **`ServiceChain`** splits a poll where the event loop may switch: `Ask` is the
  moment the upstream service composes its response, `Take` or `Lose` the moment
  the poller goes on. A sample is its time `t_s`, which is all the archive
  compares, and the run of the controller it came from, which the code does not
  know and only the properties read. `aged` is such a ghost too: whether a
  service on the way had no recent sample itself when it answered. Intervals
  are left to fairness: a hop may be polled often or seldom.

* **`EvidencePackage`** has two steps for an artifact, because a file is truncated
  before it is filled, and one for each digest. An artifact is whole, partial,
  garbled or absent, and a verdict may be one of failure; as an experiment is deterministic, a whole one has one
  content whoever writes it, except `environment.json`, which carries the time
  of its run and stands here for its writer. Whether the metrics of a package
  agree with their recalculation is a fact of the experiment (`agree`), so both
  outcomes are explored. A digest is the content it was taken of. A release file is
  the command that wrote it, since a release writes over whatever is there.
  `signed`, `forgotten` and `overlapped` are ghosts that only the properties read:
  what the release files were when the manifest was written, which commands began
  before the evidence was last cleaned, and whether two published at the same time.
* **`ExperimentRecord`** gives each sample of the classifier a level, the status of
  each invariant (`OK`, `APPROACHING`, `VIOLATED`), and the other signals the events
  tell of. The schedule of an experiment is the list of its effects, each with its
  begin and end in timesteps: what the events tell of them does not depend on what
  they do, which is `ScenarioEffects`. Levels are integers of a unit finer than that of
  `process.csv`, which is finer than that of the metrics; rounding to either
  unit is `Nearest`, and a value half-way between two may go either way, as the
  binary representation of the decimal decides.
* **`CommandRate`** counts in timesteps and in tenths of a start per hour.

Every module carries its mutants next to the definitions they alter: plausible
bugs (a dropped rule, a timer that does not reset) used to show that each
property of a passing run can be violated.

## Runs

| Run | Shows |
| --- | --- |
| `ScanLoopEnabled` | with the backstop: the tank never passes the safe limit and spills nothing, the pump never runs dry, the controller's setpoint is always in the range, motor and command implement `PumpProtection`, and what the controller believes running is energised: no denial goes unnoticed |
| `ScanLoopDisabled` | without it: volume is conserved although the weir spills |
| `ScanLoopLive` | trips reset, and the pump runs again and again |
| `ScanLoopBelief` | violation: the motor runs while the controller believes it stopped, with the backstop enabled |
| `ScenarioEffects` | events happen on time, the latest active one holds, ramps arrive, and what ends is reverted |
| `SetpointService` | whatever the interleaving, the service settles on the last request, and how far the range is left is bounded by the number of posts, not by what is posted |
| `SetpointRace` | violation: a post during a tick leaves the range of BS-01 |
| `InvariantMonitor` | violations, intervals, totals and one-sided peaks agree with the record of samples; INV-004 judges the commands by the trailing window |
| `ServiceChain` | no view goes back in time, the archive keeps the order of the process, and views catch up once nothing fails |
| `ExperimentRecord` | class and summary agree with the taxonomy, and a row is C5 exactly when a catastrophe is earned; the events tell the run, statuses and schedule included; a recovery is sustained, the recount agrees |
| `RecountRounding` | violation: the recount of the maximum differs when the file has to round it |
| `EvidencePackage` | what verifies is reproducible, what a release manifest signs is whole, and the reader's store is implemented, with crashes, races, damage and cleaning |

Bounds:

* `ScanLoop*`: levels 0 to 10 with the thresholds in the order of
  `configs/process.yaml` and `architecture.yaml` (suction, reserve, range,
  reset, trip, safe limit, overflow). `TripMargin` holds with equality (trip 7,
  noise 1, step 2, safe limit 9), and the safe limit is reached, so the level is
  not safe by slack. The timers
  are two to five timesteps and the scan two, so that denials fall between
  scans and every timer expires while another runs. Requests lie below, in and
  above the range. In `ScanLoopLive` the anti-cycle limits are 5 and 3, because
  equal limits would hide a lock-out, and the demand is never zero: a tank
  nobody draws on stays full.
* `ScenarioEffects`: five timesteps of three units, so that events lie on and off
  the grid, one of them after the start of the last timestep; the duration is one
  unit more than the timesteps make, which the rounding of `round(duration_s /
  dt_s)` allows. Up to two events of every effect, in every order, with durations
  that end on the grid, off it, within one timestep and never. Two events on one
  field follow one another, or the later lies within the earlier if both save what
  they find (`demand.step`, `setpoint.override`). The run excludes what breaks a
  property in the code: a duration on a ramp (a number in `RampDurations`), a bias
  within another bias, and overlaps that cross (`MayOverlap`). A freeze or a blackout
  within another one breaks it likewise.
* `SetpointService`, `SetpointRace`: the loop and two handlers, two posts. One
  handler suffices for the race, two let handlers race each other. The range
  is five wide and the travel two, so that the travel overshoots. Two posts
  never leave the range by more than two travels; it takes three to see that a
  post can cost more than one, four of them with three posts. That instance is
  too large for the liveness checked here, and the proof covers it.
* `InvariantMonitor`: six samples of four values on both sides of every
  threshold, tolerances of 0, 2 and 3 timesteps: long enough for a violation,
  a recovery and a second breach. For INV-004 an hour is four timesteps and the
  minimum window two, so that starts leave the window and young experiments are
  judged by less than an hour.
* `ExperimentRecord`: five samples; sustained conditions need two, a
  catastrophic unsafe period three, so that the unsafe time
  can add up over two periods. Eight samples cover the conditions singly and in the combinations C5 asks
  for; `RecordAssumption` and `Coherent` exclude samples no tank shows. Four of
  them have an invariant that approaches its limit, INV-001 among them, so that all
  three statuses follow one another, and no change between two of them goes untold. There are four
  schedules: without an effect; with a blip that begins and ends in the timestep in
  which another effect ends; with two effects that begin together, of which one is
  cut off by the end of the run; and with one that has no end. Effects are told by
  the first timestep at or after their time, so the fractions of a timestep in
  their times are left out. In `ExperimentRecord` every level is one that
  `process.csv` can tell; `RecountRounding` takes levels between, one of them
  4548, which the file tells as 4550 and the metrics as 4500.
* `EvidencePackage`: two commands, each of which writes a package alone, or makes a
  release of two variants of one experiment, or one of another experiment, so that
  two releases may share their packages or none; three artifacts of the kinds that
  matter (one that differs by its writer, one the verdict is computed from and only
  its digest protects, and the verdict), three release files with `README.md` in
  the middle, and one damaged package between two cleanings. Evidence and release
  are cleaned each by itself: the identifier of an experiment contains the hashes
  of configuration and source, and `--evidence-root` and `--output-dir` are options
  of their own. The constraint `OnlyWhatIsWritten` keeps packages that no command
  of a run writes as they are, and empty. Two commands are what a race takes; the theorems have
  no bound on any of these.

* `ServiceChain`: controller, HMI, historian and broker, two runs of the
  controller of three samples each, so that the same time occurs twice; an
  archive of two, so that it turns over; two failures make a poller unhealthy
  instead of five, and can come from one lost poll and the refusals of a service
  that restarted empty. A controller that restarts has not reached `LastTime`: the
  code's clock never ends, so a later run always passes the last time of an
  earlier one, which the archive needs in order to tell them apart. Without this
  bound a second run could end at the very time the archive has already, and
  `ViewsCatchUp` would fail of the model's clock.

`CHECK_DEADLOCK FALSE` appears where an experiment has an end: effects, monitor
and record stop after their last timestep. In the chain it is the last time
of the last run. The scan loop and the setpoint service never stop, and TLC
checks that they do not.

## Fairness

`ScanLoop` has weak fairness of `Next`: the loop is one thread without a
blocking call, so it takes its next phase. Nothing is assumed about the
environment's choices beyond the constants.

`SetpointService` has weak fairness of the loop's steps and of the steps of each
handler whose call has begun. `run` ticks until cancelled, and the operating
system schedules a thread of the pool until its handler returns. Posting is not
fair: nobody has to send a setpoint.

`ServiceChain` has weak fairness of the controller's step and of the poll of each
hop: `_loop` polls until cancelled, every request has a timeout. Losses and
restarts are not fair, and each has a bound: `ViewsCatchUp` speaks of the time
after the last of them.

## Proofs

Every invariant and every action property the passing runs check is a theorem,
for every value of the constants its hypotheses allow. What stays with TLC alone is
listed at the [end](#what-is-only-model-checked) of this section.

### The scan loop

`ScanLoopProofs` proves, for every value of the constants the assumptions allow
(any tank, any curve, any limits, any environment):

| Theorem | Statement | Hypotheses |
| --- | --- | --- |
| `TypeCorrect` | `TypeOK` | none |
| `LevelSafety` | `LevelStaysSafe`, `EnergisedOnlyBelowTrip` | `Enabled`, `OrderedTrip`, `TripMargin`, `InitiallySafe` |
| `SetpointSafety` | `EffectiveSetpointInRange` | `Enabled`, `OperatorInRange` |
| `SuctionSafety` | `NeverRunsDry` | `Enabled` |
| `MotorProtected` | `MotorIsProtected` (refinement of `PumpProtection`) | `Enabled`, the pump initially off |
| `CommandProtected` | `CommandIsProtected` (refinement) | the pump initially off |
| `MassBalance` | `VolumeConserved` | none |
| `TripIsHeeded` | `EnergisedOnlyBelowTrip` | `Enabled`, `OrderedTrip` |
| `DenialsReachTheBelief` | `DenialsAreBelieved` | none |
| `BeliefIsTheMotor` | `MotorFollowsBelief` (both directions) | not `Enabled` |

They are P1, P2 and P3 of the roadmap, P3 with the dynamics abstracted to a
bounded inflow per step. P4 (the maximum never falls) is part of
`SummaryMatchesTrace`.

The assumptions are those the configuration models enforce (non-negative
limits, ordered hysteresis of the reserve, `LoaderAssumption` for the
validators across components) and `SetpointMin < SetpointMax`, which
`SetpointBoundInvariant` enforces. The hypotheses are **not** enforced by the
loader: `OrderedTrip` (reset below trip), `OperatorInRange`, `TripMargin` and
`InitiallySafe`. The shipped configuration satisfies them. Without the first the
permissive can be given above the trip level, since a latched trip resets on
the next reading; without the second the first setpoints are outside the range;
without the third one step of inflow reaches past the safe limit.

How the arguments go:

* **Type correctness** needs `TypeInv`, which adds that after the command phase
  a request is held and a report exists: only then does the interlock have a
  Boolean to decide on. One lemma per action, one per component operation.
* **Level safety.** `LevelStaysSafe` is not inductive: nothing in it says why
  the pump is off near the limit. `SafeInv` adds `EnergisedOnlyBelowTrip`. In
  the interlock phase a permissive implies a reading below the trip level
  (`PermitsBelowTrip`, which is where the latch needs `OrderedTrip`), hence a
  true level below trip plus noise; integration then adds at most one step of
  nominal flow, which `TripMargin` keeps within the safe limit. With the pump
  off the level does not rise. No fact about setpoint, transmitter or
  controller is used: this is the independence the backstop is meant to have.
* **Setpoint safety.** Both ends of a travel are in the range, so every point
  between is (`TravelStaysWithin`).
* **Refinements.** `RecordInv` states that motor, permissive and the backstop's
  memory of it agree outside the interlock phase; then the interlock phase is a
  `Drive` step, integration a `Cool` step and the command phase a stutter. For
  the command, scan and notification are both `Drive` steps.
* **Mass balance.** The floor at zero is idle because the outflow never exceeds
  the level plus the inflow.
* **The trip alone** (`TripIsHeeded`) needs no induction beyond the types: wherever
  the tank began and whatever a step adds, the interlock phase decides on the
  reading of this timestep.
* **Belief and motor** may differ in two ways. What the controller believes running is
  energised (`DenialsAreBelieved`): between scans the held request outlives the
  belief, never the other way about, and a pump that was denied is believed stopped
  by the end of the interlock. The converse, a motor that runs believed stopped, is
  excluded without the backstop (`BeliefIsTheMotor`): there the held request is the
  belief, and the motor follows it from the interlock on. With the backstop enabled
  it is false, which `ScanLoopBelief` shows.

### The setpoint service

`SetpointServiceProofs` proves, for any finite number of handlers, any posts and
any setpoints:

| Theorem | Statement | Hypotheses |
| --- | --- | --- |
| `ServiceTypeCorrect` | `ServiceTypeOK` | none |
| `OvershootBounded` | `OvershootIsBounded` | `Enabled`, `OperatorInRange` |

* **The overshoot is bounded** although the loop ticks for ever. A handler can
  carry the effective setpoint one travel further than anything was, when it
  travels from where it did not measure. The loop can do that again and again,
  but only if a handler wrote between its measurement and its travel, and each
  handler writes once per post. `OvershootInv` counts both: `Spent` grows by one
  when a handler has its result and by one when it writes it, everything present
  or pending lies within `Reach` (`Reached`), and while the loop is about to
  travel from where it did not measure (`LoopIsFresh` fails), everything lies one
  travel further in, so that its travel was paid for by the write. A naive
  bound of one travel for each post holds with two posts and fails with three.

### The evidence package

`EvidencePackageProofs` proves, for any number of packages, commands, artifacts,
release files and damages:

| Theorem | Statement | Hypotheses |
| --- | --- | --- |
| `EvidenceTypeCorrect` | `EvidenceTypeOK` | none |
| `VerificationIsSound` | `VerifiedReproduces` | none |
| `StoreIsImplemented` | `StoreImplemented` (refinement of `EvidenceStore`) | none |
| `ReleasesAreWhole` | `ReleaseIsWhole` | none |

The assumptions are those of `EvidencePackage`: the names are distinct,
`environment.json`, `process.csv` and `verification.json` are among them, what
the verdict is computed from is written before it, as in `ARTIFACT_NAMES`, and the
release manifest is the last release file and written once. Nothing is assumed of
which packages two releases share. `ReleaseIsWhole` itself says what it does not
promise: nothing of the files when two commands have published at the same time
(`overlapped`), and nothing of the packages when one of them was raced or the
evidence has been cleaned since (`forgotten`).

* **Verification is sound.** That a package verifies says nothing about how it
  came to be, so `WriterInv` follows its writers: what a command is done with is
  whole, or truncated again by another command in a package known to be raced
  (`FilledInv`), what it has recorded and sealed likewise (`RecordedInv`,
  `SealedInv`), a truncated artifact is being filled or its writer came to no
  good end (`PartialInv`), and whoever is past the recalculation has seen it
  agree (`AgreedInv`). The hard case is a race: one command may recalculate from a
  trace the other has truncated, and then knows nothing. `RacedInv` says that in
  this case somebody has yet to recalculate: the one who truncated it. When the
  package is at rest and nobody was stopped there is no such command, so the
  last to recalculate has seen a whole trace.
* **The store is implemented.** A command alone at its package works on one
  without a manifest (`UnsealedInv`), so a step of it shows as nothing, as `Begin`
  or as `Complete`; in a harmed package every step is a `Decay`.

* **A release is whole**, in two halves. Of the *files*: a command that publishes alone
  has written every file before the one it is at (`PublishInv`), whatever stopped
  releases have left behind, because it writes over each; so the manifest, which comes
  last, signs its files only (`SignedInv`). `OnePublisherInv` is what `overlapped`
  denies. Later releases may write over the files, and the one that is refused at
  `README.md` leaves the old manifest beside its own: then the manifest is of files
  that are gone, but it never signed them. Of the *packages*: a command that may yet
  publish, or whose manifest stands and whose evidence was not cleaned, is relied on
  (`Relied`). What it has written is not empty even when it has been damaged once
  (`Standing`), so no check opens it (`NotRewrittenInv`), so it has one owner
  (`OneOwnerInv`), whose environment and audit it keeps (`LeftInv`, `KeptInv`,
  `OwnInv`). This half is claimed only while no package is raced.

### The scenario effects

`ScenarioEffectsProofs` proves, for every scenario, timestep and number of steps:

| Theorem | Statement | Hypotheses |
| --- | --- | --- |
| `EffectsTyped` | `EffectsTypeOK` | none |
| `EventsAreOnTime` | `EventsHappenOnTime` | none |
| `FieldsAreReverted` | `FieldsReverted` | `Apart`, `RampsLast` |
| `EffectsHold` | `ActiveEffectsHold` | `Apart`, `RampsLast` |
| `RampsReachTarget` | `RampsArrive` | `Apart`, `RampsLast` |

The hypotheses are what the schema does not check and the shipped scenarios keep: on
one field an effect ends before the next starts (`Apart`), and a ramp, which has no
`deactivate`, has no duration (`RampsLast`). Without the second the properties are
false (see the [findings](#findings)). The first is stronger than it need be: effects
that save what they find may nest, which the run checks and the theorems leave out;
overlaps of other kinds make the properties false.

* `TimelyInv` says what the pass over the schedule has already settled at any entry of
  it: behind the current item no pending event is due and no active one expired.
  That is where the inclusive and exclusive comparisons of `schema.py` matter.
* `FieldsInv` says who holds a field: entries on one field take turns (`InTurn`), a
  field nobody holds is nominal (`Untouched`), and the one who holds it has saved
  the nominal value and imposes its own (`InForce`). Restoring what was saved is
  then restoring the nominal value, which no single effect knows.

### The invariant engine

`InvariantMonitorProofs` proves, for every specification, quantity and horizon:

| Theorem | Statement | Hypotheses |
| --- | --- | --- |
| `MonitorTyped` | `MonitorTypeOK` | none |
| `ViolationsHavePersisted` | `ViolationsPersist` | none |
| `IntervalsAreRuns` | `IntervalsAreTheRuns` | none |
| `TotalsAreTheRecords` | `TotalsMatchRecord` | none |
| `PeaksAreTheWorst` | `PeaksAreWorst` | none |
| `CommandsAreJudgedFairly` | `CommandsAreJudged` | `RateSpecsFair` |

* The engine keeps a timer, totals, peaks and an open interval, the properties speak
  of the whole record. `MonitorInv` says what each of them knows of the record so
  far: the timer is the length of the run of breaches at the end (`Breaches`), the
  closed intervals are the maximal runs that ended, the open one the run that has
  not (`IntervalsSoFar`), totals and peaks are those of the record
  (`TotalsSoFar`, `PeaksSoFar`). `finalise` closes the open interval, and what
  holds of a record so far then holds of the whole.
* **INV-004.** That jumps and too many starts are violations follows from the window
  kept (`RateInv`). That a paced controller is not accused does not: the
  minimum window makes young experiments look faster than they are. `AsManyAsPaces`
  bounds the starts from any point by the time since, as long as the commands have
  been paced; with one start allowed in the minimum window (`RateSpecsFair`; the
  shipped limit of 12 per hour allows two in its 600 s) the quotient stays under the
  limit.

### The consequence classifier

`ConsequenceClassifierProofs` proves, for every horizon, sustained time and set of
samples, without a hypothesis:

| Theorem | Statement |
| --- | --- |
| `ClassIsTheTaxonomys` | `ClassMatchesTaxonomy` |
| `EscalationIsHard` | `CatastropheIsEarned` |
| `SummaryIsTheTraces` | `SummaryMatchesTrace` |

* `ClassifierInv` relates each counter to the trace: a timer is the length of the
  trailing run of its condition (`Timers`), or, for the unsafe time, the number of
  unsafe rows so far; dwell times count rows, first times are the least
  (`Dwells`, `Firsts`), the maximum is one of the classes and above them all
  (`Highest`), transitions are the changes in order (`Transits`). One lemma for each
  says what one more row does to it. `CatastropheIsEarned` and `ClassMatchesTaxonomy`
  are parts of it, because they speak of rows already written.

### The service chain

`ServiceChainProofs` proves, for every part of the chain and any number of losses,
restarts and runs, without a hypothesis:

| Theorem | Statement |
| --- | --- |
| `ChainTyped` | `ChainTypeOK` |
| `ArchiveKeepsOrder` | `ArchiveIsOrdered` |
| `ViewsGoForward` | `ViewsNeverGoBack` (action property) |

* A sample moves outwards one place at a time. `Ordered` gives the places a rank, from
  the controller through responses in flight and caches to the archive and on, and says that
  what is held further out is never newer than what is held further in. A poll, a
  loss and a restart each only move a sample out or remove one; `archive` refuses
  what is not newer than its last, which with `Ordered` keeps the archive in order.

### The record of an experiment

`ExperimentRecordProofs` proves, for every length of the experiment and every set of
samples:

| Theorem | Statement | Hypotheses |
| --- | --- | --- |
| `RecordTyped` | `RecordTypeOK` | none |
| `EventsAreTheStory` | `EventsTellTheRun` | none |
| `TheRecountAgrees` | `RecountAgrees` | `CsvLevels` |
| `RecoveryIsService` | `RecoveryMeansService` | none |

`CsvLevels` says that `process.csv` can tell every level. The code does not provide
it: `RecountRounding` is a run in which it fails, and the recount with it.

* Every step of the record is one of the classifier, so `RecordInv` contains
  `ClassifierInv` and takes it from there. The rest relates the event list to the
  trace: the list is in order and none of it lies ahead (`StreamInv`), the remembered
  signals are both the last ones told and those of the last row (`StoryInv`), the effects
  that have begun and ended are those the schedule has put behind the present, each told at its step (`ScheduleInv`), the next
  trend sample is due at the next multiple of its interval (`TrendInv`), and the
  intervals counted by the engine are those a reader of the rows counts
  (`IntervalInv`).
* `EventsTellTheRun` asks for the last event before a step. That it exists and is
  unique is an argument by least elements (`Least`): every non-empty set of naturals
  has one. The library has this for well-founded relations, with sets in place of
  predicates, so no induction over an operator is needed.

### What is only model-checked

* Liveness: `PumpKeepsCycling`, `TripResets`, `SettlesOnRequest` and `ViewsCatchUp`. They
  need fairness and `ENABLED`, which the proof system does not handle.
* The three violations, which are counterexamples, and the cases outside the
  hypotheses above.

## Findings

Each of these is a counterexample TLC prints for its run; `PROJECT.json` quotes
the lines.

1. **A denied pump may start behind the controller's back**
   (`ScanLoopBelief`). `notify_pump_denied` corrects the belief, but the scanner
   hands out the old request until the next scan. If the denial ends before, the
   motor runs while the controller believes it stopped. The level is still
   safe: `LevelSafety` does not depend on the belief.
2. **BS-01 can be left** (`SetpointRace`). Two threads in `constrain_setpoint`
   make it travel from a value that has already arrived. How far is bounded
   (`OvershootBounded`), it heals within the
   next ticks (`SettlesOnRequest`), and INV-001 does not depend on it.
3. **A correct run may fail its own verification** (`RecountRounding`). The
   metrics round the level in memory, the recount rounds the level in the file,
   which is already rounded: 4.554849811138401 m is 4.5548 by the one and 4.5549
   by the other, and about one level in 200 is like that. The command ends with
   a `ValueError` after ten artifacts, and a retry is refused because the
   directory is not empty.

Seen while modelling, without a run of their own:

* a demand ramp or source depletion with a duration is never reverted, because the
  two effects have no `deactivate`, while `schema.py:38-39` says an effect with a
  duration is reverted (`FieldsReverted` fails with a number in `RampDurations`);
* the dashboard calls an outdated sample live: a hop that is cut off answers with
  what it has, so every hop outward is healthy; the historian drops the HMI's
  `stale`, the dashboard ignores the broker's. `ViewsCatchUp` says only that this
  ends with the fault;
* two commands may write one package, and when one is killed the other can seal a
  truncated `events.jsonl`, `process.csv`, `control.csv` or `summary.md` under its
  own digest: the package verifies and does not reproduce. When both finish
  they may leave a package that fails verification, and both report success;
* a command that fails or is killed leaves a directory that a retry refuses until
  somebody removes it;
* a file that is not UTF-8 ends `evidence verify --all` with an uncaught
  `UnicodeDecodeError`;
* a level within half a unit of `process.csv` above a limit is exported as the
  limit, and its step then not recounted as unsafe;
* each posted setpoint spends a timestep of slew travel although no time passes,
  so the effective setpoint moves faster than BS-02 allows;
* `_peak_is_upward` knows one lower bound only, so the peak of an INV-003
  violation, whose value is the source level, is its mildest value;
* overlapping effects on one field restore values another effect imposed, and a
  bounded bias, freeze or blackout that expires clears a lasting one, although
  `schema.py` says of an absent duration that the effect persists to the end;
* `configs/consequences.yaml:107-116` gives C5 for 300 s in C4 with the current level
  at least C3, so also for a long unsafe period with the service intact, or for one that
  has ended in C3; `classifier.py` asks for C4 and for a loss of the service at that
  step, as `docs/consequence-model.md` says. `CatastropheIsEarned` states what the
  classifier does, and the conditions of the file are not what it reads;
* two releases into one output directory at the same time can leave a manifest that
  signs files of both, and report success, if they share no package: the refusal of a
  package that exists is what keeps them apart otherwise. A second release
  that is refused at `README.md` or stopped before its manifest leaves its files beside
  the manifest of the first. The digests in that manifest would tell, but
  nothing compares them with the files, and `README.md` is not among them;
* a view that is empty for a while, because a service restarted, may come back with
  something older than it showed before; `ViewsNeverGoBack` compares adjacent states
  and does not see it;
* the tolerance of an invariant is counted inclusively (`base.py:202`, "at least"),
  while `docs/adr/ADR-004` and `docs/consequence-model.md:50` say "longer than" 120 s;
* an event after the start of the last timestep passes the schema and never
  happens;
* `_excursion` of INV-005 measures to the upper limit also below the lower one;
* the time in C4 that makes C5 accumulates over separate unsafe periods, while
  the timers of the other classes reset on recovery;
* a pump that is on initially and denied in the first timestep is not protected
  by BS-05, which has no record of a stop;
* `core/config.py:327` refers to `tests/unit/test_consequence_config_alignment.py`,
  which does not exist.

## What is not modelled

* The comparison of variants and the plots: pure functions of results.
* The asset and scenario graphs and the maintenance scripts: built or run once
  from static files, no state over several steps.
* Of the command line, argument handling, printing, and the commands that only read.
* Of the evidence, files that cannot be decoded, directories within a package,
  and a cleaning of the root or of a release while a command is under way.
* Loading and hashing of configuration, parameter validation of effects.
* Floating-point rounding, and the formulas behind the two curves.
* Start-up and cancellation of the services; HTTP itself.

## Plan

Done, in this order: the scan loop and its parts, the abstract protection and
the proofs about them; scenario effects; the setpoint service; the invariant
monitor; the consequence classifier; the service chain; INV-004; the record of
an experiment with its second opinion; the evidence package with its abstract
store and the proofs about them.

The theorems cover every invariant and action property of the passing runs. What the
hypotheses leave open, in the order of interest:

1. `ServiceChain`: a bound on the age of a view in polls, the safety part of
   `ViewsCatchUp`.
2. `SetpointService`: that the effective setpoint is back in the range once no call is
   pending and the loop has ticked often enough, by a measure that decreases.
3. `ScanLoop`: that a latched trip is the only reason for a denial above the reset
   level, the safety part of `TripResets`.
4. `ScenarioEffects`: a weaker hypothesis than `Apart`, for the effects that nest on one
   field, which the run already has.
