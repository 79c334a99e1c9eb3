# HydraSim: TLA+ models, model checking and proofs

This directory holds a formal model of HydraSim, the water-treatment simulator of
this repository: TLA+ modules translated from the source, TLC configurations that
check them on small instances, and TLAPS proofs that hold for every instance.
Paths below are relative to the repository root; `hydrasim/` stands for
`src/hydrasim/`.

- [The system](#the-system)
- [Where it is hard](#where-it-is-hard)
- [Modules](#modules)
- [Runs](#runs)
- [What the models show](#what-the-models-show)
- [Claims the code does not keep](#claims-the-code-does-not-keep)
- [Proofs](#proofs)
- [What is not modelled](#what-is-not-modelled)
- [Plan](#plan)

## The system

HydraSim runs in two ways. Both use the same process model (reactor, sensors,
actuators), written in Python.

**Behind the Rust runtime** (`runtime/`). The runtime starts the Python
simulation as a child process and exchanges one JSON line per tick with it over
stdin and stdout. HTTP handlers, Modbus handlers and a periodic tick loop share
one tokio mutex.

**Stand-alone** (`python -m hydrasim`). A main loop steps the process; a
pymodbus server runs in a second thread on the same register blocks. A mailbox in
those registers takes maintenance commands.

| Component | State it keeps | Operations | Talks to |
|---|---|---|---|
| PCS control (`runtime/src/control.rs`, `commands.rs`) | operator intent: five set points, four coils | validate, store, evaluate with interlocks | called by the runtime under its mutex |
| PCS runtime (`runtime/src/runtime.rs`, `simulation_worker.rs`) | intent, last process snapshot, last outputs, last error, worker handle | snapshot, write_numeric, write_binary, modbus_image, tick loop | the worker's pipe; HTTP and Modbus servers |
| HTTP API, Modbus server (`api.rs`, `modbus_server.rs`) | one task per connection | map calls to runtime operations and outcomes to statuses | clients, runtime |
| Simulation worker (`hydrasim/simulation_worker.py`) | reactor, suites, simulated time | tick, snapshot, error answers | its stdin and stdout |
| HMI (`hmi/`) | last snapshot, operator edits, last error | poll, write, demo mode | HTTP API |
| Main loop (`hydrasim/__main__.py`, `runtime_loop.py`) | commands, enable bits, error count, the slave it holds | start up, read commands, step, publish, poll maintenance, clean up | registers, suites |
| Modbus slave (`hydrasim/modbus/slave.py`) | register blocks, events `_running` and `_server_ready`, thread | start, serve, stop, register access | main loop, clients |
| Maintenance mailbox (`hydrasim/modbus/maintenance_bridge.py`) | holding registers 200-203, coil 10, input registers 110-112 | poll_maintenance | clients, maintenance manager |
| Maintenance manager (`hydrasim/maintenance/`) | none | dispatch a target and an action to a device method | sensors, actuators |
| Field sensors (`hydrasim/sensors/`) | reading, fault, status, calibration, warm-up, drift, sample line | read, calibrate, reset, maintenance | main loop, worker |
| Actuators (`hydrasim/actuators/`) | set point, position or stroke rate, wear, faults | command, step, maintenance | main loop, worker |
| Reactor core (`hydrasim/core/`) | zones: flow, pH, chlorine, temperature | step | suites |
| CFD and digital twin (`hydrasim/hydraulics/cfd/`) | fields, evidence records | numerical steps, gates | plant evidence, library users |
| Scenarios (`hydrasim/scenarios/`) | profiles, clients | execute transactions live or offline, PCAP, bundles | Modbus clients, files |
| Plant (`hydrasim/plant/`) | profiles, launched processes | select, launch, clean up, evidence, bundles, release | child processes, files |

What makes each component correct:

- *PCS control*: no dose into a closed inlet, no flow from a disabled pump, whatever
  the order in which intents arrive.
- *PCS runtime and worker*: an answer belongs to its request; what is on display
  belongs together; "ok" means applied; a dead worker is reported and blocks nobody.
- *Main loop and slave*: a disabled pump is not driven and a paused simulation is
  held; a lost interface is left in a safe state; no server outlives its process;
  a request to end ends the process.
- *Maintenance mailbox*: each trigger is executed once, as written, and its outcome is
  attributable to it.
- *Maintenance manager*: each documented action works on each fitted device.
- *Sensors*: a value that must not be trusted is never published as normal, and only service
  brings a lost one back.
- *Actuators*: wear, calibration and deadband never make flow and command diverge for
  good; only service clears a fault.
- *Sample lines and published image*: a sensor sees the water of the right moment, in order;
  a client can tell how old what it reads is.
- *Register map*: registers do not overlap, and a value fits its words.
- *Reactor core*: chlorine is conserved and the state stays physical, whatever the
  layering of the tank and the solver do.
- *Runtime snapshot and HMI*: a quiet banner stands over a plant that runs, is up to date and is in
  order at its outlet.
- *Plant launcher*: no process and no log it knows of is left behind, and every wait ends.
- *Scenario replay*: what the loader accepts is sent in order, never early, and every
  connection is closed.
- *Bundles*: a bundle with checksums is whole, of one request, never rewritten, and tells
  one story about the process.

## Where it is hard

- **Cancellation.** axum drops a handler at its current await when the HTTP client
  disconnects. A request already written to the worker then has nobody to read its
  answer, and requests carry no identity.
- **Two threads without a common lock.** pymodbus reads and writes the register blocks
  without the slave's lock, so a client's write falls between any two register
  accesses of the loop, in the command registers as in the mailbox.
- **State tested, then used.** The loop asks `is_running` once for the commands and
  once for the enable bits.
- **Partial failure.** A write is stored before the tick that applies it can fail.
- **Crash and loss.** The worker may die at any point and is not restarted; the server
  thread may fail to start, fail to bind, or fail later.
- **Timeouts.** Startup and shutdown of the server thread are bounded waits; the thread
  goes on after a missed one.
- **Long legal histories** in sensors and actuators (fault, calibrate, reset, wear).
- **Two clocks.** Maintenance is stamped with the host's clock, readings with the simulated
  one, which falls behind by the work of every iteration.
- **Sharing nobody declared.** Two sensors put their samples into one line; two exports
  create one directory; two lists of words judge the same transactions.
- **Clean-up that is interrupted.** The launcher's `finally` may be hit by a second Ctrl-C, in the loop
  that asks as in the one that waits, and by children that ignore SIGTERM; a first one may come after
  a process was started and before it is in the list.

`PROJECT.json` lists each hazard at its source line with the properties about it, or
with the reason why there is none yet.

## Modules

Every definition that models code is listed in `PROJECT.json` under `map` with its
source lines. Operators commented "Mutant" are deliberate bugs, each used to show
that some property can fail; no specification uses them.

### PCS runtime

| Module | Role |
|---|---|
| `PcsControl` | commands, validation, operator intent, `Evaluate` with its interlocks (`control.rs`, `commands.rs`) |
| `PcsRuntime` | the runtime, its handlers, the pipe and the worker |
| `PcsView` | the abstract promise: published outputs are the outcome of the intent at that moment |
| `PcsRuntime_proofs` | theorems |
| `MCPcsRuntime` | values for TLC |

A value is a *level*: 0 is closed, 1 .. `TopLevel` is legal, `TopLevel + 1` is out of
range. The inlet threshold of 0.1 of the interlock is "level 0". A handler goes from
`idle` to `queued` (waiting for the mutex), `writing` (a request is being sent) and
`awaiting` (its answer is being read). `Begin` is what each call does once it
has the lock, up to its first await: serve a cached view, reject a write, or store it
and evaluate the outputs. `Exchange` is what it does afterwards: send, receive a
snapshot, an error line or end of file. `Disconnect` drops an HTTP handler at any of
these points: the guard releases the mutex, nothing else is undone. The worker
answers the head of `requests`, or raises (an error line), or dies (pending requests
are lost, lines already printed stay readable). A process snapshot is reduced to what
it was computed from: the outputs in the request and the actuator set points.
`holder`, `operator`, `last_process`, `last_control` and `last_error` are the fields
behind the mutex of `RuntimeState`.

### Main loop and Modbus slave

| Module | Role |
|---|---|
| `ProcessLoop` | `main`, `runtime_loop.py` and the thread of `slave.py` |
| `CommandSource` | the abstract promise: commands come from Modbus, then from nowhere for a bounded number of updates, then never from Modbus again |
| `ProcessLoop_proofs` | theorems |
| `MCProcessLoop` | values for TLC |

`pc` names the register access or the call the main thread is at; every access of
`read_modbus_commands` and `read_modbus_enable_bits` is a step of its own. `running`
and `ready` are the slave's events. `thread` is the server thread: `booting`,
`announced` (ready set, not bound), `serving`, `failed`, `unwinding`, `done`.
`Validate` is `validate_flow_rate` with NaN, negative and excess values. `setpoint` is
what the actuators were told. Flows without a slave are those of the boundary
conditions, hence any level. `wasOn`, `bound` and `writes` are history variables.

### Maintenance mailbox

| Module | Role |
|---|---|
| `MaintenanceManager` | `execute` as a function from a target and an action to a status |
| `MaintenanceMailbox` | `poll_maintenance`, register by register, and its clients |
| `MaintenanceService` | the abstract promise: a triggered command is served once, as written, and its user returns with its outcome |
| `MaintenanceMailbox_proofs` | theorems |
| `MCMaintenanceMailbox` | values for TLC |

The bridge has one step per register access (`poll` says which). A client writes
target, action and parameter, sets the trigger, polls for completion and reads status
and echo. With `WaitsForCoil` it polls the trigger coil, otherwise the status register as
`hydrasim/modbus/README.md` says. `issued` and `log` are histories of triggers written
and commands executed. `StopServing` is the loop that ended or gave the slave up while the
server thread keeps answering.

### Field devices

| Module | Role |
|---|---|
| `FieldSensor` | one sensor of each kind: `read` in its order of checks, and the service methods (`sensors/`) |
| `FieldActuator` | one metering pump or control valve: `step` and the service methods (`actuators/`) |
| `FieldDevices` | any device of the suite in the main loop, maintained through `MaintenanceManager` at any time |
| `FieldDevices_proofs` | theorems |
| `MCFieldDevices` | values for TLC |

A measured value is `held` or `lost` (NaN), and so is the reference of a calibration: a client can put any
number into the parameter, and an infinite one becomes NaN in the next hysteresis step. Of a measured value the physics
only decides in which range it falls, so that, and the rare circuit fault, is drawn. A moment in the past is an age against the
simulated clock, capped at `Old`; `lag` is how far the host clock is ahead. A stroke rate or a
stem position is a level; accumulated wear is the thresholds it has passed. Devices share no
state, so `FieldDevices` follows one, chosen at the start from every kind.

### Sample lines, register map and published image

| Module | Role |
|---|---|
| `RegisterMap` | the map that ships, its two validations (an assumption that TLC evaluates), the words of a value |
| `SampleLine` | the delay line: a bounded buffer and the search for the sample closest in time |
| `PlantScan` | a scan of the main loop: read the sensors in suite order, write the image word by word, serve the mailbox |
| `PlantScan_proofs` | theorems |
| `MCPlantScan` | values for TLC |

A word of the image remembers the value it was encoded from (`what`, `scan`) and which `part`
of it it is, so a torn or stale reading can be seen. `ServerStops` may come between any two writes; the loop
goes on scanning, and may still find a command (`mail`) in the mailbox of a server that has died, until it gives
the interface up.

### The process behind the runtime

| Module | Role |
|---|---|
| `ReactorTransport` | zones, exchange matrix with its rebuilt diagonal, density, stratification, suppressed mixing |
| `ReactorDynamics` | the right-hand side of the tank: dosing, advection, mixing, decay, buffering, cooling |
| `HmiSnapshot` | signals, areas, process status, alarms and Modbus image of a snapshot; what tiles and banner make of it |
| `ProcessRun` | intent, interlocks, worker, actuators, tank, analysers and screen, one tick per step |
| `ProcessRun_proofs` | theorems |
| `MCProcessRun` | values for TLC |

Quantities are whole numbers over a common `scale` that grows with every step, so sums are exact
and conservation can be asked for with `=`. A step is one explicit step of the derivative in the place
of the adaptive solver. `StepReactor` may also give up, as the code only logs that: the tank then keeps its
values, or takes those of a part of the step (`Cut`), and the clock takes the whole step. Both partial and whole
steps go through the bounds. `read` and `dosed` of a snapshot are the numbers the ten tiles are made of.
`ledger` and `clipped` are history variables. `ProcessRun` takes a tick as atomic, which is what
`PcsRuntime` shows about the mutex.

### Plant launcher and scenario replay

| Module | Role |
|---|---|
| `PlantSelection` | which nodes and transactions an area and a stage select (`plant/runtime.py`) |
| `PlantLauncher` | `run_live_orchestration`: start, run, and the `finally` clause, with children that live their own life |
| `ScenarioRules` | which scenario files the loader accepts and which requests the executor refuses |
| `ScenarioReplay` | connect to every server, send in order with pauses, close |
| `LabSession` | both against each other: the replay's servers are the launcher's children |
| `LabSession_proofs` | theorems |
| `MCPlant`, `MCLabSession` | values for TLC |

`at` is the line the launcher is at, `child[n]` the life of a process (`booting`, `serving`, ...,
`none` when there is none), `listed` how many of them the launcher's own list has, `asked` who has been sent
SIGTERM. `Interrupt` is a Ctrl-C anywhere: also inside `open` and `Popen`, whose log or process then exists
without being listed (`InFlight`), and in the loop that asks, which then ends as `unasked`. A SIGTERM to the
launcher itself, for which it has no handler, is left out: it runs no clean-up at all.

### Plant bundles and evidence

| Module | Role |
|---|---|
| `PlantCatalog` | the shipped profiles (`plant/profile_data.py`) |
| `PlantScenarios` | the twelve shipped scenarios, with the words the evidence looks for |
| `PlantEvidence` | controller states, process truth, reviews and sampled CFD fields of a selection |
| `PcapFrames` | which transactions fit a capture file |
| `BundleExport` | exports into one directory, racing, refused, failing half way, crashing, tried again |
| `BundleExport_proofs` | theorems |
| `MCBundleExport` | values for TLC |

`PlantEvidence` is evaluated on the real meshes and the real transactions; a transaction's texts are
reduced to the sets of words that `control.py` and `process_truth.py` search for. `file[f]` says who
wrote a file, of which request, and whether to its end.

## Runs

| Run | Instance | Checks |
|---|---|---|
| `PcsRuntimeSafe` | one HTTP client, one Modbus client, the tick loop, writes of acid flow, inlet flow and the acid enable; no handler dropped | `AnswersMatch`, `ViewCoherent`, `OkMeansApplied`, `PublishesIntent` (refinement of `PcsView`) |
| `PcsRuntimeLive` | one HTTP client that may disconnect, fair scheduling | `PipeAccounting`, `InterlocksHold`, `EveryCallReturns`, `WorkerLossReported`, `ViewConverges` |
| `PcsRuntimeStale` | as above, without fairness | violation of `ViewCoherent` |
| `LoopServed` | a server that never fails but may be late; three client writes | `TypeOK`, `NeverDrivenWhileOff` |
| `LoopLost` | a server that may fail at any time; ten tolerated errors; two writes; fair threads | `ServedIsHeard`, `NoServerAfterExit`, `FallsBack` (refinement of `CommandSource`), `OffPumpDrivenOnce`, `ZeroBeforeGivingUp`, `EndsOnRequest` |
| `MaintenanceOne` | one client that waits for the coil, four commands, fair bridge | `ServedInOrder`, `ServesAtomically` (refinement of `MaintenanceService`), `ClientReturns` |
| `MaintenanceShared` | two clients that follow the README, no coordination | `EchoConsistent`, `AtMostOnce` |
| `FieldDevices` | one device of each of seven kinds, every maintenance action, host clock up to two iterations ahead | `TroubleIsShown`, `OnlyServiceHeals`, `DeliversAsStroked`, `Settles` |
| `PlantScan` | a pH and a temperature sensor on the inlet line, a flow meter without one; six scans, a fault, two services | `SettledSample`, `SamplesInOrder`, `StampTellsAge` |
| `ProcessRun` | three zones, warmer inlet, five orders; three steps, two writes, one error | `ChlorineBalanced`, `StaysPhysical`, `NothingHidden` |
| `LabSession` | a cut of the reference plant with two endpoints, seven command lines, ten scenario files, two Ctrl-Cs | `NoOrphans`, `NobodyForgotten`, `ReplayIsFaithful`, `NeverEarly`, `LauncherEnds` |
| `BundleExport` | two users, nineteen requests (all shipped scenarios, three scenario files), two retries | `SealedIsWhole`, `NeverRewritten`, `SealedAgrees` |

What the properties say, beyond their names:

- `AnswersMatch`, `ViewCoherent`, `OkMeansApplied` hold only while no handler is dropped
  (`MaxAbandoned = 0`); this precondition is what the code needs and does not ensure, and
  `PcsRuntimeStale` shows that one dropped handler is enough. `InterlocksHold` and
  `PipeAccounting` hold all the same. `ViewConverges` says the display recovers once the
  operators are quiet, orphan line or not.
- `NeverDrivenWhileOff` holds while the server lives. If it fails between the two
  `is_running` tests, a disabled pump is driven, but in one iteration at most
  (`OffPumpDrivenOnce`).
- `ServedIsHeard` and `NoServerAfterExit` hold if the thread meets the startup and
  shutdown timeouts.
- `ServedInOrder` and `ServesAtomically` hold for one client that waits for the coil;
  `EchoConsistent` and `AtMostOnce` for any clients.
- `TroubleIsShown`: an expired or missing calibration is never published as NORMAL, and a
  supply out of tolerance, which nothing repairs, shows in every later reading.
- `OnlyServiceHeals`: a lost value comes back by calibration or reset only, an actuator's
  fault goes by maintenance only. `DeliversAsStroked` names the exception: after a zero
  calibration a pump strokes and delivers nothing. `Settles`: an actuator that is no longer
  redirected comes to rest near its set point (not at it: the deadband leaves a residue).
- `SettledSample`: one transport delay after a sensor spoke, the line gives it water of that very
  moment. It gives *both* sensors of a line the sample its pH sensor put in, if there is
  one: `temp_inlet` and `temp_outlet` then report a pH (`register_definitions.py:106`, `sensor_models.py:150`).
- `StampTellsAge`: value registers are of the scan `simulation_time` names, or of the next
  one while that is being written, never a mixture within one value; fault bits are never ahead.
- `ChlorineBalanced`: what the zones hold is what they started with, plus what entered, less what
  left and reacted, to the last unit. "Entered" and "left" are per zone volume: every dose enters
  zone 0 at the rate of the whole tank's volume (`reactor_dynamics.py:84`), so with n zones a
  dose changes the tank's content by 1/n of what a flow meter would say, in and out alike.
- `NothingHidden`: no tick error, stopped simulation, interlock or faulted analyser behind a banner without
  alarms, and neither the pH nor the residual nor the status of the outlet out of its limits, except for a
  residual that is too high, which its tile alone shows. That is *all* a quiet banner vouches for: the process
  status looks at nothing but the outlet (`snapshot.rs:42`), so the other seven tiles (`Unwatched`: raw water
  flow, pH of the inlet and of the middle, both temperatures, both dosing flows) may warn or even alarm below it.
- `NobodyForgotten`: no listed process is waited for, killed or given up before all were asked to stop, also
  when a second Ctrl-C or an unkillable child ends the clean-up. Its exception is in the property: a Ctrl-C in
  the loop that asks leaves the rest of the list unasked (`unasked`).
- `NoOrphans`: a launcher that returns leaves no process and no open log. One that raises leaves at most those
  of the node it was starting, and a process only if a Ctrl-C came between `Popen` and the list. One that a
  Ctrl-C cuts short in its clean-up promises no more than `NobodyForgotten`.
- `SealedAgrees`: truth, review, controller states and sampled fields of every area of a sealed bundle
  are there exactly for the areas with traffic, their changes and trends agree, and exceptions and
  manual operation pass for neither normal nor stable.

### Bounds

- `TopLevel = 1`: the code compares levels only with 0 and with the bound of the
  command. The proofs cover every `TopLevel`.
- `MaxAbandoned` bounds orphan lines in the pipe. One is enough to break
  `ViewCoherent`; a further one shifts the answers once more. The proofs cover every bound.
- Two ids of three dosing or inlet commands and one coil take part in an interlock; the others
  go through the same code.
- `MaxFlow = 1` and the raw values -1, 0, 1, 2 and NaN: one of each class that
  `validate_flow_rate` distinguishes.
- `MaxErrors` is the 10 of the code in `LoopLost` and 2 where the count does not
  matter. `MaxWrites` bounds the writes of the clients: two suffice to set a flow and
  clear an enable bit, three to do so and set it again.
- `MaxCommands`: four for one client (each outcome overwrites an earlier one, twice), two
  for two clients (each may overwrite the other's registers).
- `Param` has two values, the least with which a torn parameter differs.
- `FieldDevices`: `Old = 5` lets every period (warm-up 1 or 2, validity 3 or 4, drift 4) end
  and be over; `MaxLag = 2` puts the stamp of a service before and after the end of a warm-up.
  `Top = 5`, `Deadband = 2`, `Stiction = 3`: a level in every order of the code's thresholds.
- `PlantScan`: a delay of two scans and room for six samples, so the line overflows within
  `MaxScan = 6` scans when two sensors share it, as the real 100 does for 30 s of two. `DelaySeconds`, which the
  room is computed from, is a constant of its own: it is `Delay` only when a scan lasts a second, as here.
- `ProcessRun`: three zones have a first, an inner and a last; `Den = 16` exceeds every rate
  of a zone, so the explicit step does not overshoot where the implicit solver does not; three steps reach
  a suppressed layer, a dose that passes the inner zone, and a failed step between good ones; `Parts = {2}` lets a
  failed step have come half way. `AcidStrength = 8` takes the inlet's pH out of its limits within them: behind
  a quiet banner `FIT-INT-001`, `AIT-PH-IN` and `FIT-CL-ACT` do leave "normal" in this run. Temperatures
  start at 20 as in the worker, with a warmer inlet, because equal temperatures never stratify.
- `LabSession`: two children are enough for one to fail while the other runs; `MaxWord = 3` and
  `LastPort = 2` put the boundary of a word and of the port range in reach; `MaxTime = 2` bounds slow answers.
- `BundleExport`: the real widths (255, 65535, port 40000). Two artifacts have a first and a last;
  `MaxRetries = 2` lets each user come back once, or one clean up and come back. The evidence does not
  depend on the state: every shipped scenario appears with its whole selection, four cut down.

### Fairness

- `PcsRuntime`: tokio's mutex is first come, first served, so a queued handler is granted
  the lock if it is free again and again (strong fairness of `Begin`); tasks that are ready
  are polled (weak fairness of `Exchange`); the worker reads its stdin in a loop; the
  interval of the tick loop keeps firing. Nothing is assumed of the clients, and nothing
  makes the worker survive.
- `ProcessLoop`: the operating system runs both threads, and none of their waits depends on
  a client. Nothing makes the server bind or fail. Missed timeouts are excluded in the run
  with liveness (`SlowThread = FALSE`).
- `MaintenanceMailbox`: the loop polls once per time step and `poll_maintenance` runs to its end;
  a client that started a command follows it up. Nothing makes the loop serve for ever, and
  `ClientReturns` has `~serving` as its way out.
- `FieldDevices`: the loop keeps stepping its actuators (weak fairness of `StepActuator`).
- `LabSession`: the launcher's own calls return or time out (every wait has a timeout), the
  client gives up after its own; nothing is assumed of children and operator.

Deadlock is checked in the `PcsRuntime`, `FieldDevices`, `LabSession` and `BundleExport` runs.
`ProcessLoop` ends when the process does, `MaintenanceMailbox` rests when its clients have used up
`MaxCommands`, and `PlantScan` and `ProcessRun` end with their bounds, so their configurations say
`CHECK_DEADLOCK FALSE`.

## What the models show

1. **Off by one for good** (`PcsRuntimeStale`, `runtime/src/simulation_worker.rs:136`).
   After one dropped HTTP handler every process state on display answers the previous
   request. The interlocks still hold, and a quiet system looks right again.

Things the models take from the code and a reader may not expect; none contradicts a document
clearly enough to be a finding:

- During warm-up, and with a lost signal, the runtime's screen shows the true state in the place of
  the analyser's, without a mark (`simulation_worker.py:171`).
- A status code of 1 makes its tile "warning" while the area says "alarm"; a residual above 2.2 is in its
  tile only; the notice "simulation-boundary" is always active (`snapshot.rs:265-313`).
- A paused simulation still takes over new stock concentrations (`simulation_worker.py:79-107`).
- A refused export leaves an empty directory behind, which refuses the next one (`plant/bundle.py:92`).
- The process truth of an area depends on the stage selected: `HS-WTP-005` says "decrease" for the full
  cell and "review" with a rise for the supervisory stage, whose transactions do not name the failure.
- The word "unknown" (`process_truth.py:57`) matches no shipped scenario, so `HS-WTP-010` is "stable";
  the routine "pid-lite-label" is reached by none of them either. `HS-WTP-006` has the trend
  "review" beside the controller alarm "normal".
- `distribution-edge` has no mesh, so a transaction there could not be exported.

## Claims the code does not keep

These definitions state what a comment or a document says. The code breaks them; they are in no
configuration, and adding the one named to the configuration named makes TLC print the trace.

| Definition | Source of the claim | Where to add it | What happens |
|---|---|---|---|
| `NeverDrivenWhileOff` | `hydrasim/modbus/register_definitions.py:327` | `LoopLost.cfg`, as a property | the server fails between the two `is_running` tests: commands fail safe, enable bits fail open (`runtime_loop.py:235`) |
| `NoServerBehind` | `hydrasim/__main__.py:234` | `LoopServed.cfg` | a thread that missed the startup timeout still binds and serves in "no-Modbus mode" (`slave.py:315`) |
| `StartedMeansBound` | `hydrasim/modbus/slave.py:313` | `LoopLost.cfg` | ready is set before the socket is bound (`slave.py:362`) |
| `CommandsIntact` | `hydrasim/modbus/README.md` | `MaintenanceShared.cfg` | target of one command, action of another (`maintenance_bridge.py:46`) |
| `DocumentedActionsSucceed` | `hydrasim/modbus/README.md:232` | `MaintenanceOne.cfg` | REPLACE_TUBE on the fitted diaphragm pump (`dosing_pump.py:408`) |
| `LostMeansFault` | `hydrasim/sensors/sensor_models.py` ("NaN if fault") | `FieldDevices.cfg` | a circuit fault is cleared by the next reading while the value stays NaN (`base_sensor.py:360`) |

## Proofs

Every safety property the runs check is proved for every value of the constants: no number of
clients, zones, sensors, levels, files, transactions, retries or steps is bounded in a theorem. The
named assumptions of the modules are what the proofs may use:

| Assumption | What it asks | Why the code gives it |
|---|---|---|
| `TopLevelAssumption`, `RuntimeAssumption`, `LoopAssumption`, `ManagerAssumption`, `MailboxAssumption` | model values are distinct from data; bounds are numbers; at least two errors are tolerated | the code tolerates ten |
| `SensorAssumption`, `ActuatorAssumption` | an age is counted beyond every period; 1 < deadband <= stiction <= stuck error | the defaults of the fitted devices, in levels |
| `ScanAssumption`, `LineAssumption` | the fitted sensors are of the suite; delays are numbers | `create_realistic_sensor_suite`, `SampleLine.__post_init__` |
| `MapAssumption` | the map that ships is valid and free of conflicts | it has no parameter; TLC evaluates it, and the code refuses any other map |
| `TransportAssumption`, `DynamicsAssumption`, `RunAssumption` | two zones or more; an even exchange rate, so that half of it is whole; temperatures of 0 to 40 degrees | `GeometryParameters`, the bounds of `_enforce_physical_bounds` |
| `StepAssumption` | a step is short against the fastest change; no stream is below pH 0 | stands for the solver: `solve_ivp` shrinks its steps until they are accurate; without it an explicit step would overshoot where the solver does not. Only `NothingIsClipped` uses it |
| `OrdersAssumption` | only orders the runtime accepts are given | the others change nothing (`PcsRuntime` has them) |
| `LauncherAssumption`, `SessionAssumption`, `ProfileAssumption`, `RulesAssumption`, `ReplayAssumption` | node ids are unique and the order of the launch has each once; a script is a sequence of transactions | dictionaries keyed by id, the loader |
| `ExportAssumption` | an export writes at least one artifact | `bundle.py` always writes its manifest |

Further preconditions stand in the theorems themselves: `MaxAbandoned = 0`, `SlowThread = FALSE` and the like,
each a case the code does not ensure and a run or a table above shows broken, and `RoomForBoth`.

Sums over the zones, the collection of a launch order and the pass over the sensors are recursive functions.
The proofs about them are by least counterexample: `LeastNatural` (a non-empty set of natural numbers has a
least member) follows from the well-foundedness of strict inclusion on finite sets, a fact of the library;
a first lemma shows that the recursive function exists, and every later one takes the first argument at which
its claim would fail.

**`PcsRuntime_proofs`.**
`TypeCorrect`. `Exclusive`: a handler is talking to the worker exactly when it holds the mutex;
it is part of `Discipline`, which adds that a client still waiting has no reply yet and that, while
the lock is held, the outputs being sent are those of the stored intent. `PipeAccounted` needs `Discipline`: sending adds one line that somebody waits for,
receiving removes one, dropping turns an owed line into an orphan. `InterlocksAlwaysHold` is
inductive with the types; it uses the lemmas that `Evaluate` returns interlocked outputs and
`Actuate` keeps an interlocked plant interlocked. With `MaxAbandoned = 0`, the invariant
`Paired` (every line in the pipe belongs to the current exchange, and the view is coherent) is proved from `PipeAccounting` and gives
`AnswersAlwaysMatch`, `ViewAlwaysCoherent`, `OkImpliesApplied` and `Refinement` to `PcsView`.

**`ProcessLoop_proofs`.** `TypeCorrect` needs `Counted` (a slave that is held has errors left).
`Ordered` relates thread and main thread during start-up. `LostIsZero` says that once an
error has been counted while the slave is held, the set points in force and the commands
that follow are zero; it gives `ZeroFirst`. `Origin` says where the enable bits come from:
a bit read in this iteration was on at some time in it, or the server is down; with
`LostIsZero` it gives `OffPumpOnce`. Without failures, `Up` (an interface the loop holds is
running) and `Origin` give `OffMeansOff` and `PausedIsHeld`. With deadlines met, `Heard`
gives `Served` and `LeavesNothing`. `Refinement` maps every step to one of `CommandSource` or to
a stutter.

**`MaintenanceMailbox_proofs`.** `EchoAlwaysConsistent` needs an invariant that follows the echo
through PENDING and the two phases of publishing; `NeverTwice` counts triggers against
executions (`Pending`); both hold for any number of uncoordinated clients. For one client that
waits for the coil (`Alone`), the invariant `AloneInv` ties the client's position to the bridge's:
what was written is what was read, and a cleared coil means the last outcome is there. It gives `StatusAlwaysOwn`, `AlwaysServedInOrder` and `Refinement` to `MaintenanceService`.

**`FieldDevices_proofs`.** `FieldInv` says that a device is typed, that only a sensor reads and only an actuator
steps, and that a pump that does not deliver what it strokes was calibrated to zero. One lemma per part of `read`, `step` and the service
methods says what that part can change; `ReadStep`, `StepStep` and `MaintainStep` put them together and give `FieldTyped`,
`FlowFollowsStroke`, `TroubleIsTold` and `HealedByService` for all periods, lags and thresholds. The last needs
that a reset of the faults leaves critical wear behind (`ActuatorServiceFacts`).

**`PlantScan_proofs`.** First the image. `ImageInv` says of every register which scan it is of, depending
on how far the writing has come; it rests on `StoredFacts` (a write leaves every word but its own, since the map has no
conflicts) and gives `StampIsTrue`. Then the lines. `LinesInv` says that a line is in the order of its times with the pH
sensor's sample first, that what a sensor was given last was *behind* its target (every older sample of the line is
farther from it), and that a sample put in at `h` has at most two samples per scan since then behind it. One turn of one sensor keeps it (`LineTurn`, `LinelessTurn`),
so a whole pass does (`WholeScan`). `InOrder` needs "behind" only: as the target moves on, what was closest is
never beaten by something older; the sizes of delay and buffer do not matter. `WaterOfTheMoment` needs `RoomForBoth`,
`2 * (Delay + 1) <= MaxSamples`: the code has 62 samples of room 100 (`MaxSamples` is computed from `DelaySeconds`,
so a scan shorter than a second can break it), the run 6 of 6. With less the sample of
the moment would be pushed out, which is the mutant of that property.

**`ProcessRun_proofs`.** `EveryTankIsBuilt`: the rows of the exchange matrix balance, so the two checks of
`_build_exchange_matrix` never fire, for any number of zones. `ChlorineIsConserved`: mixing is antisymmetric between neighbours
(`MixingFacts`), so transport sums to what the streams bring less what the last zone passes on (`TransportSum`), and
what the reactions take is what the ledger posts (`ChlorineChange`), under any layering and with steps the solver gives up on, at any part of them.
`QuietIsHonest` needs `OneTick`: outputs, status and snapshot on show are of one tick; for the three watched tiles it compares
the limits of the tile with those of the process status, for every value. `NothingIsClipped` carries `Physical`: every species of every zone
and stream lies between the least and the most that streams and fill bring. A short step averages (`TransportWithin`), reactions
use up no more than there is (`ReactionWithin`), so the bounds have nothing to enforce (`BoundedUnchanged`).

**`LabSession_proofs`.** Launcher and replay share no variable, so each has its invariant. `LauncherInv`: the
listed processes are the first nodes of the plan; in the clean-up those passed are asked, then all listed are asked and those
passed are gone; and what exists without being listed (`Stray`) is of the one node in flight, a process only after a Ctrl-C
(`StrayInv`). The clean-up never touches a stray, which is why `NoOrphans` has to name it. It gives `EveryoneIsAsked` and `NoProcessIsLeft`. `ReplayInv`: each result is that of the transaction in its
place, no two are closer than in the script (`Spaced`), and the last confirmed write is what the server
holds (`Held`). It gives `ReplayKeepsFaith`, `NothingIsRushed`, and with the other `SessionTyped`.

**`BundleExport_proofs`.** `BundleInv` rests on `OneWriter`: who passed `mkdir` has the directory to itself until it is
removed, so nothing needs a lock. With `Filling` (files before the export's position are whole and its own) it gives
`SealMeansWhole` and `FilesStay`; `NothingRefusedIsSealed` follows from `OnlyBuilt`. `SealedStory` splits `SealedAgrees` into protocol and data:
if the stories of every request that can be built agree, so does every sealed bundle of every history. That hypothesis is about the
shipped catalogue alone, and the run evaluates it on every request it exports.

Also proved, though no run checks them any more because the refinements above them do:
`StatusIsOwn` (`StatusAlwaysOwn`) and `PausedMeansHeld` (`PausedIsHeld`).

Only model-checked: the liveness properties `EveryCallReturns`, `WorkerLossReported`,
`ViewConverges`, `EndsOnRequest`, `ClientReturns`, `Settles` and `LauncherEnds`, because TLAPS does
not reason about fairness and ENABLED; and, as said, that the stories of the shipped catalogue agree.
No module declares a RECURSIVE operator.

## What is not modelled

- **Floating point.** Equilibrium chemistry, rate constants, the adaptive solver, the flow solver,
  valve curves, cavitation and cross-sensitivities: neither tool reasons about floats, and the control
  side only tells ranges apart. What is exact in them (transport, balance, order of the checks) is modelled.
- **Wording and files.** Markdown and CSV renderings, the frames' bytes and checksums, `release.py`,
  command lines, CI and quality tools.
- **Configuration** (`runtime/src/config.rs`, `main.rs`): environment parsing and task spawning.
- **The page** (`hmi/src/routes/+page.svelte`): polling, forms, demo data; its overlapping refreshes
  are listed as a hazard.
- **CFD library**: digital-twin gates, unit processes and performance budgets, which nothing
  at run time calls.
- **External code**: pymodbus, axum, tokio, the operating system's processes and files, modelled
  from how the source uses them: handlers dropped on disconnect, a fair mutex, register access
  without the slave's lock, a client that raises, a directory somebody removes.

## Plan

Done, in this order, because the first parts carry the concurrency and the safety of the system:

1. PCS runtime: `PcsControl`, `PcsView`, `PcsRuntime`, proofs.
2. Maintenance mailbox: `MaintenanceManager`, `MaintenanceService`, `MaintenanceMailbox`, proofs.
3. Main loop and slave: `CommandSource`, `ProcessLoop`, proofs.
4. Field devices: `FieldSensor`, `FieldActuator`, `FieldDevices`.
5. Sample lines, register map, published image: `SampleLine`, `RegisterMap`, `PlantScan`.
6. Process and screen: `ReactorTransport`, `ReactorDynamics`, `HmiSnapshot`, `ProcessRun`.
7. Launcher and replay: `PlantSelection`, `PlantLauncher`, `ScenarioRules`, `ScenarioReplay`, `LabSession`.
8. Bundles: `PlantCatalog`, `PlantScenarios`, `PlantEvidence`, `PcapFrames`, `BundleExport`.

9. Proofs about the field devices, the image and the sample lines, the tank and the screen, the session and
   the bundles: every safety property of the runs.

Next, where the model could still grow:

10. Abstract specifications for the parts that have none yet, with the refinement proved: a bundle directory
    that appears whole or not at all, a sample line as the water of one delay ago, a launcher as
    "all or nobody".
11. The page of the HMI: overlapping refreshes, edits and the last error.
12. The remaining state of the CFD library (gates and evidence records), if something at run time begins to call it.
