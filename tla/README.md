# argus-manager in TLA+

A verification project for `argus-manager`, the resource manager that runs beside an
LLM inference engine: it watches memory, temperature, compute and energy, hands the
readings to a Lua policy, and sends the engine directives (compress the KV cache to a
budget, restore the defaults) over a socket.

The modules model the manager's control: who calls whom, in which order, under which
guards, and what is remembered. Data is cut down to what the properties tell apart: a
pressure is a whole number of percent, a budget a whole number of `B_STEP`s (0.05), a
frame a pair (connection, number), a configuration a record of thresholds. Paths below
are relative to the repository; Rust sources are under `src/`, the policy script is
`scripts/policy_default.lua`.

## 1. Inventory

| Component | State | Operations | Hard part |
|---|---|---|---|
| main loop (`main.rs`) | position in `main`, `SHUTDOWN`, `SIGHUP_RELOAD`, `shutdown`, the monitors' channel | wait for the engine, initial signals, loop head, drain the engine's messages, receive a signal, emit, shut down | POSIX signals at any point; two different shutdown flags; a loop that blocks in a write |
| policy host (`lua_policy.rs`) | `SignalState`, `engine_state`, `consecutive_errors`, `permanent_fallback`, the VM with the script's locals | `process_signal`, `update_engine_state`, `reload_script` | a failing VM hands single decisions to a fallback; a reload forgets the script's locals |
| policy script (`policy_default.lua`) | `relieving`, `applied` | `decide` | windows of several axes opening and closing in any order; a ratchet that withholds directives |
| fallback (`lua/fallback.rs`) | none | `fallback_decide` | acts behind the script's back |
| deduplicator (`pipeline.rs`) | `last_commands`, `last_sent_at` | `process` | suppression must not hide a change of mind |
| engine channel (`channel/unix_socket.rs`, `channel/tcp.rs`) | `ConnectionState`, the current writer, the inbox, the accept queue, detached reader threads | `wait_for_client`, `ensure_connected`, `emit_directive`, `try_recv` | reader threads never joined; engines that exit, come back, garble a frame or stop reading |
| threshold evaluator (`evaluator.rs`) | `current_level` | `evaluate` | hysteresis in two directions, recovery over several levels |
| monitors (`monitor/*.rs`) | an evaluator and the last readings each; thermal zones; the previous CPU snapshot; the external monitor's connection | `run`, `initial_signal` | threads that have to notice `shutdown`, one of them inside a blocking read; sensors that fail or run backwards |
| GPU providers (`monitor/gpu_provider.rs`) | last utilization, reader thread, `tegrastats` child | detection, `util_pct`, drop | a child process that may stall or end; relaxed stores; a drop that joins a reader inside a read |
| signal state, triggers (`policy/common/state.rs`) | readings, TBT baseline | `update_*` | a warm-up before the baseline is frozen |
| emitters (`emitter/*.rs`) | a connection | `emit` | refused at startup (not bidirectional) |
| configuration, types, context | none | parsing, copying | none |
| simulator (`sim/*.rs`, `bin/sim_run.rs`) | virtual clock with its events, physical state, engine state, trajectory, last levels, a deduplicator | `load_scenario`, `run_for`, `run_until`, `tick`, reports | order of events within a tick; calls that end early or late; files that extend each other; fields derived from each other in any order |
| mock peers (`bin/mock_engine.rs`, `bin/mock_manager.rs`) | a stream each way; position, sequence number, occupancy | heartbeats, directives, responses, waits with deadlines | a message is two writes and two reads, each with a timeout; late answers; a peer that dies halfway |

How they interact: every monitor is a thread that sends `SystemSignal`s into one
unbounded channel. The main thread takes one signal per pass, gives it to the policy
host, passes a resulting batch through the deduplicator to the engine channel, and
before that drains the engine's messages into the policy host. Each engine connection
has a reader thread that fills a bounded inbox. Signal handlers only set flags.

The hazards, each at the line where it bites and with the properties that would catch
it, are listed in `PROJECT.json` under `hazards`.

## 2. Modules

| Module | Models | Composes |
|---|---|---|
| `ThresholdEvaluator` | `evaluator.rs` | |
| `ExternalMonitor` | `monitor/external.rs` and its clients | |
| `GpuProvider` | `monitor/gpu_provider.rs`, the `tegrastats` process | |
| `Monitors` | one monitor thread of any of the five kinds, `monitor/*.rs` | `ThresholdEvaluator`, `ExternalMonitor`, `GpuProvider` |
| `PolicyDefault` | the pure part of `policy_default.lua`: `most_stressed`, `B_kv`, `decide` | |
| `PolicyWindow` | the script called on arbitrary readings | `PolicyDefault` |
| `LuaPolicy` | `lua_policy.rs`, `lua/fallback.rs`, as actions over their own variables | `PolicyDefault` |
| `PolicyLoop` | the policy host and an engine that obeys every command | `LuaPolicy` |
| `Deduplicator` | `DirectiveDeduplicator` with its timestamps | implements `Dedup` |
| `Dedup` | what the deduplicator promises: no clock, only an age that stops at the cooldown | |
| `Channel` | both engine channels, their reader threads, and the engine's end of the socket | |
| `Manager` | `main()` with the monitors, signals, time and the engine | `Channel`, `LuaPolicy`, `Dedup` |
| `VirtualClock` | the event queue of `sim/clock.rs` | |
| `SimPhysics` | `sim/state.rs`, `physics.rs`, `compose.rs`, `derived.rs`, the built-ins of `expr.rs` | |
| `SimSignal` | `sim/signal.rs` and the stateless levels of `monitor/*.rs` | `SimPhysics` |
| `Trajectory` | `sim/trajectory.rs`: entries, queries, reports | |
| `ScenarioConfig` | `sim/config.rs`: loading, merging, validation | |
| `Simulator` | `sim/harness.rs`, `bin/sim_run.rs` | the five above and `Deduplicator` |
| `MockPeers` | `bin/mock_engine.rs`, `bin/mock_manager.rs` in socket mode | |
| `MC...` | instances for TLC | |
| `PolicyDefaultProofs`, `PolicyWindowProofs`, `PolicyLoopProofs` | theorems about the script and the policy host | |
| `MonitorsProofs` | theorems about the evaluator, the monitors, the GPU provider and the external monitor | |
| `ChannelProofs`, `ManagerProofs` | theorems about the channels and the composed process | |
| `SimulatorProofs` | theorems about the deduplicator, loading, and the simulator: its engine, trajectory and schedule | |
| `MockPeersProofs` | theorems about the mock peers | |

### Correspondence

**ThresholdEvaluator.** `Evaluate(v)` is `evaluate(value)`: `level_ascending` and
`level_descending` compute the new level from the reading, the current level and the
configuration; `MoveLevel` is the comparison and assignment at the end. Levels are
0..3 in the order of the enum. `thresholds` is chosen once, as the constructor is called
with one configuration.

**Monitors, ExternalMonitor.** A behaviour is the life of one thread; `kind` says which. One
turn of a sensor loop is `MemoryPoll`, `ThermalPoll`, `ComputePoll` or `EnergyPoll`: read,
evaluate, build and send the signal, all before the next look at the flag. A failed read is
a poll that leaves everything alone (and, for the compute monitor, lets the kernel's
counters run on against the old snapshot: `ComputeReadFails`). The counters themselves are
not state: `since` is how far they have moved since `prev_snapshot`. Where the difference
of the two saturated deltas is negative, a release build wraps around (`WRAPPED`) and a
debug build ends the thread; both are outcomes of `ComputePoll`. `Stop` is the turn that
finds the flag set. In `ExternalMonitor` the two socket transports are one loop
(`Accept`, `AcceptError`, `StopAccepting`) around the line reader (`ReadLine`, `ReadEof`),
which is all there is over stdin; a read is enabled only when there is a line or the end
of the stream, so a silent client leaves the thread `Blocked`. The signal's derived fields
(reclaim target, throttle ratio, power budget) are functions of the level and left out.

**GpuProvider.** `GpuInit` is `resolve_backend`, `detect_backend` and `build_provider` on any
machine. The reader thread alternates between the flag (`ReaderTop`) and a blocking read
(`ReaderLine`, `ReaderEof`) and waits for nothing else: the relaxed stores of its samples
become visible whenever they do, those of the percentage in their order (`PercentVisible`,
from the queue `unseen`), the flag of the first sample before or after them
(`SeenVisible`). `util_pct` is the set of values a poll may get. `DropProvider` sets the
flag; the join that follows is over when the reader has ended. The order of the stores
matters less than it looks: `util_seen` read ahead of the first percentage gives the initial
0, which is also what no telemetry gives, and a late percentage is an earlier sample.

**PolicyDefault, PolicyWindow.** `decide` takes the script's locals and the pressures
and returns the new locals and the action; the early return before the first heartbeat
is the guard of the callers. The arithmetic of `B_kv` is done on integers: with pressure
in percent and budgets in steps, `math.floor(x / B_STEP + 0.5)` is `RampStep`. On readings
where the ramp hits the middle between two steps exactly, floating point may round the
other way than the integers do; no property depends on which.

**LuaPolicy.** `ProcessSignal(sig, vmFails)` is `process_signal`: update the reading, then
`DecideOk`, `DecideFails` or `DecideLatched`, the three ways through `call_decide`. A
failing call may or may not have changed the script's locals first (the context could not
be built; the result could not be converted). `UpdateEngineState(r)` is a heartbeat; the
moving average behind the latency ratio is abstracted to any ratio the instance allows.
`ReloadScript(loads)` swaps the VM or leaves everything as it was. In `PolicyLoop` the
constant `VmMayFail` says whether calls of `decide` may fail: they do in `loop`, and never in
`loop_reload_pins`, so that its trace is a window the script itself opened (memory at 92,
`relieving = {memory}`, `applied` set), forgotten by the reload, and never closed.

**Deduplicator, Dedup.** `Pass` and `Suppress` are the two outcomes of `process`, `Tick` is
time. `Dedup` forgets the timestamp and keeps the age of the last batch up to the cooldown;
`Deduplicator` implements it (`ImplementsDedup`, model-checked and proved), and `Manager`
composes the smaller one.

**Channel.** The main thread's actions are `Wait*` (`wait_for_client` and what
`create_transport` does with its answer), `EmitDirective` (`emit_directive`: on the current
connection, on one accepted by `ensure_connected`, or dropped) and `TryRecv*` (`try_recv`).
`Reader(c)` is the thread `spawn_reader` starts. The engine's actions and the kernel's
queues are external. The two transports share one module; they differ in three places:
what a client-wait timeout does (the unix manager starts all the same, the TCP manager
exits), and, over TCP, a reset may discard frames not yet read and a write may succeed into
a connection the engine has just closed. An engine that has sent a frame that does not parse
sends no more on that connection: `spawn_reader` exits at that frame and the connection goes
with everything behind it, so later frames would reach nobody. `DrainedBeforeLost` is
therefore about the frames ahead of such a one.

**Manager.** The main thread is a program counter (see the module's header). An action per
stretch of `main()` between two points where another thread can be observed. `Poll(m)` is
one turn of a monitor's loop with any of the signals the instance gives it.
`handle_signal` and `handle_sighup` are the two handlers. The loop head swaps
`SIGHUP_RELOAD` (`LoopHead`, `SwapReload`) and the reload is a step of its own (`Reload`), so
that a SIGHUP may come in between; the history variable `unread` is set by a SIGHUP and
cleared by the swap that takes note of it, and `ReloadHandled` is about it.

**VirtualClock, Simulator.** A behaviour is the life of one `Simulator`: given a scenario or
loading one, then a list of calls. `StartCall` preloads the events, `StartTick` drains the
ones due by the end of the tick, one `Handle...` action per event handles them in order of
time and number, and `FinishTick` steps the physics, records the snapshot and advances the
clock. The policy is any: it may answer each signal with nothing or with any of the
scenario's `answers`; a batch goes through `Deduplicator`, whose clock is brought forward to
the event by `PassTime`. `FailTick` is the error a derived expression ends a tick with, after
the physics and the derived fields before it have been stepped and without a snapshot. Three
history variables serve the properties: `exact` says that all calls so far ended where their
events were scheduled to, `spans` lists the times each call scheduled events for, and `held`
keeps the whole state at every snapshot, of which the trajectory has only a part.

**SimPhysics, SimSignal.** The physics keeps its structure (which phase reads what, in which
order, what is clamped, what is combined how) on integers: tenths of a degree, percent,
megabytes. The exponential of `lag_step` is a table of percentages. Quotients are rounded
down, which no property depends on. A scenario is a record of what its YAML file says; an
expression is one of those of the baseline scenario, by name.

**Trajectory.** Entries are records with a kind and a time. What they keep of a state, an
engine, a message and a signal is what the dump types keep (`from_state`, `from_engine`,
`from_msg`, `from_signal`): no external load, no last ratio, no recommended backend. A memory,
thermal or energy signal can be recomputed from the snapshot above it; a compute signal
cannot, and `SignalsExplained` holds it against `held`. The reports are operators of the
trajectory: `from_trajectory`, `format_session_summary`, `format_timeline` without their
layout.

**ScenarioConfig.** The recursion of `load_yaml_with_extends` is a stack: `OpenFile` goes down
a chain of `extends`, `CloseFile` merges on the way back, `Conclude` parses and validates.
TLC starts from every way three files may extend each other and every content of them.

**MockPeers.** Both peers are program counters. A command has a name and the set of the
parameters that were `given`; `CommandParams` drops what a scenario entry cannot carry
(`--every`, `--on`), and `build_command` fails on what is missing, a ratio of 0 not being
missing. A stream is a sequence of pieces; a message is
a length and a payload. A read with nothing to read may time out (`EngineTimeout`, or no step
of the manager) or fail (`ManagerError`); `Deadline` is a loop finding its time over, which it
does only between messages. `Kill` takes the engine away wherever it is.

## 3. Runs

| Run | Checks | Shows |
|---|---|---|
| `monitors` | `NeverUnderstates`, `OverstatesWithinBand`, `NoFlapping`, `SignalJustified`, `GlitchForgotten`, `SignalsForwarded`, `GpuReadingGenuine`, `ReturnsOnShutdown`, `DropJoins` | the five monitor threads with the thresholds of `config.rs` and one set whose bands overlap: the level is never milder than the worst reading, exceeds it by no more than the hysteresis, and does not flap; charging forces Normal; a glitch of the CPU counters does not outlive its interval; a GPU reading is a sample the child really printed, capped at 100; injected signals arrive in order and completely; every thread returns on shutdown unless a client keeps it in a read, and the provider's reader ends when the provider is dropped unless the child keeps it in one |
| `policy` | `WindowBounded`, `CalmReleases`, `WindowTightens`, `WorstAxisCovered` | the script with its axes, thresholds and whole ramp |
| `policy_release` | `ReleasesOnlyWithHeadroom` — violated | the cache is given back while another axis is past its threshold |
| `channel` | `FramesInOrder`, `DrainedBeforeLost`, `ReadersExit`, `EngineServed` | both transports, three connections, OS failures |
| `loop` | `AppliedInForce`, `LatchedAfterThree`, `CalmFreesEngine`, `PressureAnswered` | script, fallback and engine under failures and reloads |
| `loop_reload_pins` | `SpikeNeverPins` — violated | with a VM that never fails, a reload inside a window the script opened leaves the engine compressed with every axis calm |
| `manager_shutdown` | `ShutdownCompletes`, `ReloadHandled` | the whole process: it terminates, and no SIGHUP is lost, also one that arrives during a reload |
| `manager_engine` | `NoLooseningOnWire`, `PressureReachesEngine` | the whole process: end-to-end budgets and liveness |
| `manager_reconnect` | `PressureReachesEveryEngine` — violated | an engine that replaces one that left before its first heartbeat is never accepted |
| `manager_sigint` | `ShutdownEndsWait` — violated | SIGINT during the client wait does not end it |
| `sim` | `TrajectoryCoherent`, `ScheduleKept`, `EngineAsAsked`, `PollsAccounted`, `StateAccounted`, `ReportsAgree`, `ExtendsResolved`, `SimEnds`, `RepeatsSpaced`, `LastAskedWins`, `ImplementsDedup` | what the simulator records is what the policy saw and the engine did; injection edges and observations come once, and polls once for every call that scheduled them; the physics stays within its bounds and depends on the order of actions and derived fields only as stated; loading lets the nearest file win; in simulated time the deduplicator spaces repeats, never hides a change of mind and implements its abstraction |
| `peers` | `MismatchIsLate`, `InStep`, `CleanRunConclusive`, `PeersEnd` | the two mock peers under timeouts and deaths: each directive is executed once and in order, a reported mismatch is always a late answer, a clean run is conclusive, neither hangs |

Several invariants are conjunctions of named parts, each with its own comment in the module:
`SignalJustified`, `TrajectoryCoherent`, `ScheduleKept`, `StateAccounted`,
`ReportsAgree`, `ExtendsResolved` and `InStep`. The type invariants of `Channel`, `Monitors`,
`Simulator` and `MockPeers` are conjuncts of `FramesInOrder`, `SignalJustified`,
`StateAccounted` and `InStep`; those of the evaluator, the script, the policy loop and the
deduplicator, and `WindowConsistent`, are proved (section 4) and not checked again. So are
`MonitorsRefineEvaluator` and `ManagerUsesChannel`, by which the properties of a component hold
where it is composed.

The violated properties state what a comment of the repository says of the program; the
`findings` of `PROJECT.json` quote the comments. More disagreements of the same kind
have no run of their own: over a unix socket a manager whose client wait timed out is still
`Listening` and never accepts an engine that comes later (`channel/unix_socket.rs:123`
against the diagram at line 63; hence the antecedent of `EngineServed`); a VM failure lets
the fallback change the engine's budget while the script's `applied` keeps its value (so `AppliedInForce` is stated until a call fails);
a directive dropped between two engines is withheld by the script's ratchet for the rest
of the window, not only "for the whole cooldown" (`channel/unix_socket.rs:227`); and after
a reconnect the new engine is sent a budget on the strength of the old engine's heartbeat.

The models of the simulator and the peers brought up more, stated in the properties as
the exact extent of what does hold:

- a call after a `run_until` that ended early schedules its polls a second time, and after
  one that overran its end the polls in between are missing (`harness.rs:186-188` says that
  this is left for later): `PollsAccounted` says how often each poll comes over any calls,
  and `PollsExact` and `EdgesExact`, parts of `ScheduleKept`, that it is once while calls end
  where they were to;
- an injection that starts at time 0 has no start record (`EdgesExact`), and an `add` adds its
  delta in every tick of its window (`InjectionsAccounted`);
- effects of different kinds on one dimension are combined by the rule of whichever was
  collected first, which depends on the order the actions became active in:
  `FirstEffectDecides` says that this operation and the tau are all that the order decides.
  An action's `Set` is combined by `Max` (`compose.rs:115`), although `compose.rs:127` says
  that the rules of `per_dimension` apply to it;
- `derived.rs:8-9` promises insertion order and that no derived field depends on another.
  The code does neither: it iterates a `HashMap` (line 28) and puts every result into the
  context for the fields that follow (line 38), so `tbt_ms` is that of the throughput in the
  same snapshot or in the one before, as the process happens to iterate. `DerivedByOrder`
  states exactly that. Derived fields also converge as if ticks were 50 ms;
- the expressions a scenario gives for `thermal_c` and `memory_bw_utilization_pct` under
  `passive_dynamics` are validated and never evaluated, so the temperature the thermal and
  energy signals are made of only moves by injections and actions;
- `derive_heartbeat` computes what the state says and then reports constants
  (`sim/signal.rs:136`), as the mock engine does (`bin/mock_engine.rs:193`);
- a boolean derived expression passes `validate_expressions` and ends the first tick;
- after a single timed-out wait, the mock manager reports every later answer as an INV-023
  mismatch until a wait before a command swallows one (`MismatchIsLate`); and in such a wait
  it takes read errors for silence, after which it may read a payload as a length
  (`InStep`).

### Bounds

- `Channel`: `MaxConns = 3` so that one connection can be current, one dead in the accept
  queue and one behind it; `MaxFrames = 2` with `InboxCap = 1` so that a reader blocks on a
  full inbox and the inbox is dropped under it (the code's inbox has 64 places, and no
  guard but "full" looks at the number); `MaxPending = 1`, the directives the socket
  buffers, so that a write blocks.
- `Manager`: one monitor with the memory axis, a queue of one, two connections
  (`MaxConns = 2`) where engines are replaced, one where shutdown is the subject. The queue
  of one still lets a signal wait while the engine, the script and the channel change.
- `PolicyLoop`: three axes, two of them with a gap between ENTER and EXIT, signals under,
  between and over the thresholds and at every memory level.
- `PolicyWindow`: all four axes of the script; the readings are listed in `MCPolicyWindow`.
- `Simulator`: time is in half seconds. `MCSimulator` lists the scenarios: a policy that may
  answer anything while memory gets short (`Deciding`, two calls, a cooldown of 5 so that
  repeats fall on both sides of it); ticks of 1 to 3 against polling periods of 2 to 5 and
  calls that end early, late and beyond a `HORIZON` of 8 (`Polling`); noise (`Noisy`); the
  physics in every phase, on every device, hot and cold (`Heating`); actions that meet on
  one dimension in different orders (`Composing`). `OBSERVATION_DELAY = 6` is the code's
  3 s; `Saturation = 2` stands for 10. `MaxTime` and `MaxEmitted` are never reached.
- `ScenarioConfig`: three files, so that a cycle may include the root or not; five contents
  that complete, break and repair each other, one with a section that is no mapping.
- `MockPeers`: three commands with and without a delay before them, so that two answers can
  be late at once; occupancies far from and close to the floor; `MaxHeartbeats = 3`.
- `GpuProvider`: `MaxPipe = 1`, two candidate files, one load above 100; `MaxUnseen = 2`
  percentages under way, so that the reader is ahead of what is visible by more than the one
  it has just stored. The compute monitor over tegrastats has one growth of the CPU counters.
- `Monitors`: the evaluator's state is finite; the readings are the edges of the bands
  (the evaluator only compares), and the theorems of section 4 cover the others.
  `MaxGrowth` bounds how far the CPU counters run while reads fail: far enough for a glitch,
  or a step back, to fall between two failed reads. `MaxClients = 2` and `MaxLines = 3`: one client is
  read while another waits, and bad lines lie before, between and after good ones.

### Fairness

`Channel`: the main loop calls `try_recv` on every pass and the threads are scheduled
(weak fairness of `Wait`, `Receive`, each `Reader`). `EngineServed` assumes in its statement
that directives keep coming (`DirectivesRecur`), since a channel accepts only when one is
emitted. `Manager`: weak fairness of the main thread, of each monitor and of each reader
thread; time passes; an engine that is alive sends heartbeats and reads its socket. The
last is an assumption about a peer: the code has no write timeout, and against an engine
that stops reading, shutdown does not complete. `Monitors`: weak fairness of the thread,
whose sleeps are finite, and none of the clients. No signal, no connection and no failure
is assumed to happen. `Monitors` also assumes it of
the GPU reader thread and of `Prints`: a `tegrastats` that is neither silent nor gone goes on
printing, as it does once an interval, so that a reader in a read comes back from it; it may
fall silent or exit at any moment. `Simulator`: a single thread that runs until
it is done (weak fairness of the next step). `MockPeers`: both processes run; strong fairness
of `Deadline` and `TimeUp`, since a clock that has run out stays run out even though the loop
looks at it only between messages; none of `Kill`. `CHECK_DEADLOCK FALSE` is set where the process or thread ends
(`Manager`, `Monitors`, `Simulator`, `MockPeers`) or where the engine may be gone for good with nothing left to do
(`Channel`).

## 4. Proofs

TLAPS proves the following for every value of the constants that satisfies the named
assumptions; TLC evaluates the same assumptions, and most of the properties, on the
instances above.

- `MonitorsProofs`, evaluator: `EvaluatorTypeCorrect`, `NeverUnderstated`,
  `OverstatedWithinBand`, `NeverFlaps`, for all configurations whose thresholds are ordered
  and whose hysteresis is not negative. One lemma per direction says what the new level is
  for a reading and a level; the invariants relate it to the latest reading, and `NoFlapping`
  also to the extreme reading since the last change, which is why the inductive invariant
  carries the history.
- `MonitorsProofs`, threads: `MonitorsRefineEvaluator` (a monitor thread of any kind, started
  and stopped at any time, is the evaluator with its own sensor in front), and from it
  `MonitorsNeverFlap`; `SignalAlwaysJustified`, `GlitchAlwaysForgotten`,
  `GpuReadingAlwaysGenuine`, `SignalsAlwaysForwarded`. The inductive invariants are `SensorIInv`
  (the evaluator's invariant, a configuration of the right direction, a snapshot as old as its
  interval, and the signal last sent), `GpuIInv` (which of the two stores of the last sample
  are visible, and what is read meanwhile) and `ExtIInv` (lines are numbered as written,
  clients are served in turn, and a line that was not forwarded still waits unless something
  named cut its client off). The order of thresholds and the direction of each kind are
  `MonitorsAssumption` and `SensorAssumption`, as the constructors fix them. `SignalAlwaysJustified` assumes
  `FullBatteryIsNormal`, that 100 % of battery is above the warning threshold and its
  hysteresis: the code does not validate thresholds, and the defaults (30 and 2) satisfy it.
- `PolicyDefaultProofs`: lemmas about the script's operators: `B_kv` stays on the ramp
  whatever the pressure, `decide` keeps windows and budget in step, tightens, releases on
  calm, and covers the most stressed axis.
- `PolicyWindowProofs`: `WindowTypeCorrect`, `WindowsConsistent`, `CalmAlwaysReleases`,
  `WindowsBounded`, `WindowsTighten`, `WorstAxisAlwaysCovered`, for any axes, thresholds and
  ramp with EXIT at or below ENTER. The bound on the directives of a window is not
  inductive: it needs that `sent` plus the budget in force never exceeds `B_MAX + 1`.
- `PolicyLoopProofs`: `LoopTypeCorrect`, `AppliedAlwaysInForce`, `CalmAlwaysFreesEngine`,
  `PressureAlwaysAnswered`, `LatchedExactlyAfterThree`. Type correctness needs that an unlatched
  host is under the failure threshold. The others rest on `Agreement`: a latched fallback has
  seen a failure, what the script holds is in force, and a compressed engine belongs to a
  window the script knows unless it was compressed when the script was loaded.
- `ChannelProofs`: `FramesAlwaysInOrder` and `AlwaysDrainedBeforeLost`, for any number of
  connections and frames, any inbox and either transport. `ChanIInv` says where each frame of
  a connection is: taken, in the inbox or in the socket, in that order and, unless a TCP reset
  has discarded some, without a gap; and that a reader leaves the current connection only
  when there is nothing left to deliver.
- `ManagerProofs`: `ManagerUsesChannel`, every step of the composed process is a step of
  `Channel` or leaves it alone, and with it `ManagerHearsInOrder` and `ManagerHearsLastWords`;
  and `BudgetNeverLoosens` (`NoLooseningOnWire`). `LoopIInv`
  places the main thread and keeps the script's locals in step. The last theorem also rests on
  `Ratchet` and `Wire`: what the script holds is what the deduplicator recorded, and the
  directives in the socket are a chain of ever tighter budgets from the one in force to it.
  It assumes a VM that does not fail and a script that is not
  reloaded (`~VmMayFail`, `~MayReload`), as the run does: with either, the budget on the wire
  may loosen, by the fallback or by a script that has forgotten its window.
- `SimulatorProofs`, deduplicator: `DedupTypeCorrect`, `RepeatsAlwaysSpaced`,
  `LastAskedAlwaysWins` and the refinement `RefinesDedup`, for any cooldown and any set of
  batches; `SimUsesDeduplicator` and `SimulatedDirectivesSpaced` carry them over to every run of
  the simulator, whatever the scenario, as long as the scenario's policy answers with batches
  of the deduplicator's set.
- `SimulatorProofs`, loading: `ExtendsAlwaysResolved`, for any finite set of files, whatever
  each extends and holds. `LoadIInv` says that the stack is a path without a file twice and
  the beginning of every chain of the root, and that once it unwinds, the merged document is
  the merge of the rest of the chain. `IsMerged` says what that means without recursion (which
  value a key has, seen from each file of the chain), `MergeLast` and `MergeOne` that
  `deep_merge` keeps it; that a chain exists at all, so that the property speaks of
  something, follows from the stack itself, which cannot be longer than there are files.
- `SimulatorProofs`, the simulator, for every scenario and every list of calls:
  - `EngineAlwaysAsAsked`. Its hypotheses: the policy answers with batches of the deduplicator's
    set, and each of these batches is `Settling`, that is, contains a compression or a
    `RestoreDefaults`. Every batch of `policy_default.lua` does. Without it the property is
    false: `apply_command` leaves the ratio alone on any other command, so what a
    batch leads to depends on the ones before it. `DirectiveFacts` shows that the recursion of
    `apply_directive` over a settling batch forgets the engine it started from;
    the rest follows from `AskedIsLast` of the deduplicator, since a batch that is withheld is
    the one passed on last.
  - `TrajectoryAlwaysCoherent`. `SimBase` is the part all of these proofs share: event numbers
    are distinct, what is pending lies ahead, entries are in order of time. `Signalled` adds that
    `state` is the one `held` has for the last snapshot and every snapshot is the dump of its
    `held` state, that `last_signal_levels` has the level of the last
    signal of each kind with no transition after it, and that every recorded signal and
    transition is explained. The property itself is not inductive: it says nothing of the two
    variables `tick` compares the next signal with. `DerivedFromDump` is why the snapshot is
    enough for every kind but compute: no other derivation reads a field the dump drops.
  - `ScheduleAlwaysKept`. `KeptInv` says of every poll and every injection edge that the times it
    is due at, up to the end of the call, are those of its entries and its pending events
    together, each once (`Placed`), and that nothing pending is overdue (`Ahead`); it holds while
    calls end where their events do (`Tracked`, which contains `exact`). `PeriodFacts` is the
    arithmetic of `schedule_periodic_from`: the first multiple after now and how many fit.
    `Counted` says that observations made and awaited add up to the compressions let through.

  The last two assume `DocumentsWellFormed`: a document that is loaded describes a scenario with
  the types of `sim/config.rs`, as `WellFormed` says (durations are numbers of time units, not
  negative), and a tick no longer than the delay of an observation. The code has 50 ms against
  3 s; `with_tick_dt` could set a longer tick, nobody calls it, and then an observation would be
  due before the end of the tick that asked for it. Given scenarios satisfy the same by
  `SimulatorAssumption`, which TLC evaluates on the ones it runs. Where the model recurses over
  data (the commands of a batch, the injections, the emissions) it does so with recursive
  functions, and the proofs take the induction from a least element of a set of natural
  numbers (`LeastNat`, `UpTo`, `Recursion`).
- `MockPeersProofs`: `PeersAlwaysInStep`, `MismatchAlwaysLate`, `CleanRunAlwaysConclusive`, for
  any commands and any number of heartbeats. `PeersIInv` says what is in each stream piece by
  piece, that lengths and payloads alternate while no read has gone wrong, that answers come
  in the order of the directives, and that every directive was answered, is about to be, or
  its wait timed out.

Only model-checked: everything under fairness (`ReturnsOnShutdown`, `DropJoins`, `SimEnds`,
`PeersEnd`, `ReadersExit`, `EngineServed`, `ShutdownCompletes`, `ReloadHandled`,
`PressureReachesEngine`), since liveness and `ENABLED` are out of the prover's reach; and of
the simulator `StateAccounted`, `PollsAccounted` and `ReportsAgree`. The first is about the
scenarios of `MCSimulator`: not every scenario keeps a variable that is injected into free of
other influences, or its temperatures between the ends named there. The second counts the
entries at a time against the calls, where `ScheduleAlwaysKept` needs sets of times only: its
proof would have to add cardinalities up over an unbounded number of calls. The third speaks of
selections and folds over entries (`SelectSeq`, `FoldLeft`, `MapThenSumSet`) on
whose definitions the provers have no hold.

## 5. Not modelled

Listed with reasons under `components`: the one-way emitters (refused at startup), the
configuration parser, the `/proc` parsers and file names (pure I/O), the clock trait (read
by nothing in production), the example script and the context builder (stateless copying).
Of the simulator: the string fields of its state, the noise generator (its values are a
scenario's `noise`), the expression language beyond the expressions used, entries nothing
records any more (`ReliefUpdate`, `ObservationOverrun`, `Custom`), the dumps. Of the mock
manager: the D-Bus mode, a loop that emits signals. In `Manager` a monitor is any sequence
of its signals; what is particular to each kind is in `Monitors`.

## 6. Plan

Done: the evaluator, the monitors and the GPU providers, the script, the policy host, the
deduplicator, the channels and the composed process, the simulator with its loader and
reports, the mock peers, with their runs, and the proofs of section 4.

Next, in this order:

1. Proofs: `CompactKeepsEvents` and `SummariesAgree`, with the reports of `Trajectory` written
   as recursive functions over positions; the bounds of `PhysicsBounded` that hold for every
   scenario.
2. `Triggers`: `TbtTracker` and `TriggerState` of `policy/common/state.rs`, as state of
   `LuaPolicy`, so that the latency ratio is computed rather than chosen.
