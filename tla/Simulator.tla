----------------------------- MODULE Simulator ------------------------------
(***************************************************************************)
(* The simulator (sim/harness.rs), driven as bin/sim_run.rs and the tests  *)
(* drive it: a scenario is loaded, then run_for and run_until are called   *)
(* on it one after the other.  A tick drains the events due by its end,    *)
(* handles them in order against the state the tick began with, steps the  *)
(* physics and advances the clock.  Directives pass through the            *)
(* deduplicator the manager uses, told the simulated time.                 *)
(*                                                                         *)
(* The scenario's data is a record (see SimPhysics); the policy is any     *)
(* that answers each signal with nothing or a batch of its `answers'.      *)
(***************************************************************************)
EXTENDS Deduplicator, VirtualClock, SimSignal, Trajectory, ScenarioConfig

CONSTANTS
    Scenarios,          \* the scenarios explored
    ScenarioOf(_),      \* the scenario a merged document describes
    OBSERVATION_DELAY,  \* from an action to its observation (3 s)
    HORIZON             \* how far run_until schedules events ahead (60 s)

EngineCommand ==
    [type : {"KvCompress"}, budget : 0..100]
        \cup [type : {"RestoreDefaults", "Suspend", "Resume", "GpuYield", "GpuOffload"}]

\* A scenario as the deserializer leaves it, with a policy and calls.  A tick is not longer than
\* the delay of an observation (50 ms against 3 s).
WellFormed(c) ==
    /\ c.tick \in 1..OBSERVATION_DELAY
    /\ c.answers \subseteq Commands
    /\ c.period \in [{"Heartbeat"} \cup SignalKinds -> Nat]
    /\ c.injections \in Seq([var : STRING, op : STRING, delta : Int, tau : Nat, t_start : Nat, duration : Nat])
    /\ c.calls \in Seq([op : {"run_for", "run_until"}, for : Nat])

ASSUME SimulatorAssumption ==
    /\ OBSERVATION_DELAY \in Nat /\ HORIZON \in Nat
    /\ Commands \subseteq Seq(EngineCommand)
    /\ \A c \in Scenarios : WellFormed(c)

VARIABLES
    cfg,            \* the ScenarioConfig, fixed once loaded
    calls,          \* the run_for and run_until calls still to come
    clock,
    state, engine,
    trajectory,
    last_signal_levels,
    stage,          \* "loading", "idle" between calls, "loop" between ticks, "events" within
                    \* one, "failed" after an error of the physics
    call, end,      \* the call being executed and when it ends
    batch,          \* the events of this tick not handled yet
    exact,          \* history: every call so far ended where its events were scheduled to
    spans,          \* history: from when until when each call scheduled events
    held            \* history: for the position of each snapshot, the whole state it was taken of

simVars == <<cfg, calls, clock, state, engine, trajectory, last_signal_levels, stage, call, end,
             batch, exact, spans, held>>
allVars == <<vars, loadVars, simVars>>

NoLevel == -1     \* no signal of this kind yet
Idle == [op |-> "none", for |-> 0]

\* Simulator::new
NewSimulator(c) ==
    /\ calls = c.calls
    /\ clock = NewClock
    /\ state = from_config(c.init)
    /\ engine = new_engine(c)
    /\ trajectory = <<>>
    /\ last_signal_levels = [k \in SignalKinds |-> NoLevel]
    /\ call = Idle /\ end = 0 /\ batch = {}
    /\ exact = TRUE /\ spans = <<>> /\ held = <<>>

\* Either a scenario given to Simulator::new, or files to load one from.
SimInit ==
    /\ Init
    /\ \/ /\ cfg \in Scenarios /\ stage = "idle" /\ NewSimulator(cfg)
          /\ parent = [f \in Files |-> NoParent] /\ document = [f \in Files |-> NoDocument]
          /\ target = NoParent /\ stack = <<>> /\ visited = {} /\ merged = NoDocument
          /\ outcome = "given"
       \/ /\ LoadInit
          /\ cfg = ScenarioOf(NoDocument) /\ stage = "loading" /\ NewSimulator(cfg)

-----------------------------------------------------------------------------
(* Loading.                                                                *)

Load == stage = "loading" /\ LoadStep /\ UNCHANGED <<vars, simVars>>

\* with_lua_policy(cfg, ...): sim_run goes no further after an error.
Construct ==
    /\ stage = "loading" /\ outcome = "loaded"
    /\ cfg' = ScenarioOf(merged)
    /\ calls' = cfg'.calls
    /\ state' = from_config(cfg'.init)
    /\ engine' = new_engine(cfg')
    /\ stage' = "idle"
    /\ UNCHANGED <<vars, loadVars, clock, trajectory, last_signal_levels, call, end, batch, exact, spans, held>>

-----------------------------------------------------------------------------
(* The two calls.                                                          *)

\* The periodic events, then the edges of the injections, between now and until.
preload_events(c, until) ==
    LET poll(clk, kind) == schedule_periodic_from(clk, kind, c.now, cfg.period[kind], until)
        polled == poll(poll(poll(poll(poll(c, "Heartbeat"), "memory"), "compute"), "thermal"), "energy")
        edge(clk, kind, i, at) ==
            IF c.now < at /\ at <= until THEN schedule(clk, kind, i, at) ELSE clk
        inject_edges(clk, i) ==
            LET inj == cfg.injections[i]
            IN  edge(edge(clk, "InjectionStart", i, inj.t_start), "InjectionEnd", i, inj.t_start + inj.duration)
        loaded[i \in 0..Len(cfg.injections)] == IF i = 0 THEN polled ELSE inject_edges(loaded[i - 1], i)
    IN  loaded[Len(cfg.injections)]

until_of(c) == clock.now + (IF c.op = "run_until" /\ c.for > HORIZON THEN HORIZON ELSE c.for)

StartCall ==
    /\ stage = "idle" /\ calls # <<>>
    /\ call' = Head(calls) /\ calls' = Tail(calls)
    /\ end' = clock.now + Head(calls).for
    /\ clock' = preload_events(clock, until_of(Head(calls)))
    /\ stage' = "loop"
    /\ spans' = Append(spans, [from |-> clock.now, until |-> until_of(Head(calls))])
    /\ UNCHANGED <<vars, loadVars, cfg, state, engine, trajectory, last_signal_levels, batch, exact, held>>

\* A faulty variant of EndCall.
Mut_ends_exactly ==
    /\ stage = "loop"
    /\ clock.now = end
    /\ stage' = "idle" /\ call' = Idle /\ end' = 0
    /\ exact' = (exact /\ call.for <= HORIZON)
    /\ UNCHANGED <<vars, loadVars, cfg, calls, clock, state, engine, trajectory, last_signal_levels, batch,
                   spans, held>>

\* run_for has reached its end, run_until its predicate or, with MaxDurationExceeded, its end.
EndCall ==
    /\ stage = "loop"
    /\ call.op = "run_until" \/ clock.now >= end
    /\ stage' = "idle" /\ call' = Idle /\ end' = 0
    /\ exact' = (exact /\ clock.now = end /\ call.for <= HORIZON)
    /\ UNCHANGED <<vars, loadVars, cfg, calls, clock, state, engine, trajectory, last_signal_levels, batch,
                   spans, held>>

-----------------------------------------------------------------------------
(* One tick.                                                               *)

tick_end == clock.now + cfg.tick

StartTick ==
    /\ stage = "loop" /\ clock.now < end
    /\ batch' = drain_until(clock, tick_end)
    /\ clock' = [clock EXCEPT !.events = @ \ batch']
    /\ stage' = "events"
    /\ UNCHANGED <<vars, loadVars, cfg, calls, state, engine, trajectory, last_signal_levels, call, end, exact, spans, held>>

Due(kinds) == stage = "events" /\ batch # {} /\ Earliest(batch).kind \in kinds
Handled == batch' = batch \ {Earliest(batch)}

\* The time the deduplicator is told catches up with the event about to be handled.
PassTime ==
    /\ stage = "events" /\ batch # {} /\ now < Earliest(batch).at
    /\ Tick
    /\ UNCHANGED <<loadVars, simVars>>

HandleHeartbeat ==
    /\ Due({"Heartbeat"}) /\ Handled
    /\ trajectory' = Append(trajectory, Heartbeat(Earliest(batch).at, derive_heartbeat(state, engine)))
    /\ UNCHANGED <<vars, loadVars, cfg, calls, clock, state, engine, last_signal_levels, stage, call, end, exact, spans, held>>

HandleObservation ==
    /\ Due({"ObservationDue"}) /\ Handled
    /\ trajectory' = Append(trajectory, ObservationDue(Earliest(batch).at, Earliest(batch).arg))
    /\ UNCHANGED <<vars, loadVars, cfg, calls, clock, state, engine, last_signal_levels, stage, call, end, exact, spans, held>>

HandleInjection ==
    /\ Due({"InjectionStart", "InjectionEnd"}) /\ Handled
    /\ LET e == Earliest(batch)
       IN  trajectory' = Append(trajectory, InjectionEvent(e.at, e.arg, e.kind = "InjectionStart"))
    /\ UNCHANGED <<vars, loadVars, cfg, calls, clock, state, engine, last_signal_levels, stage, call, end, exact, spans, held>>

\* observable_action_name: only a compression is observed, a delay after the tick's start.
observe(c, commands) ==
    LET seen[i \in 0..Len(commands)] ==
            IF i = 0 THEN c
            ELSE IF commands[i].type = "KvCompress"
            THEN schedule(seen[i - 1], "ObservationDue", clock.now, clock.now + OBSERVATION_DELAY)
            ELSE seen[i - 1]
    IN  seen[Len(commands)]

\* last_signal_levels.insert
remember(kind, level) == [last_signal_levels EXCEPT ![kind] = level]

\* The entry for a change of level, if there is one.
transition(at, kind, level) ==
    IF last_signal_levels[kind] = level THEN <<>>
    ELSE <<LevelTransition(at, kind, last_signal_levels[kind], level, state)>>

\* process_signal returned no directive.
NoAnswer == UNCHANGED <<vars, engine, clock>>

\* Some(dir) from the deduplicator: the engine obeys and its observations are scheduled.
Obey(c) ==
    /\ Pass(c)
    /\ engine' = apply_directive(engine, c)
    /\ clock' = observe(clock, c)

\* None from the deduplicator.
Withhold(c) == Suppress(c) /\ UNCHANGED <<engine, clock>>

HandleSignal ==
    /\ Due(SignalKinds) /\ Handled
    /\ now = Earliest(batch).at
    /\ \E noise \in cfg.noise :
          LET e      == Earliest(batch)
              sig    == derive_signal(e.kind, state, noise, cfg)
              change == transition(e.at, e.kind, sig.level)
          IN  /\ last_signal_levels' = remember(e.kind, sig.level)
              /\ \/ NoAnswer /\ trajectory' = trajectory \o change \o <<Signal(e.at, sig)>>
                 \/ \E c \in cfg.answers :
                       \/ Obey(c) /\ trajectory' = trajectory \o change
                                                  \o <<Directive(e.at, sig, c), Signal(e.at, sig)>>
                       \/ Withhold(c) /\ trajectory' = trajectory \o change \o <<Signal(e.at, sig)>>
    /\ UNCHANGED <<loadVars, cfg, calls, state, stage, call, end, exact, spans, held>>

\* physics::step: frequencies and passive dynamics, injections, actions, derived fields.
Step ==
    \E driven \in {passive_dynamics(dvfs_update(state, cfg), cfg)} :
    \E injected \in {external_injection_apply(driven, cfg, clock.now)} :
    \E acted \in {apply_actions(injected, engine, cfg)} :
        state' = evaluate(acted, engine, cfg)

\* The state at the position the snapshot is about to get.
Hold(s) == held' = [i \in DOMAIN held \cup {Len(trajectory) + 1} |-> IF i \in DOMAIN held THEN held[i] ELSE s]

\* A faulty variant of FinishTick.
Mut_snapshot_before_step ==
    /\ stage = "events" /\ batch = {}
    /\ ~derived_fails(cfg)
    /\ Step
    /\ trajectory' = Append(trajectory, StateSnapshot(tick_end, state, engine))
    /\ Hold(state')
    /\ clock' = advance(clock, cfg.tick)
    /\ stage' = "loop"
    /\ UNCHANGED <<vars, loadVars, cfg, calls, engine, last_signal_levels, call, end, batch, exact, spans>>

\* The end of the tick: physics, snapshot, clock.
FinishTick ==
    /\ stage = "events" /\ batch = {}
    /\ ~derived_fails(cfg)
    /\ Step
    /\ trajectory' = Append(trajectory, StateSnapshot(tick_end, state', engine))
    /\ Hold(state')
    /\ clock' = advance(clock, cfg.tick)
    /\ stage' = "loop"
    /\ UNCHANGED <<vars, loadVars, cfg, calls, engine, last_signal_levels, call, end, batch, exact, spans>>

\* SimError::Physics: the run is abandoned with the state half stepped and no snapshot of it.
FailTick ==
    /\ stage = "events" /\ batch = {}
    /\ derived_fails(cfg)
    /\ Step
    /\ stage' = "failed"
    /\ UNCHANGED <<vars, loadVars, cfg, calls, clock, engine, trajectory, last_signal_levels,
                   call, end, batch, exact, spans, held>>

Events == HandleHeartbeat \/ HandleObservation \/ HandleInjection \/ HandleSignal \/ PassTime

SimNext == Load \/ Construct \/ StartCall \/ EndCall \/ StartTick \/ Events \/ FinishTick \/ FailTick

\* A single thread runs until it is done.
SimSpec == SimInit /\ [][SimNext]_allVars /\ WF_allVars(SimNext)

-----------------------------------------------------------------------------
SimTypeOK ==
    /\ LoadTypeOK
    /\ clock.now \in Nat /\ clock.next_id \in Nat
    /\ \A e \in clock.events \cup batch : e.at \in Nat /\ e.id < clock.next_id
    /\ state \in [DOMAIN state -> Int] /\ DOMAIN state = DOMAIN cfg.init \cup DerivedFields
    /\ engine.last_evict_ratio \in 0..100 \cup {NoRatio}
    /\ last_signal_levels \in [SignalKinds -> 0..3 \cup {NoLevel}]
    /\ stage \in {"loading", "idle", "loop", "events", "failed"}
    /\ exact \in BOOLEAN /\ spans \in Seq([from : Nat, until : Nat])

BetweenTicks == stage \in {"idle", "loop"}

\* Times never go back, whatever the tick size and however often a run is interrupted and
\* taken up again, and between ticks the last entry is at the simulated time.
TrajectoryOrdered ==
    /\ \A i \in 2..Len(trajectory) : trajectory[i - 1].at <= trajectory[i].at
    /\ BetweenTicks => last_at_s(trajectory) = clock.now

SnapsBefore(i) == {j \in 1..(i - 1) : trajectory[j].kind = "StateSnapshot"}

\* The state the entries from i on were made of, and what a reader is told of it: those of the
\* last snapshot before i.
StateAt(i) == IF SnapsBefore(i) = {} THEN from_config(cfg.init) ELSE held[Max(SnapsBefore(i))]
ToldAt(i) ==
    IF SnapsBefore(i) = {} THEN from_state(from_config(cfg.init)) ELSE trajectory[Max(SnapsBefore(i))].state

\* Every signal describes the state the tick began with, which is the one the snapshot before
\* it was taken of, and never one the same tick has yet to produce.  Memory, thermal and energy
\* signals follow from the snapshot as it is dumped; a compute signal does not, since the dump
\* leaves out the external load.
SignalsExplained ==
    \A i \in DOMAIN trajectory : trajectory[i].kind = "Signal" =>
        LET sig == trajectory[i].signal
        IN  \E noise \in cfg.noise :
                /\ sig = from_signal(derive_signal(sig.kind, StateAt(i), noise, cfg))
                /\ sig.kind # "compute" => sig = from_signal(derive_signal(sig.kind, ToldAt(i), noise, cfg))

SignalsBefore(k, i) == {j \in 1..(i - 1) : trajectory[j].kind = "Signal" /\ trajectory[j].signal.kind = k}

\* Where the last signal of a kind before i is, and its level.
PreviousSignal(k, i) == IF SignalsBefore(k, i) = {} THEN 0 ELSE Max(SignalsBefore(k, i))
LevelBefore(k, i) ==
    IF PreviousSignal(k, i) = 0 THEN NoLevel ELSE trajectory[PreviousSignal(k, i)].signal.level

IsTransition(j, k) == trajectory[j].kind = "LevelTransition" /\ trajectory[j].signal_kind = k

\* Between two signals of a kind there is a transition from the level of one to that of the
\* other, just one, if the levels differ and none if they do not; and no transition is without
\* the signal it announces.
TransitionsChain ==
    /\ \A i \in DOMAIN trajectory : trajectory[i].kind = "Signal" =>
          LET k       == trajectory[i].signal.kind
              old     == LevelBefore(k, i)
              new     == trajectory[i].signal.level
              between == {j \in (PreviousSignal(k, i) + 1)..(i - 1) : IsTransition(j, k)}
          IN  IF old = new THEN between = {}
              ELSE \E j \in between : between = {j} /\ trajectory[j].from = old /\ trajectory[j].to = new
    /\ \A j \in DOMAIN trajectory : trajectory[j].kind = "LevelTransition" =>
          \E i \in (j + 1)..Len(trajectory) :
              trajectory[i].kind = "Signal" /\ trajectory[i].signal.kind = trajectory[j].signal_kind

(***************************************************************************)
(* The trajectory is the history of the run: it is in the order of time,   *)
(* each signal comes from the state at the snapshot above it and, unless   *)
(* it is a compute signal, can be recomputed from the dump of it, and the  *)
(* recorded transitions are the changes of level and nothing else.         *)
(***************************************************************************)
TrajectoryCoherent == TrajectoryOrdered /\ SignalsExplained /\ TransitionsChain

IsPoll(e, k) == IF k = "Heartbeat" THEN e.kind = k ELSE e.kind = "Signal" /\ e.signal.kind = k

\* After runs that each ended where their events were scheduled to, every heartbeat and signal
\* with a period has occurred at each of its multiples and at no other time, once, across the
\* seams between runs too.  (A run_until cut short leaves its events behind and the next run
\* schedules them again; a run_for that overshoots loses those in between.)
PollsExact ==
    exact /\ stage = "idle" =>
        \A k \in DOMAIN cfg.period : cfg.period[k] > 0 =>
            LET polls == {i \in DOMAIN trajectory : IsPoll(trajectory[i], k)}
            IN  /\ {trajectory[i].at : i \in polls} = {t \in 1..clock.now : t % cfg.period[k] = 0}
                /\ \A i, j \in polls : trajectory[i].at = trajectory[j].at => i = j

\* After such runs, too, each edge of an injection's window that lies after time 0 and not after
\* the present is in the trajectory at its time, once, and no other edge is.
EdgesExact ==
    exact /\ stage = "idle" =>
        \A i \in DOMAIN cfg.injections :
            LET edges(started) == {j \in DOMAIN trajectory : /\ trajectory[j].kind = "InjectionEvent"
                                                            /\ trajectory[j].idx = i
                                                            /\ trajectory[j].started = started}
                recorded(started, at) ==
                    /\ {trajectory[j].at : j \in edges(started)} = {at} \cap 1..clock.now
                    /\ \A j, m \in edges(started) : j = m
                inj == cfg.injections[i]
            IN  recorded(TRUE, inj.t_start) /\ recorded(FALSE, inj.t_start + inj.duration)

Compressions(commands) == Cardinality({i \in DOMAIN commands : commands[i].type = "KvCompress"})

\* The compressions let through so far.
CompressionsGiven ==
    LET given[i \in 0..Len(emitted)] ==
            IF i = 0 THEN 0 ELSE given[i - 1] + Compressions(emitted[i].commands)
    IN  given[Len(emitted)]

\* Every compression the engine was given is observed once, the delay after the tick that gave
\* it, or is still due: none is lost when another follows before the delay is over or a run ends.
ObservationsComplete ==
    LET seen == {i \in DOMAIN trajectory : trajectory[i].kind = "ObservationDue"}
        due  == {e \in clock.events \cup batch : e.kind = "ObservationDue"}
    IN  /\ Cardinality(seen) + Cardinality(due) = CompressionsGiven
        /\ \A i \in seen : trajectory[i].at = trajectory[i].recorded_at + OBSERVATION_DELAY

(***************************************************************************)
(* What is scheduled occurs, once and when it is due: polls at the         *)
(* multiples of their periods and the edges of injections, over several    *)
(* calls, and one observation for every compression that was let through.  *)
(***************************************************************************)
ScheduleKept == PollsExact /\ EdgesExact /\ ObservationsComplete

(***************************************************************************)
(* Every poll is accounted for, also after runs that were cut short, ran   *)
(* over or went beyond the horizon: at each multiple of its period a       *)
(* heartbeat or signal has occurred once for every call that scheduled     *)
(* events there: twice where a run took up one that was cut short, not at  *)
(* all where none did (between the end of a run and the end of its last    *)
(* tick, beyond the horizon), and at no other time.                        *)
(***************************************************************************)
PollsAccounted ==
    stage = "idle" =>
        \A k \in {p \in DOMAIN cfg.period : cfg.period[p] > 0} : \A t \in 1..clock.now :
            LET polls    == {i \in DOMAIN trajectory : IsPoll(trajectory[i], k) /\ trajectory[i].at = t}
                covering == {i \in DOMAIN spans : spans[i].from < t /\ t <= spans[i].until}
            IN  Cardinality(polls) = IF t % cfg.period[k] = 0 THEN Cardinality(covering) ELSE 0

(***************************************************************************)
(* Suppression does not take the simulated engine away from what the       *)
(* policy wants: its compression is the one last asked for, passed on or   *)
(* withheld, and gone when the last wish was to restore the defaults.      *)
(***************************************************************************)
EngineAsAsked ==
    asked # NoCommands =>
        engine.last_evict_ratio = apply_directive(new_engine(cfg), asked).last_evict_ratio

\* An "add" injection adds its delta once in every tick that starts in its window, over all
\* runs, and to nothing else.
InjectionsAccounted ==
    BetweenTicks =>
        \A i \in DOMAIN cfg.injections :
            LET inj   == cfg.injections[i]
                ticks == {n \in 0..(clock.now \div cfg.tick - 1) :
                            n * cfg.tick \in inj.t_start..(inj.t_start + inj.duration - 1)}
            IN  inj.op = "add" /\ inj.tau = 0 =>
                    state[inj.var] = cfg.init[inj.var] + inj.delta * Cardinality(ticks)

\* Each frequency in its range, the KV cache in its capacity and, under a steady load, both
\* temperatures between the lowest and the highest that either cluster starts at or tends to.
PhysicsBounded ==
    /\ \A c \in Clusters : state[FreqOf[c]] \in state[MinFreqOf[c]]..state[MaxFreqOf[c]]
    /\ state["kv_cache_bytes"] <= state["kv_cache_capacity_bytes"]
    /\ cfg.injections = <<>> /\ cfg.active = <<>> =>
          LET starts == {cfg.init[TempOf[c]] : c \in Clusters}
              low    == {cfg.thermal[c].baseline : c \in Clusters}
              high   == {cfg.thermal[c].baseline + 100
                         + (cfg.thermal[c].coeff * (state[EngineOf[c]] + state[ExternalOf[c]])) \div 100 : c \in Clusters}
          IN  \A c \in Clusters : state[TempOf[c]] \in Min(starts \cup low)..Max(starts \cup high)

\* The active actions in any order.
Reordered(e) ==
    {[e EXCEPT !.active_actions = [i \in DOMAIN @ |-> @[p[i]]]] :
        p \in Bijection(DOMAIN e.active_actions, DOMAIN e.active_actions)}

\* Of the order of the active actions only this matters to a dimension: which operation comes
\* first, since all that follow are combined by it, whatever their own, and which tau is taken.
FirstEffectDecides ==
    \A other \in Reordered(engine) : \A f \in DOMAIN state :
        LET got  == collect_effect(f, engine, cfg)
            got2 == collect_effect(f, other, cfg)
        IN  /\ got # <<>> => got[1].op = got2[1].op
            /\ dim_tau(f, engine, cfg) = dim_tau(f, other, cfg)
            => apply_actions(state, other, cfg)[f] = apply_actions(state, engine, cfg)[f]

\* Fields derived from other derived fields are as old as the order of the HashMap makes them: the
\* time between tokens is that of the throughput in the same snapshot if the throughput comes
\* first, and otherwise of that in the snapshot before.
DerivedByOrder ==
    LET snaps   == Entries(trajectory, "StateSnapshot")
        told(i) == IF i = 0 THEN from_state(from_config(cfg.init)) ELSE snaps[i].state
        pos(f)  == SelectInSeq(cfg.order, LAMBDA name : name = f)
        first   == pos("throughput_tps") < pos("tbt_ms")
    IN  \A i \in DOMAIN snaps :
            snaps[i].state["tbt_ms"] = eval("1000 / throughput_tps", told(IF first THEN i ELSE i - 1), engine, cfg)

(***************************************************************************)
(* The simulated state is what physics and injections make of it over any  *)
(* number of ticks and calls: it stays within its bounds, a variable that  *)
(* is injected into has moved by exactly the deltas of the ticks that      *)
(* started in the windows, and orders the program does not fix show in the *)
(* derived fields and the combination of actions as said above, no more.   *)
(***************************************************************************)
StateAccounted ==
    SimTypeOK /\ PhysicsBounded /\ InjectionsAccounted /\ FirstEffectDecides /\ DerivedByOrder

\* The duration is the simulated time, the directives are those the deduplicator let through,
\* when it did, every signal is counted under one kind and level, the final state is the
\* simulator's, and saturation is reported only if every directive sent the one kind of command.
SummariesAgree ==
    stage = "idle" =>
        LET summary == from_trajectory(trajectory, SignalKinds)
            session == format_session_summary(trajectory, SignalKinds, 0..3)
            dirs    == session.directives
        IN  /\ summary.duration = clock.now /\ session.duration = clock.now
            /\ [i \in DOMAIN dirs |-> [commands |-> dirs[i].commands, at |-> dirs[i].at]] = emitted
            /\ summary.directives = Len(emitted)
            /\ emitted # <<>> => summary.first_directive = <<emitted[1].at>>
            /\ MapThenSumSet(LAMBDA k : summary.signals[k], SignalKinds) = signal_count(trajectory)
            /\ MapThenSumSet(LAMBDA kl : session.signals[kl[1], kl[2]], SignalKinds \X (0..3)) = signal_count(trajectory)
            /\ clock.now > 0 => summary.state_final = <<from_state(state)>>
            /\ session.saturated =>
                  \A i, j \in DOMAIN emitted :
                     {emitted[i].commands[n].type : n \in DOMAIN emitted[i].commands}
                        = {emitted[j].commands[n].type : n \in DOMAIN emitted[j].commands}

\* "시그널/지시/주입/관측 같은 구조적 이벤트는 모두 유지": the compact timeline keeps every
\* structural event in order, and of the snapshots exactly the first of each second; the full
\* one is the trajectory.
CompactKeepsEvents ==
    stage = "idle" =>
        LET structural(e) == e.kind \notin {"StateSnapshot", "Heartbeat"}
            compact == format_timeline(trajectory, "Compact", Second)
            snaps   == Entries(trajectory, "StateSnapshot")
            first(i) == \A j \in 1..(i - 1) : snaps[j].at \div Second # snaps[i].at \div Second
        IN  /\ SelectSeq(compact, structural) = SelectSeq(trajectory, structural)
            /\ ToSet(Entries(compact, "StateSnapshot")) = {snaps[i] : i \in {n \in DOMAIN snaps : first(n)}}
            /\ format_timeline(trajectory, "Full", Second) = trajectory

(***************************************************************************)
(* The reports, separate passes with filters of their own, agree with what *)
(* happened and so with each other: both summaries and the two timelines.  *)
(***************************************************************************)
ReportsAgree == SummariesAgree /\ CompactKeepsEvents

(***************************************************************************)
(* Loading ends, refused or not, and so does every run: the simulator      *)
(* comes to rest after its last call.                                      *)
(***************************************************************************)
SimEnds ==
    <>(\/ stage = "failed"
       \/ stage = "loading" /\ outcome \notin {"loading", "loaded"}
       \/ stage = "idle" /\ calls = <<>>)

=============================================================================
