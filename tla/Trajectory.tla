----------------------------- MODULE Trajectory -----------------------------
(***************************************************************************)
(* The record of a simulation (sim/trajectory.rs) and the reports made     *)
(* from it.  A trajectory is a sequence of entries; every entry has a kind *)
(* and a time.                                                             *)
(***************************************************************************)
EXTENDS Integers, Sequences, SequencesExt

CONSTANT Saturation   \* directives of a single kind that count as saturation (10)

-----------------------------------------------------------------------------
(* What is written down of states, engines, messages and signals: less     *)
(* than the simulator knows.                                               *)

\* PhysicalStateSnapshot::from_state: neither the external load nor capacities and limits.
Dumped ==
    {"kv_cache_bytes", "kv_cache_tokens", "device_memory_used_mb", "device_memory_total_mb",
     "memory_bw_utilization_pct", "engine_cpu_pct", "engine_gpu_pct", "cpu_freq_mhz", "gpu_freq_mhz",
     "thermal_c", "cpu_cluster_thermal_c", "gpu_cluster_thermal_c", "throughput_tps", "tbt_ms"}
from_state(s) == [f \in Dumped |-> s[f]]

\* EngineStateSnapshot::from_engine, EngineMessageDump::from_msg and SignalDump::from_signal (which
\* drops a thermal signal's throttle_ratio too; it is in no signal here).
from_engine(e) == [f \in DOMAIN e \ {"last_evict_ratio"} |-> e[f]]
from_msg(m) == [f \in DOMAIN m \ {"state"} |-> m[f]]
from_signal(sig) == [f \in DOMAIN sig \ {"recommended_backend", "reason"} |-> sig[f]]

-----------------------------------------------------------------------------
(* The entries.                                                            *)

StateSnapshot(at, s, e) ==
    [kind |-> "StateSnapshot", at |-> at, state |-> from_state(s), engine |-> from_engine(e)]
Heartbeat(at, status) == [kind |-> "Heartbeat", at |-> at, message |-> from_msg(status)]
Signal(at, sig) == [kind |-> "Signal", at |-> at, signal |-> from_signal(sig)]
Directive(at, trigger, commands) ==
    [kind |-> "Directive", at |-> at, trigger |-> from_signal(trigger), commands |-> commands]
ObservationDue(at, recorded) == [kind |-> "ObservationDue", at |-> at, recorded_at |-> recorded]
InjectionEvent(at, idx, started) ==
    [kind |-> "InjectionEvent", at |-> at, idx |-> idx, started |-> started]
LevelTransition(at, kind, from, to, s) ==
    [kind |-> "LevelTransition", at |-> at, signal_kind |-> kind, from |-> from, to |-> to,
     state |-> from_state(s)]

-----------------------------------------------------------------------------
(* Queries.                                                                *)

Entries(t, kind) == SelectSeq(t, LAMBDA e : e.kind = kind)

heartbeat_count(t) == Len(Entries(t, "Heartbeat"))
signal_count(t) == Len(Entries(t, "Signal"))
directive_count(t) == Len(Entries(t, "Directive"))
observation_due_count(t) == Len(Entries(t, "ObservationDue"))

signal_count_by_kind(t, k) == Len(SelectSeq(Entries(t, "Signal"), LAMBDA e : e.signal.kind = k))

last_at_s(t) == IF t = <<>> THEN 0 ELSE Last(t).at

\* A faulty variant of directive_kinds.
Mut_last_command_only(t) ==
    LET cmds == [i \in DOMAIN Entries(t, "Directive") |-> Last(Entries(t, "Directive")[i].commands)]
    IN  [k \in {cmds[i].type : i \in DOMAIN cmds} |-> Cardinality({i \in DOMAIN cmds : cmds[i].type = k})]

\* The command kinds of the directives, and how often each occurs.
directive_kinds(t) ==
    LET cmds == FlattenSeq([i \in DOMAIN Entries(t, "Directive") |-> Entries(t, "Directive")[i].commands])
    IN  [k \in {cmds[i].type : i \in DOMAIN cmds} |-> Cardinality({i \in DOMAIN cmds : cmds[i].type = k})]

-----------------------------------------------------------------------------
(* Reports.                                                                *)

\* TrajectorySummary::from_trajectory
from_trajectory(t, kinds) ==
    [duration         |-> last_at_s(t),
     heartbeats       |-> heartbeat_count(t),
     signals          |-> [k \in kinds |-> signal_count_by_kind(t, k)],
     directives       |-> directive_count(t),
     directive_kinds  |-> directive_kinds(t),
     first_directive  |-> LET d == Entries(t, "Directive") IN IF d = <<>> THEN <<>> ELSE <<d[1].at>>,
     state_final      |-> LET s == Entries(t, "StateSnapshot") IN IF s = <<>> THEN <<>> ELSE <<Last(s).state>>]

\* format_session_summary: signals by kind and level, the directives with their triggers, a
\* warning when a single kind of command was sent, and the transitions.
format_session_summary(t, kinds, levels) ==
    [duration    |-> last_at_s(t),
     signals     |-> [k \in kinds, l \in levels |->
                        Len(SelectSeq(Entries(t, "Signal"), LAMBDA e : e.signal.kind = k /\ e.signal.level = l))],
     directives  |-> Entries(t, "Directive"),
     saturated   |-> \E k \in DOMAIN directive_kinds(t) :
                        DOMAIN directive_kinds(t) = {k} /\ directive_kinds(t)[k] >= Saturation,
     transitions |-> Entries(t, "LevelTransition")]

\* format_timeline_inner: a compact timeline has no heartbeats, and of the snapshots of a
\* second the first.
shown(out, e, mode, second) ==
    LET states == Entries(out, "StateSnapshot")
    IN  IF mode = "Compact" /\ (\/ e.kind = "Heartbeat"
                                \/ /\ e.kind = "StateSnapshot" /\ states # <<>>
                                   /\ Last(states).at \div second = e.at \div second)
        THEN out ELSE Append(out, e)

format_timeline(t, mode, second) == FoldLeft(LAMBDA out, e : shown(out, e, mode, second), <<>>, t)

=============================================================================
