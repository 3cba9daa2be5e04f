----------------------------- MODULE SimPhysics -----------------------------
(***************************************************************************)
(* The simulator's physics (sim/state.rs, physics.rs, compose.rs,          *)
(* derived.rs and the built-in functions of expr.rs): what one tick makes  *)
(* of the physical state.                                                  *)
(*                                                                         *)
(* A state is a function from field names to integers: temperatures in     *)
(* tenths of a degree, factors and coefficients in percent.  A scenario    *)
(* is a record of what its YAML file says.                                 *)
(***************************************************************************)
EXTENDS Integers, Sequences, SequencesExt

CONSTANTS
    Lag,    \* Lag[tau, dt]: the percentage of the way to its target a field with time
            \* constant tau moves in a tick of dt, 100 * (1 - exp(-dt / tau))
    Second  \* units of time in a second

ASSUME SimPhysicsAssumption ==
    /\ \A d \in DOMAIN Lag : Lag[d] \in 1..100 /\ (d[1] = 0 <=> Lag[d] = 100)
    /\ Second \in Nat \ {0}

FIXED_DT == 0   \* the tick derived.rs assumes, whatever tick_dt is: 50 ms, less than a unit of time

-----------------------------------------------------------------------------
(* The physical state and the engine's intent.                             *)

DerivedFields == {"throughput_tps", "tbt_ms", "latency_degradation"}

\* PhysicalState::from_config: derived fields start at 0.
from_config(init) ==
    [f \in DOMAIN init \cup DerivedFields |-> IF f \in DerivedFields THEN 0 ELSE init[f]]

\* get_f64 is Some.
Known(s, field) == field \in DOMAIN s

\* An unknown field is left alone.
set_f64(s, field, v) == IF field \in DOMAIN s THEN [s EXCEPT ![field] = v] ELSE s

\* EngineStateModel: the actions in force from the start, its settings and the last
\* compression asked for.
NoRatio == -1
new_engine(cfg) ==
    [active_actions |-> cfg.active, partition_ratio |-> cfg.partition, throttle_delay_ms |-> cfg.delay,
     skip_ratio |-> 0, last_evict_ratio |-> NoRatio]

\* A faulty variant of apply_command.
Mut_restore_keeps_ratio(engine, cmd) ==
    CASE cmd.type = "KvCompress"      -> [engine EXCEPT !.last_evict_ratio = cmd.budget]
      [] cmd.type = "RestoreDefaults" -> [engine EXCEPT !.active_actions = <<>>]
      [] OTHER                        -> engine

\* To restore the defaults is to clear the settings, not to go back to the scenario's.
apply_command(engine, cmd) ==
    CASE cmd.type = "KvCompress" -> [engine EXCEPT !.last_evict_ratio = cmd.budget]
      [] cmd.type = "RestoreDefaults" ->
            [engine EXCEPT !.active_actions = <<>>, !.partition_ratio = 0, !.throttle_delay_ms = 0,
                           !.skip_ratio = 0, !.last_evict_ratio = NoRatio]
      [] OTHER -> engine

\* The commands in order, each on what the one before it left.
apply_directive(engine, commands) ==
    LET applied[i \in 0..Len(commands)] ==
            IF i = 0 THEN engine ELSE apply_command(applied[i - 1], commands[i])
    IN  applied[Len(commands)]

-----------------------------------------------------------------------------
(* Convergence and DVFS.                                                   *)

\* lag_step: x + (target - x) * (1 - exp(-dt / tau)).
lag_step(x, target, tau, dt) == x + ((target - x) * Lag[tau, dt]) \div 100

clamp(x, lo, hi) == IF x < lo THEN lo ELSE IF x > hi THEN hi ELSE x

dvfs_target_freq(temp, d, lo, hi) ==
    IF temp < d.soft THEN hi ELSE IF temp >= d.hard THEN lo
    ELSE clamp((hi * (100 - (d.k * (temp - d.soft)) \div (d.hard - d.soft))) \div 100, lo, hi)

Clusters == {"cpu", "gpu"}
FreqOf    == [cpu |-> "cpu_freq_mhz", gpu |-> "gpu_freq_mhz"]
MinFreqOf == [cpu |-> "cpu_min_freq_mhz", gpu |-> "gpu_min_freq_mhz"]
MaxFreqOf == [cpu |-> "cpu_max_freq_mhz", gpu |-> "gpu_max_freq_mhz"]
TempOf    == [cpu |-> "cpu_cluster_thermal_c", gpu |-> "gpu_cluster_thermal_c"]
EngineOf  == [cpu |-> "engine_cpu_pct", gpu |-> "engine_gpu_pct"]
ExternalOf == [cpu |-> "external_cpu_pct", gpu |-> "external_gpu_pct"]

dvfs_update(s, cfg) ==
    LET freq(c) == lag_step(s[FreqOf[c]],
                            dvfs_target_freq(s[TempOf[c]], cfg.dvfs[c], s[MinFreqOf[c]], s[MaxFreqOf[c]]),
                            cfg.dvfs[c].tau, cfg.tick)
    IN  [s EXCEPT !["cpu_freq_mhz"] = freq("cpu"), !["gpu_freq_mhz"] = freq("gpu")]

-----------------------------------------------------------------------------
(* Passive dynamics.                                                       *)

\* Where a cluster's temperature tends: baseline, load, and the frequency above one half
\* (with an exponent of 1).
target_thermal(s, c, dyn) ==
    LET ratio == (100 * s[FreqOf[c]]) \div s[MaxFreqOf[c]]
    IN  dyn.baseline + (dyn.coeff * (s[EngineOf[c]] + s[ExternalOf[c]])) \div 100
            + 2 * (IF ratio > 50 THEN ratio - 50 ELSE 0)

\* Heat flows between the clusters; the two coefficients act on opposite gaps and add up.
coupling(temp, cfg) ==
    LET flow == (cfg.coupling * (temp.cpu - temp.gpu) * cfg.tick) \div (100 * Second)
    IN  [cpu |-> temp.cpu - flow, gpu |-> temp.gpu + flow]

\* Tokens decoded in a tick, or one if the throughput is not known yet, never beyond the
\* capacity.
kv_growth(s, cfg) ==
    LET tokens == IF s["throughput_tps"] > 0 THEN (s["throughput_tps"] * cfg.tick) \div Second ELSE 1
        grown  == s["kv_cache_bytes"] + cfg.growth * tokens
    IN  IF grown > s["kv_cache_capacity_bytes"] THEN s["kv_cache_capacity_bytes"] ELSE grown

passive_dynamics(s, cfg) ==
    LET temp == coupling([c \in Clusters |-> lag_step(s[TempOf[c]], target_thermal(s, c, cfg.thermal[c]),
                                                      cfg.thermal[c].tau, cfg.tick)], cfg)
    IN  [s EXCEPT !["cpu_cluster_thermal_c"] = temp.cpu, !["gpu_cluster_thermal_c"] = temp.gpu,
                  !["kv_cache_bytes"] = IF cfg.phase \in {"decode", "prefill"} THEN kv_growth(s, cfg) ELSE @]

-----------------------------------------------------------------------------
(* External injections.                                                    *)

\* A faulty variant of in_window.
Mut_window_closed(inj, now) == inj.t_start <= now /\ now <= inj.t_start + inj.duration

in_window(inj, now) == inj.t_start <= now /\ now < inj.t_start + inj.duration

\* "add" adds the delta again in every tick of the window; nothing is undone after it.
inject(s, inj, dt) ==
    LET target == IF inj.op = "add" THEN s[inj.var] + inj.delta ELSE inj.delta
    IN  IF ~Known(s, inj.var) \/ inj.op \notin {"add", "set"} THEN s
        ELSE set_f64(s, inj.var, lag_step(s[inj.var], target, inj.tau, dt))

external_injection_apply(s, cfg, now) ==
    FoldLeft(LAMBDA st, inj : IF in_window(inj, now) THEN inject(st, inj, cfg.tick) ELSE st,
             s, cfg.injections)

-----------------------------------------------------------------------------
(* Action effects.  An effect is [op, expr, value, tau]: expr says whether *)
(* value is a literal, the engine's target_ratio or cannot be evaluated.   *)

\* A condition that cannot be evaluated does not hold.
holds(when, engine) ==
    when = "always" \/ (when = "evicting" /\ engine.last_evict_ratio \in 1..99)

\* The effects in force, in order: those of the known actions whose condition holds, then
\* those of the interactions whose actions are all active.
InForce(engine, cfg) ==
    LET acts  == SelectSeq(engine.active_actions,
                           LAMBDA a : a \in DOMAIN cfg.actions /\ holds(cfg.actions[a].when, engine))
        terms == SelectSeq(cfg.interactions, LAMBDA t : t.actions \subseteq ToSet(engine.active_actions))
    IN  [i \in DOMAIN acts |-> [term |-> FALSE, effects |-> cfg.actions[acts[i]].effects]]
            \o [i \in DOMAIN terms |-> [term |-> TRUE, effects |-> terms[i].effects]]

\* An effect that sets a tau, or whose value to set is none, contributes nothing.
Void(e, term) == e.op = "set_tau" \/ (e.op = "set" /\ (e.expr = "fails" \/ (term /\ e.expr # "literal")))

\* What any other effect contributes to its dimension.
Contribution(e, term, rule, engine) ==
    [op    |-> CASE e.op = "set"   -> IF term /\ rule = "min" THEN "min" ELSE "max"
                 [] e.op = "scale" -> "multiply"
                 [] e.op = "add"   -> "add",
     value |-> CASE e.expr = "literal"      -> e.value
                 [] e.expr = "target_ratio" ->
                        IF engine.last_evict_ratio = NoRatio THEN 0 ELSE engine.last_evict_ratio
                 [] OTHER                   -> IF e.op = "scale" THEN 100 ELSE 0]

\* The contributions to a dimension, in order.
collect_effect(dim, engine, cfg) ==
    LET rule == IF dim \in DOMAIN cfg.per_dimension THEN cfg.per_dimension[dim] ELSE cfg.default
        on   == SelectSeq(InForce(engine, cfg),
                          LAMBDA f : dim \in DOMAIN f.effects /\ ~Void(f.effects[dim], f.term))
    IN  [i \in DOMAIN on |-> Contribution(on[i].effects[dim], on[i].term, rule, engine)]

\* dim_tau: set and set_tau override, scale and add only fill in; 0 if nothing says.
dim_tau(dim, engine, cfg) ==
    LET on == SelectSeq(InForce(engine, cfg), LAMBDA f : dim \in DOMAIN f.effects)
        taken(t, f) == LET e == f.effects[dim]
                         IN  CASE e.op = "set_tau" -> {e.value}
                               [] e.op = "set"     -> IF e.tau > 0 /\ ~Void(e, f.term) THEN {e.tau} ELSE t
                               [] OTHER            -> IF e.tau > 0 /\ t = {} THEN {e.tau} ELSE t
        tau == FoldLeft(taken, {}, on)
    IN  IF tau = {} THEN 0 ELSE CHOOSE x \in tau : TRUE

\* The target of a dimension: its contributions combined by the operation of the first.
combine(current, values, op) ==
    CASE op = "multiply" -> FoldLeft(LAMBDA x, v : x * v, current, values) \div 100^Len(values)
      [] op = "add"      -> FoldLeft(LAMBDA x, v : x + v, current, values)
      [] op = "max"      -> Max(ToSet(values))
      [] op = "min"      -> Min(ToSet(values))

apply_actions(s, engine, cfg) ==
    [f \in DOMAIN s |->
        LET got == collect_effect(f, engine, cfg)
        IN  IF got = <<>> \/ engine.active_actions = <<>> THEN s[f]
            ELSE lag_step(s[f], combine(s[f], [i \in DOMAIN got |-> got[i].value], got[1].op),
                          dim_tau(f, engine, cfg), cfg.tick)]

-----------------------------------------------------------------------------
(* Derived fields.                                                         *)

freq_pct(s, c) == (100 * s[FreqOf[c]]) \div s[MaxFreqOf[c]]

bw_penalty(s) ==
    LET half == s["memory_bw_utilization_pct"] \div 2 IN IF half > 40 THEN 40 ELSE half

\* The built-in functions, in percent.
merge_overhead(ratio) == (60 * ratio * (100 - ratio)) \div 10000
throttle_factor(delay_ms) == 1000 \div (10 + delay_ms)
skip_boost(ratio) == 100 + (80 * ratio) \div 100

\* The decoding rate when the work is split; a split of nothing or everything is none.
partitioned(s, ratio) ==
    LET base == (s["base_tps_decode_partition"] * (100 - merge_overhead(ratio)) * (100 - bw_penalty(s))) \div 10000
    IN  (base * (ratio * freq_pct(s, "gpu") + (100 - ratio) * freq_pct(s, "cpu"))) \div 10000

compute_phase_throughput(s, engine, cfg) ==
    LET gpu_only == (s["base_tps_decode_gpu"] * freq_pct(s, "gpu")) \div 100
    IN  CASE cfg.phase = "prefill" -> (s["base_tps_prefill_gpu"] * freq_pct(s, "gpu")) \div 100
          [] cfg.phase = "decode" /\ cfg.device = "cpu" -> (s["base_tps_decode_cpu"] * freq_pct(s, "cpu")) \div 100
          [] cfg.phase = "decode" /\ cfg.device \in {"opencl", "cuda"} -> (gpu_only * (100 - bw_penalty(s))) \div 100
          [] cfg.phase = "decode" /\ cfg.device \notin {"cpu", "opencl", "cuda"} ->
                IF cfg.device = "partition" /\ engine.partition_ratio \in 1..99
                THEN partitioned(s, engine.partition_ratio) ELSE gpu_only
          [] OTHER -> 0

\* The expressions of the derived fields, those of the baseline scenario.
eval(expr, s, engine, cfg) ==
    CASE expr = "throughput" ->
            (compute_phase_throughput(s, engine, cfg) * throttle_factor(engine.throttle_delay_ms)
                * skip_boost(engine.skip_ratio)) \div 10000
      [] expr = "1000 / throughput_tps" -> IF s["throughput_tps"] > 0 THEN 1000 \div s["throughput_tps"] ELSE 10000
      [] expr = "degradation" ->
            IF s["tbt_ms"] >= cfg.tbt_target THEN 0
            ELSE (100 * (cfg.tbt_target - s["tbt_ms"])) \div Max({cfg.tbt_target, 1})

\* A field is evaluated from the values of those before it in this tick and of those after it
\* in the last; a string is computed and dropped.
evaluate_one(s, name, engine, cfg) ==
    LET d == cfg.derived[name]
    IN  IF d.expr = "string" THEN s
        ELSE set_f64(s, name, lag_step(s[name], eval(d.expr, s, engine, cfg), d.tau, FIXED_DT))

\* An expression without a number or a string for a value ends the tick with an error.
HasValue(name, cfg) == cfg.derived[name].expr # "boolean"
derived_fails(cfg) == \E i \in DOMAIN cfg.order : ~HasValue(cfg.order[i], cfg)

\* cfg.order: the order in which the HashMap of this process iterates, up to an error.
BeforeError(cfg) ==
    LET i == SelectInSeq(cfg.order, LAMBDA name : ~HasValue(name, cfg))
    IN  IF i = 0 THEN cfg.order ELSE SubSeq(cfg.order, 1, i - 1)

evaluate(s, engine, cfg) == FoldLeft(LAMBDA st, name : evaluate_one(st, name, engine, cfg), s, BeforeError(cfg))

=============================================================================
